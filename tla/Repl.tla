-------------------------------- MODULE Repl --------------------------------
(***************************************************************************)
(* The process inside a session container: src/entrypoint.py.  One main    *)
(* thread (SessionServer.run) takes JSON-RPC requests from stdin, one at a *)
(* time, and writes one response per request to the real stdout.  Code to  *)
(* execute runs in a daemon thread of its own (ThreadTimeoutStrategy) that *)
(* redirects the process-wide sys.stdout and sys.displayhook to capture    *)
(* its output (Namespace.exec).  A thread that outlives both timeouts is   *)
(* abandoned: it goes on running, and still owns the redirection.          *)
(*                                                                         *)
(* User code is nondeterministic: it prints, shows values, binds names,    *)
(* returns, raises, blocks, or swallows the asynchronous exception.  It    *)
(* starts no threads and does not write to file descriptor 1 itself.       *)
(* Output is abstracted to who wrote it: a buffer is the set of requests   *)
(* whose code wrote into it.  sys.stderr, redirected next to sys.stdout,   *)
(* is left out.                                                            *)
(***************************************************************************)
EXTENDS Naturals, Sequences

CONSTANTS
    MaxRequests,        \* bound: how many requests clients send
    Methods,            \* the methods they use
    CodeEffects         \* what user code does besides running and raising

AllMethods == {"exec", "install", "reset", "ping", "shutdown", "unknown", "garbled"}

\* print(), an expression statement with a value, an assignment, input(), a C
\* call that keeps the GIL, and the end of the process: os._exit(), a crash in
\* native code, or output that cannot be encoded, at which PID 1 itself raises.
AllEffects == {"print", "show", "bind", "input", "holdGIL", "kill"}

ASSUME ReplAssumption ==
    /\ MaxRequests \in Nat
    /\ Methods \subseteq AllMethods
    /\ CodeEffects \subseteq AllEffects

Req == 1..MaxRequests          \* request ids, in the order of arrival
None == 0                      \* no request; as a stream, the real stdout
Stream == Req \cup {None}
Hook == {"real", "capture"}    \* sys.displayhook

MainPC == {"read", "wait", "join", "uv", "reply", "stopped"}
WorkerPC == {"none", "started", "redirect", "compile", "run", "collect",
             "restore", "finish", "dead"}
Kind == {"none", "ok", "error", "timeout", "internal", "notfound"}

Result == [kind: Kind, out: SUBSET Req, display: SUBSET Req]
NoResult == [kind |-> "none", out |-> {}, display |-> {}]

\* A response; corrupted is the key session_corrupted of its result.
Response == [id: Req \cup {None}, kind: Kind, out: SUBSET Req,
             display: SUBSET Req, corrupted: BOOLEAN]
Answer(r, k) ==
    [id |-> r, kind |-> k, out |-> {}, display |-> {}, corrupted |-> FALSE]
NoResponse == Answer(None, "none")

VARIABLES
    sent,        \* requests sent so far
    stdin,       \* the pipe to PID 1: requests not read yet
    pc,          \* what the main thread is doing
    cur,         \* the request it handles
    resp,        \* the response it is about to write
    shutdown,    \* RPCDispatcher._shutdown_requested
    replies,     \* responses written to the real stdout
    noise,       \* requests whose code wrote to the real stdout
    worker,      \* where the thread of each request is
    saved,       \* the streams its Namespace.exec saved
    buf,         \* its stdout_buf
    result,      \* what it left in result_holder
    finished,    \* threads whose event is set
    interrupted, \* threads with a pending asynchronous _TimeoutError
    sysOut,      \* sys.stdout
    sysHook,     \* sys.displayhook
    display,     \* Namespace._display_output
    ns,          \* Namespace._namespace: requests whose bindings it holds
    gil,         \* the thread that sits on the GIL
    printed, shown, resetAt
        \* history: requests whose code printed, or showed a value, and the
        \* last reset handled

mainVars == <<pc, cur, resp, shutdown, replies>>
workerVars == <<worker, saved, buf, result, finished>>
globalVars == <<sysOut, sysHook, display, noise>>
historyVars == <<printed, shown, resetAt>>
vars == <<sent, stdin, mainVars, workerVars, interrupted, globalVars, ns, gil, historyVars>>

Init ==
    /\ sent = 0 /\ stdin = <<>>
    /\ pc = "read" /\ cur = None /\ resp = NoResponse /\ shutdown = FALSE
    /\ replies = <<>> /\ noise = {}
    /\ worker = [r \in Req |-> "none"]
    /\ saved = [r \in Req |-> [out |-> None, hook |-> "real"]]
    /\ buf = [r \in Req |-> {}]
    /\ result = [r \in Req |-> NoResult]
    /\ finished = {} /\ interrupted = {}
    /\ sysOut = None /\ sysHook = "real" /\ display = {} /\ ns = {}
    /\ gil = None
    /\ printed = {} /\ shown = {} /\ resetAt = 0

Alive(w) == worker[w] \notin {"none", "dead"}

\* The interpreter lets a thread run only while no other one keeps the GIL.
MainMayRun == gil = None
MayRun(w) == gil \in {None, w}

(***************************************************************************)
(* The client end of the pipe                                              *)
(***************************************************************************)

Send(m) ==
    /\ sent < MaxRequests
    /\ sent' = sent + 1
    /\ stdin' = Append(stdin, [id |-> sent + 1, method |-> m])
    /\ UNCHANGED <<mainVars, workerVars, interrupted, globalVars, ns, gil, historyVars>>

(***************************************************************************)
(* The main thread: SessionServer.run and the handlers of RPCDispatcher    *)
(***************************************************************************)

\* Take the next line, if it is a request for method m.
ReadLine(m) ==
    /\ MainMayRun /\ pc = "read"
    /\ stdin # <<>> /\ Head(stdin).method = m
    /\ stdin' = Tail(stdin)
    /\ UNCHANGED <<sent, replies, interrupted, gil>>

\* Take it and have the response ready at once.
ReplyTo(m, k) ==
    /\ ReadLine(m)
    /\ pc' = "reply" /\ cur' = Head(stdin).id
    /\ resp' = Answer(Head(stdin).id, k)

\* _parse_line returns None for a line that is no JSON or names no method.
DropLine ==
    /\ ReadLine("garbled")
    /\ UNCHANGED <<pc, cur, resp, shutdown, workerVars, globalVars, ns, historyVars>>

Ping ==
    /\ ReplyTo("ping", "ok")
    /\ UNCHANGED <<shutdown, workerVars, globalVars, ns, historyVars>>

UnknownMethod ==
    /\ ReplyTo("unknown", "notfound")
    /\ UNCHANGED <<shutdown, workerVars, globalVars, ns, historyVars>>

Shutdown ==
    /\ ReplyTo("shutdown", "ok")
    /\ shutdown' = TRUE
    /\ UNCHANGED <<workerVars, globalVars, ns, historyVars>>

\* Namespace.reset
Reset ==
    /\ ReplyTo("reset", "ok")
    /\ ns' = {} /\ display' = {}
    /\ resetAt' = Head(stdin).id
    /\ UNCHANGED <<shutdown, workerVars, sysOut, sysHook, noise, printed, shown>>

\* PackageInstaller.install: no usable package is an error at once, otherwise
\* subprocess.run waits for uv, 120 seconds at most.
InstallNothing ==
    /\ ReplyTo("install", "error")
    /\ UNCHANGED <<shutdown, workerVars, globalVars, ns, historyVars>>

StartInstall ==
    /\ ReadLine("install")
    /\ pc' = "uv" /\ cur' = Head(stdin).id
    /\ UNCHANGED <<resp, shutdown, workerVars, globalVars, ns, historyVars>>

\* The main thread is at step p and moves to q.
MainStepTo(p, q) ==
    /\ MainMayRun /\ pc = p
    /\ pc' = q
    /\ UNCHANGED <<sent, stdin, shutdown, workerVars, globalVars, ns, gil, historyVars>>

\* The handler at step p is done: a is its response.
Handled(p, a) ==
    /\ MainStepTo(p, "reply")
    /\ resp' = a
    /\ UNCHANGED <<cur, replies, interrupted>>

\* uv succeeded, failed, is not there, or was killed after its 120 seconds.
UvDone(k) == Handled("uv", Answer(cur, k))

\* execute_with_timeout: start the daemon thread, wait for its event, for no
\* longer than threading.TIMEOUT_MAX.
StartExec ==
    /\ ReadLine("exec")
    /\ pc' = "wait" /\ cur' = Head(stdin).id
    /\ worker' = [worker EXCEPT ![Head(stdin).id] = "started"]
    /\ UNCHANGED <<resp, shutdown, saved, buf, result, finished, globalVars, ns, historyVars>>

\* A mutant of WaitDone: an empty result_holder is passed on.
WaitDone_Unchecked ==
    /\ cur \in finished
    /\ Handled("wait", [id |-> cur, kind |-> result[cur].kind, out |-> result[cur].out,
                        display |-> result[cur].display, corrupted |-> FALSE])

\* The event came in time.  An empty result_holder, left by code that raised
\* a BaseException, makes result_holder[0] raise: an internal error.
WaitDone ==
    /\ cur \in finished
    /\ Handled("wait",
               IF result[cur] = NoResult
               THEN Answer(cur, "internal")
               ELSE [id |-> cur, kind |-> result[cur].kind, out |-> result[cur].out,
                     display |-> result[cur].display, corrupted |-> FALSE])

\* The event did not come, or came just after the wait had given up:
\* _handle_timeout raises _TimeoutError in the thread, if there still is one.
WaitTimesOut ==
    /\ MainStepTo("wait", "join")
    /\ interrupted' = interrupted \cup (IF Alive(cur) THEN {cur} ELSE {})
    /\ UNCHANGED <<cur, resp, replies>>

\* A mutant of JoinDone: the thread is taken for gone without is_alive().
JoinDone_Unchecked == Handled("join", Answer(cur, "timeout"))

\* thread.join(hard timeout) returned and the thread is gone.
JoinDone == Handled("join", Answer(cur, "timeout")) /\ ~Alive(cur)

\* A mutant of JoinTimesOut: session_corrupted is left at its default.
JoinTimesOut_NoFlag == Handled("join", Answer(cur, "timeout")) /\ Alive(cur)

\* It returned and the thread is still there: it is abandoned.
JoinTimesOut ==
    /\ Handled("join", [Answer(cur, "timeout") EXCEPT !.corrupted = TRUE])
    /\ Alive(cur)

\* The process ends and takes its daemon threads and the namespace with it.
Stop ==
    /\ pc' = "stopped" /\ cur' = None /\ ns' = {}
    /\ worker' = [w \in Req |-> IF worker[w] = "none" THEN "none" ELSE "dead"]
    /\ gil' = None
    /\ UNCHANGED <<sent, stdin, shutdown, saved, buf, result, finished, interrupted,
                   globalVars, historyVars>>

\* A mutant of WriteResponse: the loop goes on after a shutdown.
WriteResponse_NoBreak ==
    /\ MainStepTo("reply", "read")
    /\ replies' = Append(replies, resp)
    /\ cur' = None /\ resp' = NoResponse
    /\ UNCHANGED interrupted

\* _write_response, to the stdout the server was built with, then the next
\* line, unless a shutdown was requested.
WriteResponse ==
    /\ ~shutdown
    /\ MainStepTo("reply", "read")
    /\ replies' = Append(replies, resp)
    /\ cur' = None /\ resp' = NoResponse
    /\ UNCHANGED interrupted

WriteLastResponse ==
    /\ MainMayRun /\ pc = "reply" /\ shutdown
    /\ replies' = Append(replies, resp)
    /\ resp' = NoResponse
    /\ Stop

\* json.dump(ensure_ascii=False) raises on output with a lone surrogate.
WriteFails ==
    /\ "kill" \in CodeEffects
    /\ MainMayRun /\ pc = "reply" /\ resp.out \cup resp.display # {}
    /\ Stop
    /\ UNCHANGED <<resp, replies>>

(***************************************************************************)
(* A worker thread: _run around Namespace.exec                             *)
(***************************************************************************)

\* Thread w is at step p, may run, and moves to q.
Step(w, p, q) ==
    /\ MayRun(w) /\ worker[w] = p
    /\ worker' = [worker EXCEPT ![w] = q]
    /\ UNCHANGED <<sent, stdin, mainVars, gil, resetAt>>

\* A mutant of SaveStreams: the display list of the last exec is used again.
SaveStreams_KeepsDisplay(w) ==
    /\ Step(w, "started", "redirect")
    /\ saved' = [saved EXCEPT ![w] = [out |-> sysOut, hook |-> sysHook]]
    /\ UNCHANGED <<buf, result, finished, interrupted, globalVars, ns, printed, shown>>

\* A new display list, then save the streams in place.
SaveStreams(w) ==
    /\ Step(w, "started", "redirect")
    /\ display' = {}
    /\ saved' = [saved EXCEPT ![w] = [out |-> sysOut, hook |-> sysHook]]
    /\ UNCHANGED <<buf, result, finished, interrupted, sysOut, sysHook, noise, ns, printed, shown>>

RedirectStreams(w) ==
    /\ Step(w, "redirect", "compile")
    /\ sysOut' = w /\ sysHook' = "capture"
    /\ UNCHANGED <<saved, buf, result, finished, interrupted, display, noise, ns, printed, shown>>

CompileCode(w) ==
    /\ Step(w, "compile", "run")
    /\ UNCHANGED <<saved, buf, result, finished, interrupted, globalVars, ns, printed, shown>>

\* compile(), or the code when it runs, raised: the captured stdout and the
\* message or traceback become the result.
CodeRaises(w) ==
    /\ \/ Step(w, "compile", "restore")
       \/ Step(w, "run", "restore")
    /\ result' = [result EXCEPT ![w] = [kind |-> "error", out |-> buf[w], display |-> {}]]
    /\ UNCHANGED <<saved, buf, finished, interrupted, globalVars, ns, printed, shown>>

\* A BaseException other than SystemExit passes every handler.
CodeRaisesBase(w) ==
    /\ Step(w, "run", "restore")
    /\ UNCHANGED <<saved, buf, result, finished, interrupted, globalVars, ns, printed, shown>>

\* The code returns, or calls sys.exit(), which is swallowed.
CodeReturns(w) ==
    /\ Step(w, "run", "collect")
    /\ UNCHANGED <<saved, buf, result, finished, interrupted, globalVars, ns, printed, shown>>

CollectResult(w) ==
    /\ Step(w, "collect", "restore")
    /\ result' = [result EXCEPT ![w] = [kind |-> "ok", out |-> buf[w], display |-> display]]
    /\ UNCHANGED <<saved, buf, finished, interrupted, globalVars, ns, printed, shown>>

RestoreStreams(w) ==
    /\ Step(w, "restore", "finish")
    /\ sysOut' = saved[w].out /\ sysHook' = saved[w].hook
    /\ UNCHANGED <<saved, buf, result, finished, interrupted, display, noise, ns, printed, shown>>

\* finished.set() in the finally clause of _run: the end of the thread.
FinishThread(w) ==
    /\ Step(w, "finish", "dead")
    /\ finished' = finished \cup {w}
    /\ interrupted' = interrupted \ {w}
    /\ UNCHANGED <<saved, buf, result, globalVars, ns, printed, shown>>

\* What running code does to the process it shares.

\* Text goes to whatever sys.stdout is now.
WriteOut(w) ==
    IF sysOut = None
    THEN noise' = noise \cup {w} /\ UNCHANGED buf
    ELSE buf' = [buf EXCEPT ![sysOut] = @ \cup {w}] /\ UNCHANGED noise

CodePrints(w) ==
    /\ "print" \in CodeEffects
    /\ Step(w, "run", "run")
    /\ WriteOut(w)
    /\ printed' = printed \cup {w}
    /\ UNCHANGED <<saved, result, finished, interrupted, sysOut, sysHook, display, ns, shown>>

\* An expression statement with a value calls sys.displayhook: _display_hook
\* appends to the current display list, the original hook prints.
CodeShowsValue(w) ==
    /\ "show" \in CodeEffects
    /\ Step(w, "run", "run")
    /\ IF sysHook = "capture"
       THEN display' = display \cup {w} /\ UNCHANGED <<buf, noise>>
       ELSE WriteOut(w) /\ UNCHANGED display
    /\ shown' = shown \cup {w}
    /\ UNCHANGED <<saved, result, finished, interrupted, sysOut, sysHook, ns, printed>>

CodeBindsName(w) ==
    /\ "bind" \in CodeEffects
    /\ Step(w, "run", "run")
    /\ ns' = ns \cup {w}
    /\ UNCHANGED <<saved, buf, result, finished, interrupted, globalVars, printed, shown>>

\* input(): sys.stdin is the pipe the requests come through.
CodeReadsLine(w) ==
    /\ "input" \in CodeEffects
    /\ MayRun(w) /\ worker[w] = "run"
    /\ stdin # <<>> /\ stdin' = Tail(stdin)
    /\ UNCHANGED <<sent, mainVars, workerVars, interrupted, globalVars, ns, gil, historyVars>>

CodeHoldsGIL(w) ==
    /\ "holdGIL" \in CodeEffects
    /\ gil = None /\ worker[w] = "run"
    /\ gil' = w
    /\ UNCHANGED <<sent, stdin, mainVars, workerVars, interrupted, globalVars, ns, historyVars>>

CodeReleasesGIL(w) ==
    /\ gil = w
    /\ gil' = None
    /\ UNCHANGED <<sent, stdin, mainVars, workerVars, interrupted, globalVars, ns, historyVars>>

\* os._exit(), or a crash of the interpreter in native code.
CodeKillsServer(w) ==
    /\ "kill" \in CodeEffects
    /\ MayRun(w) /\ worker[w] = "run"
    /\ Stop
    /\ UNCHANGED <<resp, replies>>

\* The pending _TimeoutError is raised in the thread, where it is now: before
\* the try statement it leaves Namespace.exec at once, in its body it takes
\* the thread to the finally clause, which it may cut short, and in _run it
\* ends the thread.
RaiseTimeoutError(w) ==
    /\ w \in interrupted
    /\ interrupted' = interrupted \ {w}
    /\ \/ /\ Step(w, "started", "finish")
          /\ UNCHANGED <<sysOut, sysHook>>
       \/ /\ \E p \in {"redirect", "compile", "run", "collect"} : Step(w, p, "restore")
          /\ UNCHANGED <<sysOut, sysHook>>
       \/ /\ Step(w, "restore", "finish")
          /\ sysOut' \in {sysOut, saved[w].out} /\ UNCHANGED sysHook
       \/ /\ Step(w, "finish", "dead")
          /\ UNCHANGED <<sysOut, sysHook>>
    /\ UNCHANGED <<saved, buf, result, finished, display, noise, ns, printed, shown>>

\* The code catches it (_TimeoutError is an Exception) and goes on.
CodeSwallowsTimeout(w) ==
    /\ w \in interrupted
    /\ Step(w, "run", "run")
    /\ interrupted' = interrupted \ {w}
    /\ UNCHANGED <<saved, buf, result, finished, globalVars, ns, printed, shown>>

(***************************************************************************)
(* The specification                                                       *)
(***************************************************************************)

MainStep ==
    \/ DropLine \/ Ping \/ UnknownMethod \/ Shutdown \/ Reset
    \/ InstallNothing \/ StartInstall \/ (\E k \in {"ok", "error"} : UvDone(k))
    \/ StartExec \/ WaitDone \/ WaitTimesOut \/ JoinDone \/ JoinTimesOut
    \/ WriteResponse \/ WriteLastResponse \/ WriteFails

WorkerStep(w) ==
    \/ SaveStreams(w) \/ RedirectStreams(w) \/ CompileCode(w)
    \/ CollectResult(w) \/ RestoreStreams(w) \/ FinishThread(w)
    \/ RaiseTimeoutError(w)

CodeStep(w) ==
    \/ CodePrints(w) \/ CodeShowsValue(w) \/ CodeBindsName(w) \/ CodeReadsLine(w)
    \/ CodeReturns(w) \/ CodeRaises(w) \/ CodeRaisesBase(w)
    \/ CodeSwallowsTimeout(w)
    \/ CodeHoldsGIL(w) \/ CodeReleasesGIL(w) \/ CodeKillsServer(w)

Next ==
    \/ \E m \in Methods : Send(m)
    \/ MainStep
    \/ \E w \in Req : WorkerStep(w) \/ CodeStep(w)

\* The main thread and its timers make progress, also where other threads take
\* the GIL and give it back for ever: the interpreter hands it on.  Nothing is
\* assumed of user code, nor of the delivery of the exception to it.
Spec == Init /\ [][Next]_vars /\ SF_vars(MainStep)

(***************************************************************************)
(* Properties                                                              *)
(***************************************************************************)

\* The values of the variables.
TypeOK ==
    /\ sent \in 0..MaxRequests
    /\ stdin \in Seq([id: Req, method: AllMethods])
    /\ pc \in MainPC
    /\ cur \in Req \cup {None}
    /\ resp \in Response
    /\ shutdown \in BOOLEAN
    /\ replies \in Seq({a \in Response : a.kind # "none"})
    /\ noise \subseteq Req
    /\ worker \in [Req -> WorkerPC]
    /\ saved \in [Req -> [out: Stream, hook: Hook]]
    /\ buf \in [Req -> SUBSET Req]
    /\ result \in [Req -> Result]
    /\ finished \subseteq Req
    /\ interrupted \subseteq Req
    /\ sysOut \in Stream
    /\ sysHook \in Hook
    /\ display \subseteq Req
    /\ ns \subseteq Req
    /\ gil \in Req \cup {None}
    /\ printed \subseteq Req
    /\ shown \subseteq Req
    /\ resetAt \in 0..MaxRequests

\* No thread has been abandoned so far: no response says session_corrupted.
Reported(w) == \E i \in DOMAIN replies : replies[i].id = w /\ replies[i].corrupted
Clean == ~resp.corrupted /\ \A i \in DOMAIN replies : ~replies[i].corrupted

\* The caller can tell from session_corrupted that a thread was left behind:
\* one that is still alive belongs to the request being handled, or to one
\* whose response carries the flag.
AbandonedReported ==
    \A w \in Req : Alive(w) => w = cur \/ Reported(w)

\* The response Namespace.exec and its redirection are for: what it says was
\* printed and displayed is what the code of this request printed and
\* displayed, nothing lost and nothing from another request.
Exact(a) ==
    /\ a.kind \in {"ok", "error"} => a.out = printed \cap {a.id}
    /\ a.kind = "ok" => a.display = shown \cap {a.id}

OutputExact ==
    \A i \in DOMAIN replies :
        (\A j \in 1..i : ~replies[j].corrupted) => Exact(replies[i])

\* User code never writes into the JSON-RPC stream between two responses.
ChannelClean == Clean => noise = {}

\* After a reset no binding made by an earlier request comes back.
ResetHolds == Clean => \A b \in ns : b > resetAt

\* The protocol, whatever abandoned threads do: RpcServer.  That requests are
\* taken and answered presumes that code which takes the GIL gives it back.
Protocol == INSTANCE RpcServer WITH
    queue <- stdin,
    busy <- cur,
    last <- shutdown,
    MayDie <- "kill" \in CodeEffects,
    MayLose <- "input" \in CodeEffects,
    answered <- [i \in DOMAIN replies |-> replies[i].id],
    up <- pc # "stopped"

ServesInOrder ==
    /\ Protocol!Init /\ [][Protocol!Next]_(Protocol!vars)
    /\ []<>(gil = None) => Protocol!Fairness
=============================================================================
