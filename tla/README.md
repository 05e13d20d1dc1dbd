# TLA+ models of mcp-sandbox-pyrepl

mcp-sandbox-pyrepl is an MCP server that gives clients stateful Python REPL
sessions, each in a Docker container. These modules model the parts of it that
have state and can go wrong in an order nobody tests: the process inside the
container, the RPC between host and container down to the bytes of its stream, the
registry of sessions against the Docker daemon, the file tools and the
configuration. TLC checks them on small instances; TLAPS proves the
main results for every value of the constants.

Paths below are relative to the repository root, `src/` in `PROJECT.json`.

## Inventory

| Component | Code | State | Operations | Talks to |
|---|---|---|---|---|
| Request loop and dispatcher | `src/entrypoint.py`: `SessionServer`, `RPCDispatcher` | the line being handled, `_shutdown_requested` | read a line, dispatch `exec`/`install`/`reset`/`ping`/`shutdown`, write a response | stdin and stdout of PID 1 |
| Namespace | `Namespace` | `_namespace`, `_display_output`, and the process-wide `sys.stdout`, `sys.stderr`, `sys.displayhook` | `exec`, `reset`, `_display_hook` | worker threads |
| Timeout strategy | `ThreadTimeoutStrategy` | one daemon thread, event and result holder per execution | start, wait, interrupt, join, abandon | the interpreter (asynchronous exceptions, GIL) |
| Package installer | `PackageInstaller` | none; `/session/venv` through `uv` | `install` | a subprocess of at most 120 s |
| RPC client | `src/docker_adapter.py`: `container_rpc`, `DockerFrameReader` | `_rpc_counter`, one socket per call with a timeout of 10 s | attach, send, read frames until the own id | Docker daemon |
| Tool handlers | `src/mcp_server.py`: `MCPToolHandler` | none | `execute_python`, `install_packages`, `end_session`, file tools | `SessionManager` |
| Session registry | `src/session_manager.py`: `SessionManager` | `_sessions` | create, end, restart, network connect and disconnect, file operations | Docker daemon |
| Container lifecycle | `docker_adapter.py`: `containers_create`, `container_stop`, `container_remove` | containers and named volumes, in the daemon | create and start, stop, remove with volumes | Docker daemon |
| Start-up, signals, configuration | `src/main.py` | `DEFAULT_CONFIG` | load and merge, build the application, exit on SIGTERM and SIGINT | the process |

The MCP SDK runs the synchronous tool handlers on its event loop, so **the host
handles one tool call at a time**. The concurrency is elsewhere: the container
does not know that the host has given up on a request; inside the container the
main thread, the thread of the current execution and abandoned threads share one
interpreter with its `sys.stdout`; the daemon can fail any call; containers and
the server can end at any time.

What is hard, and what makes each part correct:

* *Session process.* A thread that outlives its timeout keeps running and owns
  the redirection. Correct: whoever is left behind was reported
  (`AbandonedReported`), and as long as nobody was, output, namespace and
  protocol stream are exact (`OutputExact`, `ResetHolds`, `ChannelClean`); the
  protocol itself is in order whatever happens (`ServesInOrder`).
* *RPC.* Two clocks, the host's 10 s and the container's 30 s + 5 s. Correct: a
  returned result means the container is done (`DrainedOnReturn`), a corrupted
  container is not used again (`NoUseAfterAbandon`), an install's network is
  closed on every path (`NetworkClosed`), every call returns unless the container
  goes on for ever to write what is no response (`EveryCallReturns`), and altogether the client is served as `ToolCalls` says:
  nothing runs twice or out of order, nothing is under way after a result
  (`ServesCalls`).
* *Both together.* The restart after `session_corrupted` must come between the
  abandoned thread and the next call: results are the call's own (`ReportExact`),
  and a session that still answers has the names the client counts on, unless a
  call returned with `session_reset` (`BindingsStay`).
* *Frame reader.* TCP cuts the stream anywhere, the container may die anywhere.
  Correct: frames are returned whole and in order (`WholeFrames`,
  `FramesDelivered`), and a clean end is told from a cut frame (`EndsExactly`).
* *Registry.* A handler is a sequence of daemon calls, any of which may fail.
  Correct: nothing leaks without a failure (`NoSilentOrphans`), what is
  registered exists (`RegisteredExists`), sessions do not share containers
  (`OneOwner`), nothing done for one session changes another
  (`SessionsIndependent`), handlers return (`HandlersReturn`).
* *File tools.* Scripts run in the container next to user code. Correct: an
  acknowledged write stays (`KnownHolds`) and is read back as it was
  (`RoundTrip`), a listing is complete or an error (`ListExact`), calls return
  (`CallsReturn`).
* *Configuration.* All configurations of a process share one dict. Correct: a
  server can serve its default version (`AlwaysUsable`) and what it lists
  (`ListedAreServed`), and is not changed by later loads (`ServersFrozen`).

`PROJECT.json` lists every hazard with its line and its properties.

## Modules

| Module | Models |
|---|---|
| `RpcServer` | abstract: the session process as the other end of the pipe sees it |
| `Repl` | the session process: main thread, worker threads, user code; implements `RpcServer` |
| `MC_Repl` | `Repl` with the constraint `NothingAbandoned` for TLC |
| `ReplProofs` | theorems about `Repl` |
| `ToolCalls` | abstract: one session as its client sees it |
| `ToolCallsProofs` | theorems about `ToolCalls`: what implementing it is worth |
| `Session` | one session end to end in time: tool handler, socket, network, restart, container reduced to a serial server with deadlines; implements `ToolCalls` |
| `SessionProofs` | theorems about `Session` |
| `Sandbox` | composition: the tool handlers with an instance of `Repl` as the container; implements `ToolCalls` as well |
| `SandboxProofs` | theorems about `Sandbox`, on top of `ReplProofs` |
| `Sandboxes` | abstract: all sessions as the clients of the server see them |
| `SessionManager` | registry, Docker daemon, volumes, server crashes; implements `Sandboxes` |
| `SessionManagerProofs` | theorems about `SessionManager` |
| `FrameReader`, `MC_FrameReader` | `DockerFrameReader` over a stream of bytes |
| `FrameReaderProofs` | theorems about `FrameReader` |
| `Files` | the scripts of `write_file`, `read_file`, `list_files` next to user code |
| `FilesProofs` | theorems about `Files` |
| `Configuration` | `load_config`, `_merge_config`, `create_mcp_app` |
| `ConfigurationProofs` | theorems about `Configuration` |

The abstract specifications are properties of the detailed ones (`ServesInOrder`,
`ServesCalls`, `SessionsIndependent`), by `INSTANCE ... WITH` and a mapping that is
defined next to the property (`Fate`, `Stage`).

### Repl

`pc` is where the main thread is: `read` (in the `for` loop of `run`), `wait` and
`join` (the two timed waits of `ThreadTimeoutStrategy`), `uv`, `reply`
(`_write_response`), `stopped`. `worker[w]` is where the thread of request `w`
is, with one value for each statement of `_run` and `Namespace.exec` that
another thread can come between: `started` (streams not yet saved), `redirect`,
`compile`, `run`, `collect`, `restore` (the `finally` clause), `finish`
(`finished.set()`), `dead`. Timeouts are nondeterministic: `WaitTimesOut` may
happen at any time, also when the event is about to be set. `RaiseTimeoutError`
delivers the pending exception wherever the thread is, in the `finally` clauses
as well.

User code is a nondeterministic choice of effects, switched on by `CodeEffects`.
It may print, show values, bind names, read a line of stdin (which is the pipe the
requests come through: a request is lost), return, raise an `Exception` or another
`BaseException`, block, swallow the interrupt, keep the GIL and give it back or
not, or end the process.
Output is the set of requests that wrote it, which is all that exactness needs:
a buffer holding anything but its own request's text is a leak. `printed` and
`shown` record what should be there.

Assumed of user code: it starts no threads of its own, does not assign
`sys.stdout` and does not write to file descriptor 1.
`sys.stderr`, redirected and restored next to `sys.stdout`, is left out.

### Session

`hpc` is the next step of the tool handler: `connect` and `disconnect` are the
network calls around an install, `send` the attach and write, `recv` the frame
loop, `restart` the call of `restart_session`. `call.id` is `_rpc_counter`. The
container is `queue` (stdin of PID 1), `busy` and `age` (the request and how long
it has run), `abandoned`. Time is discrete; `Tick` advances the host's `timer` and
the container's `age` together and is not enabled past a deadline somebody must
act on. In the configurations **a tick is 2.5 s**: `RecvTimeout` 4 is 10 s,
`HardTimeout` 2 is 5 s, `UvTimeout` 48 is 120 s, an execution timeout of 12 is the
default of 30 s.

`Faults` switches on refused attaches, requests that are sent in part (`torn`: what
is there of the line swallows the next request), failing network calls, restarts
that fail half way, a dying PID 1, a container that never answers, code that reads
requests from stdin, frames that do not hold exactly one response, at which
`json.loads` may raise what the loop does not catch (`FrameRaises`), and output that
nobody asked for: frames of stderr, from a subprocess, C code or an excepthook, and
stray bytes on stdout (`StrayOutput`). Such frames come at any time and any number of
times, at most `MaxFrames` of them unread; the host skips them, and each starts its
timeout afresh. What the container writes while nobody is attached is
not delivered, as `container_rpc` attaches without `logs`. `network` has four
values because "connected" has three causes that the properties tell apart: since
the creation (`fresh`), by an install (`open`), and by a connect or a disconnect that
raised (`stuck`), of which the host cannot know whether the daemon carried it out.

`Fate(c)` says what became of the request of call `c`: not made, not sent, with the
container, carried out, or lost. It maps `Session` to `ToolCalls`.

### Sandbox

`Container == INSTANCE Repl` with all its variables, and the tool handlers around it:
`hpc` is `idle`, `send`, `recv` or `restart`. There is no time; the host may give up on
a call at any moment (`GiveUp`), which includes every order of the two timeouts.
`Container!Send` is the only way in, `replies` the only way out, `seen` counts how
many of them were delivered or went by unread. `RestartSession` puts a new process in
place of the old one. The history variable `missed` says that a `session_corrupted`
was not heeded, because it came when no socket was attached, for a request the host
had given up on, or because the restart failed; `relied` holds the executions
whose bindings the client may count on. They are added when a call returns without
`session_corrupted`, and written off when one returns with `session_reset`, which
`execute_python` does only after `restart_session` has returned. A restart that raises
(`RestartFails`) delivers no `session_reset`: the old container has been stopped by then
and nothing replaces it, or the daemon refused that too and it runs on with its names.

### FrameReader

A byte is its place in the stream, so payloads can be compared with what was sent.
`Start` gives the places where frames begin. The daemon writes any number of bytes at
a time (`DaemonWrites`) and may close anywhere. `pc` is the `recv` the reader is in:
`header` (the first `recv(8)`), `rest` (`recv_exact` of what is missing of it),
`payload`, or how it ended: `eof` (`None`), `broken` (`ConnectionError`), `timeout`.

### Files

One directory of `/data`. A name leads to an inode and a script keeps the inode it
opened, so a rename or removal by user code has the effect it has on a file system.
Contents are written and read in two pieces. `pc` is the next statement of the script
that touches the disk. Between any two of them user code may act, the script may fail
(`ScriptFails`: an exception, no space, a signal) and the container may die. A client
`known`s the content of a name from the acknowledged write until it writes again or
user code touches the name.

### Configuration

`heap` holds the image dicts that were made, by identity, `sandbox` is
`DEFAULT_CONFIG["sandbox"]`, the one dict that every configuration shares because
`dict(DEFAULT_CONFIG)` copies one level. A server refers to image dicts by identity as
well, so a merge in place would reach it.

### SessionManager

Each daemon call is an action with a failing twin: `DaemonCreates`,
`DaemonStarts`, `SendShutdown`, `Stop`, `Remove`, `RemoveVolumes`. `op`, `sid` and
`box` are the locals of the running handler. The first failure inside the
`suppress` block of `end_session` and `restart_session` skips the rest of the
block (`StopFails`, `RemoveFails`), a failing create or start raises out of the
handler (`DaemonCreateFails`, `DaemonStartFails`). The history variable `failed`
holds the containers a call failed on or a killed server left behind, `lost` the
sessions whose restart did not finish. `Sigterm` may come between any two calls:
`sys.exit(0)` raises a `SystemExit` that neither `suppress(Exception)` nor
`except Exception` catches. `Boot` starts a server with an empty registry.

## Runs

"Passes" means TLC has explored every state within the bounds.

| Run | Bounds | Shows |
|---|---|---|
| `Repl_output` | 3 executions that print and show, crashes | responses are exact and the channel clean until a thread is abandoned |
| `Repl_protocol` | 2 requests of every method; code binds names, reads stdin, keeps the GIL, crashes | abandoned threads are reported; resets hold until a thread is abandoned; `Repl` implements `RpcServer`, fairness included |
| `Session_faults` | 3 calls, both tools, timeouts 2.5 s and 30 s, 2 unread frames, all faults | `DrainedOnReturn`, `NetworkClosed`, `EveryCallReturns`; `Session` implements `ToolCalls` |
| `Session_short` | 4 executions, timeouts 0 and 2.5 s, refused attaches, container deaths, output on stderr | `NoUseAfterAbandon` for clients that stay below 5 s |
| `Sandbox_client` | 2 executions that print, bind and may end the process | `ReportExact`, `BindingsStay`; `Sandbox` implements `ToolCalls` |
| `SessionManager_registry` | 2 sessions, 3 containers, 1 file | the properties of the registry; `SessionManager` implements `Sandboxes` |
| `FrameReader_stream` | 4 frames with payloads of 3, 0, 1 and 2 bytes | the properties of the frame reader |
| `Files_script` | 2 calls, 2 names, 2 inodes, 2 text contents and a binary one | the properties of the file tools |
| `Configuration_loads` | 3 loads, 2 servers, 2 versions, 2 images | the properties of the configuration |

Three executions are what the output properties need: one whose restore is late,
one that saves the wrong streams because of it, and one that shows the damage.
`NothingAbandoned` cuts `Repl_output` off at the first response marked
`session_corrupted`, because its properties promise nothing after it (the host
restarts the container then); the proofs have no such bound. Two requests are an
execution left behind and the reset, or the second execution, it could disturb. Two
requests reach every pair of methods, a shutdown with a request behind it among
them. In `Sandbox_client` the second execution is the one an abandoned thread, a
missed restart or a late response could harm; once the last call has ended the
container is not looked at any more (`Observed`). Three calls let a late response arrive during a later call while a third
is queued. Two unread frames are a response and one that is no response before or behind
it. Two sessions and three containers let one session be restarted while
the other exists. Four frames put an empty frame between two others and a frame
behind every kind of frame; longer payloads only repeat the loop of `recv_exact`. Two
calls of the file tools are a write and whatever could contradict it. Three loads are
one that pollutes the shared dict, one that fails on it and one after a server is built.

The remaining runs each exhibit a disagreement between the code and what the
repository says of it:

| Run | The code | The repository |
|---|---|---|
| `SessionManager_ended` | a failing stop skips the remove, success is returned (`session_manager.py:185`) | ending stops and removes the container (`session-lifecycle/spec.md:54`) |
| `Session_abandon` | after a 30 s execution the corrupted container is used again (`docker_adapter.py:314`) | it is restarted (`code-execution/spec.md:33`) |
| `Session_uv` | the network goes away under a running uv (`mcp_server.py:149`) | disconnected after the command completes (`package-management/spec.md:43`) |

More disagreements have no run of their own, as the model shows them at a glance:

* `WaitDone` answers `internal`: a `KeyboardInterrupt` or another `BaseException`
  raised in user code becomes error -32603 (`entrypoint.py:212`);
  `code-execution/spec.md:52` promises runtime errors with traceback;
* `success` of an install is read from the JSON-RPC envelope (`mcp_server.py:152`), so
  `UvFails` is reported as a success; the docstring at `mcp_server.py:133` says "success
  status and output";
* `RemoveVolumes` is part of `RestartSession`: files written before a timeout are gone
  (`session_manager.py:235`); `README.md:16` calls `/data` persistent;
* `LoadsHalf` returns the user's images although `load_config` logs "using defaults"
  (`main.py:77`) and its docstring says it falls back to them;
* `Begin` of `Files` takes only text: a client that passes base64 to `write_file`
  (`data-transfer/spec.md:23`) gets the base64 text written, as `session_manager.py:300`
  encodes whatever it is given;
* while `CodeHoldsGIL` lasts no main step is enabled, so a call that keeps the GIL
  is not answered; `design.md:134` promises a `session_corrupted` flag for it;
* `Sigterm` changes no container; `design.md:135` says "Register cleanup on
  shutdown; orphaned container detection on startup";
* `Init` and `RestartSession` of `Session` have a network; `sandbox-security/spec.md:43`
  says there is none during `execute_python`;
* `SkipFrame` sets `timer` to 0: `settimeout` limits each `recv` and not the call
  (`docker_adapter.py:318`), so every frame of stderr starts the 10 s afresh. The host
  waits longer than the 10 s after which `tests/integration/test_execution.py:162`
  expects a `ConnectionError`, and for ever if such output goes on, although the comment
  at `docker_adapter.py:334` says that the entrypoint never writes to stderr;
* `Arrivals` may hold no whole response; the comment at `docker_adapter.py:339` takes
  every frame for valid JSON.

Every property of a passing run has a mutant in `PROJECT.json`: a definition such as
`JoinTimesOut_NoFlag`, next to the one it replaces, under which TLC finds the
property violated.

`CHECK_DEADLOCK FALSE` is set for the modules whose clients make a bounded number of
calls, or whose stream ends, and then stop: all but `SessionManager`.

## Fairness

* `Repl`: strong fairness of the main thread's steps. Another thread may take the GIL
  and give it back again and again; the interpreter passes it on to a thread that
  waits, so a main thread that could run again and again does. One that never gets
  the GIL back is not assumed to move, and `ServesInOrder` promises progress only if
  the GIL is free again and again. Nothing is assumed of user code or of the delivery
  of the exception.
* `Session`: weak fairness of the host's steps and strong fairness of time: time does
  not pass between a frame that has arrived and the host's reading it, so frames that
  keep coming disable `Tick` again and again, and it goes on all the same. Nothing is
  assumed of the container: with the fault `hang` time passes whether or not it acts.
  Of a container that writes frames for ever `EveryCallReturns` promises nothing, since
  `container_rpc` then need not return.
* `SessionManager`: weak fairness of the running handler's daemon calls taken
  together; docker-py calls have a timeout, so each returns or raises.
* `FrameReader`: weak fairness of `recv`, which returns when there is something.
* `Files`: weak fairness of the steps of the script and the host's call of it. There is
  no timeout: that a script does not block rests on regular files only.
* `RpcServer`: weak fairness of answering.
* `ToolCalls`, `Sandbox`, `Configuration`: none; their properties are safety.

## Proofs

`ReplProofs`, for any number of requests, set of methods and set of effects:

* `TypeCorrect`, `AbandonedThreadsReported`, `OutputIsExact`, `ChannelStaysClean`,
  `ResetIsKept`, each as `Spec => []Property`.
* `ServesSafely`: the initial states and every step of `Repl` map to `RpcServer`.
* `AnswersInOrder`: the ids of the responses grow, so no request is answered twice.

`OutputExact` is not inductive. The invariant `IInv` adds what the redirection does
while nothing has been abandoned: only the thread of the current request is alive
(`Isolated`), its saved streams are the real ones, so restoring cannot bring back
a stranger's, `sys.stdout` is its own buffer exactly between `RedirectStreams` and
`RestoreStreams`, and buffer and display list hold what its code wrote so far. The
key step is that the main thread answers only when the thread's event is set,
when the thread is dead after the join, or with the flag `session_corrupted`.

`IInv` is as weak as it can be about where requests come from, because `SandboxProofs`
uses it for containers that take over in the middle: ids in the pipe grow but may have
gaps (`Numbered`), and a request without a thread may have printed in an earlier
process, though not if it has yet to be taken or is the one being handled
(`Untouched`). `SkipKept`, `StopKept` and `RestartKept` say that the invariant survives a
request that does not reach the pipe, a container that is stopped, and a new process in
place of the old one.

`SessionProofs`, for any number of calls, timeouts and faults:

* `TypeCorrect`; `NetworkIsClosed`.
* `ResultsAreDrained`: `DrainedOnReturn` for all faults. The invariant `DInv` says that
  requests are queued in the order of their ids and the host's own is the last
  (`OwnIsLast`), so the response with its id is the last thing the container does.
* `CallsAreServed`: `Session` implements `ToolCalls`, for all faults.
  The invariant `RInv` adds to `DInv` that what is queued or running is in the order
  of the calls (`InOrder`) and has not ended yet (`RunOnce`), and that a frame with the
  host's id, or a result that is about to be returned, means that its request has ended
  (`ResultRan`). With it each action is one of `ToolCalls`: losing a part of a line, a line
  to user code or the whole container is `Lose`, every way to end with an error is
  `Fail`, a response of PID 1 is `Run` of the oldest request it has.
* `ShortCallsAreSafe`: under `ShortCalls` (only executions, every timeout plus the hard
  timeout below the socket timeout, frames of stdout whole, restarts succeed),
  `NoUseAfterAbandon`. The invariant `SInv` follows the request: queued with the host's
  clock at 0, running for at least as long as the socket has been silent (output on
  stderr sets only the host's clock back), answered, or gone with its container.
  `Session_abandon` shows that the condition on the timeouts cannot be dropped: the
  default timeout violates it.

`SandboxProofs`, for any number of calls and any effects of user code:

* `TypeCorrect`, `ReportsAreExact`, `BindingsAreKept`.
* `CallsAreServed`: `Sandbox` implements `ToolCalls`.

The module instantiates `ReplProofs` next to `Sandbox`, shows once that the container's
steps are those of that process (`SameMainStep`, `SameWorkerStep`), and cites its lemmas.
`ReportExact` is `OutputExact` lifted over restarts. `OutputExact` speaks of the responses
before the first `session_corrupted` only; the invariant `SInv` adds that the responses
a handler has read from the present container were clean, unless it is about to replace
it or has missed one (`SeenClean`), so the next one is within that reach. That a result
stays exact needs `ReportGone`: the thread of a call that returned a result is
over and does nothing any more (`DeadStayQuiet` of `ReplProofs`), whichever threads
of other calls go on. `BindingsStay` needs that no `reset` is ever in the pipe
(`OnlyCalls`), that a process which goes on unbinds nothing by itself (`NamesStay` of
`ReplProofs`), and that a restart comes only for a call that will say so
(`HandlerKnows`). For `CallsAreServed`, `ServedOlder` says that what has been answered
is older than everything the container still has; a call that returns is the last one
and answered, so the container is empty.

`ToolCallsProofs`, for any number of calls: what a client gets from a session that
implements `ToolCalls`, as `Session` and `Sandbox` do.

* `ResultsAreLast`: after a result, the request of the call has been carried out, and
  every earlier one has been or never will be.
* `RunsOnceInOrder`: no request is carried out twice, after it was lost, or before an
  older one.

`FrameReaderProofs`, for every header size and sequence of frames:

* `TypeCorrect`, `FramesAreWhole`, `EndsAreExact`. The invariant says that `got`,
  `header` and `payload` together are exactly the bytes that were read, in terms of the
  place where the current frame starts; a chunk extends the part it belongs to and
  cannot reach past it, because `recv` is asked for no more than is missing.

`SessionManagerProofs`, for any number of sessions, containers and files:

* `TypeCorrect`, `NothingLeaks`, `SessionsHaveOne`, `OneOwnerEach`.
* `SessionsAreIndependent`: the whole of `SessionsIndependent`, `Sandboxes` having no
  fairness. Every step of the server is a step of `Sandboxes` for one session, or a
  stutter; in a restart it is the removal of the volumes, or the registration of
  the new container, that wipes the files.

The properties speak of the time between two handlers and are not inductive. `IInv`
says what a handler owes in between: which session and container it works on
(`HandlerInv`, `BoxInv`), that containers not created yet are nobody's (`FreshInv`), that
a container has one session (`OwnerInv`), and that it is given up only when it is
gone or a call on it failed (`DebtInv`). A restart needs the last: `Register`
overwrites the only reference to the old container.

`FilesProofs`, for any names, contents, calls and inodes:

* `TypeCorrect`, `WritesAreKept`, `ReadsReturnWrites`, `ListingsAreExact`. An inode has
  one name at most (`DiskInv`); so a script whose file was renamed under it writes to
  no name a client knows (`WriteInv`), and what has been read of a known file is how
  that file begins (`ReadInv`).

`ConfigurationProofs`, for any versions, images, files and servers:

* `TypeCorrect`, `ServersStayUsable`, `ListIsTrue`, `ServersAreFrozen`. Although all
  configurations share one `sandbox` dict, the image dicts in it are replaced and
  never changed; each has all the versions of `DEFAULT_CONFIG`.

The assumptions are those the modules state (`ReplAssumption`, `SessionAssumption`,
`SandboxAssumption`, `FrameReaderAssumption`, `SessionManagerAssumption`, `FilesAssumption`,
`ConfigurationAssumption`): types of the constants, that frames follow one another,
that no content is both UTF-8 and not. TLC evaluates them in every run. `SandboxAssumption`
says besides that tool calls are executions and installs, which are all that
`MCPToolHandler` sends; the theorems about `ToolCalls` assume a number of calls.

Left to TLC: all liveness (`ServesInOrder` as a whole, `EveryCallReturns`,
`HandlersReturn`, `FramesDelivered`, `CallsReturn`), which is beyond the prover. Every invariant and action property that a passing run
checks is a theorem.

## Not modelled

* How package specifications become a `uv` command line, and what is in the venv: pure
  formatting, and state only `uv` knows.
* In `Files`: subdirectories, links and special files. A FIFO in `/data` blocks the
  script, and with it the server, for ever: `exec_run` has no timeout
  (`docker_adapter.py:256`).
* In `Configuration`: `data_dir` and `timeout`, which no code reads, and YAML keys that
  are no strings (an unquoted `3.10` is the number 3.1).
* In `Repl` and `Session`: timeouts above `threading.TIMEOUT_MAX` (9.2e9 s).
  `finished.wait` then raises `OverflowError` after the thread was started
  (`entrypoint.py:202`-`204`), the request is answered with -32603 and without
  `session_corrupted` (`entrypoint.py:400`), and the thread runs on.
* In `Session`: user code that writes a JSON document with the `id` of the request to the
  real stdout, which the host would take for the response.
* Registration of the tools with FastMCP, argument parsing, logging, images,
  `docker-ide`.
* In `SessionManager`: a daemon call that raises after the daemon created a
  container (its id is lost to the server either way), and two servers on one
  daemon.

## Plan

Done, in this order:

1. `RpcServer`, `Repl`, `MC_Repl`, `ReplProofs`: the session process.
2. `SessionManager`, `Sandboxes`: registry and daemon.
3. `Session`, `ToolCalls`, `SessionProofs`: the RPC path.
4. `FrameReader`, `FrameReaderProofs`: the stream.
5. `Files`, `Configuration`.
6. `Sandbox`: the composition.
7. `SessionManagerProofs`, `FilesProofs`, `ConfigurationProofs`.
8. `ServesCalls` for `Session`, from `DInv` and the order of the queue.
9. `SandboxProofs`, which lifts `OutputExact` over restarts, and `ToolCallsProofs`.

Left: liveness, which stays with TLC.
