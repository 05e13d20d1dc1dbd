------------------------------- MODULE Files -------------------------------
(***************************************************************************)
(* write_file, read_file and list_files (src/session_manager.py) on one    *)
(* directory of the /data volume of a session.  Each tool runs a script in *)
(* the container with docker exec (container_exec_run,                     *)
(* src/docker_adapter.py); the script takes its steps next to user code    *)
(* that is still running there, and may fail or be killed at each of them. *)
(*                                                                         *)
(* A name leads to an inode and a script holds on to the inode it opened,  *)
(* whatever becomes of the name.  Contents are written and read in two     *)
(* pieces.  Which session is meant is left to module SessionManager.       *)
(***************************************************************************)
EXTENDS Naturals, Sequences

CONSTANTS
    Name,       \* names in the directory
    Text, Blob, \* contents that are UTF-8, and contents that are not
    MaxCalls,   \* bound: tool calls clients make
    MaxInodes   \* bound: inodes that are ever made

ASSUME FilesAssumption == MaxCalls \in Nat /\ MaxInodes \in Nat /\ Text \cap Blob = {}

Ino == 1..MaxInodes
None == 0
Op == {"write", "read", "list"}
Content == {c \in Seq(Text \cup Blob) : Len(c) <= 2}

\* What a call returns: success, or a failure the client is told of ("error")
\* or that is raised ("raised"), or the content as text or in base64, or that
\* there is no such file, or a listing: the size of each file listed.
ReportKind == {"none", "success", "error", "raised", "text", "base64", "missing", "listing"}
NoReport == [kind |-> "none", data |-> <<>>, sizes |-> <<>>]

VARIABLES
    dir,        \* the directory exists
    inode,      \* the inode of each name, None if there is no such file
    bytes,      \* what is in each inode
    made,       \* inodes made so far
    alive,      \* the container runs
    calls,      \* calls made so far
    pc,         \* the next step of the script; "idle" without one
    op, name, text, \* the call it carries out
    fd,         \* the inode it has opened
    buf,        \* what it has read, or written, of it
    todo, sizes, \* what os.listdir returned and was not looked at yet; what was
    report,     \* what the last call returned
    known,      \* history: contents a client can rely on, by name
    touched,     \* history: names user code has had its hands on, and names that
    ever, always \* have been there at some time, or all the time, since the last
                 \* call began

diskVars == <<dir, inode, bytes, made>>
scriptVars == <<pc, op, name, text, fd, buf, todo, sizes>>
historyVars == <<known, touched, ever, always>>
vars == <<diskVars, alive, calls, scriptVars, report, historyVars>>

ScriptPC == {"idle", "exec", "mkdir", "create", "write", "exists", "open", "read",
             "listdir", "stat"}

Present == {n \in Name : inode[n] # None}
File(n) == bytes[inode[n]]

\* f, with v for name n.
With(f, n, v) == [m \in DOMAIN f \cup {n} |-> IF m = n THEN v ELSE f[m]]

\* What a client knows once the names N are no longer certain.
Forget(N) == [n \in DOMAIN known \ N |-> known[n]]

Init ==
    /\ dir = TRUE /\ inode = [n \in Name |-> None]
    /\ bytes = [i \in Ino |-> <<>>] /\ made = 0
    /\ alive = TRUE /\ calls = 0
    /\ pc = "idle" /\ op = "list" /\ name \in Name /\ text \in Text
    /\ fd = None /\ buf = <<>> /\ todo = {} /\ sizes = <<>>
    /\ report = NoReport
    /\ known = <<>>
    /\ touched = {} /\ ever = {} /\ always = {}

(***************************************************************************)
(* The tool on the host                                                    *)
(***************************************************************************)

Begin(o, n, t) ==
    /\ pc = "idle" /\ calls < MaxCalls
    /\ calls' = calls + 1
    /\ pc' = "exec" /\ op' = o /\ name' = n /\ text' = t
    /\ report' = NoReport
    /\ known' = IF o = "write" THEN Forget({n}) ELSE known
    /\ touched' = {} /\ ever' = Present /\ always' = Present
    /\ UNCHANGED <<diskVars, alive, fd, buf, todo, sizes>>

\* The script is gone, and the tool returns k.
Finish(k, d, s) ==
    /\ pc' = "idle" /\ fd' = None /\ buf' = <<>> /\ todo' = {} /\ sizes' = <<>>
    /\ report' = [kind |-> k, data |-> d, sizes |-> s]
    /\ UNCHANGED <<op, name, text>>

\* exec_run raises: no daemon, or a container that does not run.
ExecRaises ==
    /\ pc = "exec"
    /\ Finish("raised", <<>>, <<>>)
    /\ UNCHANGED <<diskVars, alive, calls, historyVars>>

\* A mutant of ScriptFails: the host runs the script once more.
ScriptFails_Retries ==
    /\ pc \notin {"idle", "exec"}
    /\ pc' = "exec" /\ fd' = None /\ buf' = <<>> /\ todo' = {} /\ sizes' = <<>>
    /\ UNCHANGED <<diskVars, alive, calls, op, name, text, report, historyVars>>

\* The script ends with an exit code other than 0, at whatever step: no space,
\* a file that is gone, a container that is.
ScriptFails ==
    /\ pc \notin {"idle", "exec"}
    /\ Finish("error", <<>>, <<>>)
    /\ UNCHANGED <<diskVars, alive, calls, historyVars>>

(***************************************************************************)
(* The scripts                                                             *)
(***************************************************************************)

\* The script is at step p, and the container with it.
At(p) == pc = p /\ alive

StartScript ==
    /\ At("exec")
    /\ pc' = IF op = "write" THEN "mkdir" ELSE "exists"
    /\ UNCHANGED <<diskVars, alive, calls, op, name, text, fd, buf, todo, sizes, report,
                   historyVars>>

\* os.makedirs(exist_ok=True)
MakeDirs ==
    /\ At("mkdir")
    /\ dir' = TRUE /\ pc' = "create"
    /\ UNCHANGED <<inode, bytes, made, alive, calls, op, name, text, fd, buf, todo, sizes,
                   report, historyVars>>

\* open(full_path, 'wb'): an existing file is emptied.
OpenToWrite ==
    /\ At("create") /\ dir
    /\ pc' = "write"
    /\ IF inode[name] # None
       THEN fd' = inode[name] /\ UNCHANGED <<inode, made, ever>>
       ELSE /\ made < MaxInodes /\ made' = made + 1
            /\ fd' = made + 1 /\ inode' = [inode EXCEPT ![name] = made + 1]
            /\ ever' = ever \cup {name}
    /\ bytes' = [bytes EXCEPT ![fd'] = <<>>]
    /\ UNCHANGED <<dir, alive, calls, op, name, text, buf, todo, sizes, report, known,
                   touched, always>>

\* The inode behind fd once the next piece is written in its place; the gap in
\* a file that shrank meanwhile is filled, with zeros, which are text.
Written ==
    LET at == Len(buf) + 1
    IN  [i \in 1..at \cup DOMAIN bytes[fd] |->
            IF i = at \/ i \notin DOMAIN bytes[fd] THEN text ELSE bytes[fd][i]]

\* f.write, f.close and print('OK'): the call is acknowledged, and the client
\* can rely on the content if no other code has had its hands on the name.
Acknowledge ==
    /\ Finish("success", <<>>, <<>>)
    /\ known' = IF name \in touched THEN known ELSE With(known, name, <<text, text>>)

\* A mutant of WritePiece: a write that was cut short is taken for all of it.
WritePiece_Once ==
    /\ At("write")
    /\ bytes' = [bytes EXCEPT ![fd] = Written]
    /\ Acknowledge
    /\ UNCHANGED <<dir, inode, made, alive, calls, touched, ever, always>>

WritePiece ==
    /\ At("write")
    /\ bytes' = [bytes EXCEPT ![fd] = Written]
    /\ IF Len(buf) = 1 THEN Acknowledge
       ELSE buf' = <<text>> /\ UNCHANGED <<pc, op, name, text, fd, todo, sizes, report, known>>
    /\ UNCHANGED <<dir, inode, made, alive, calls, touched, ever, always>>

\* os.path.exists, of the file for a read and of the directory for a listing.
CheckExists ==
    /\ At("exists")
    /\ \/ op = "read" /\ inode[name] = None /\ Finish("missing", <<>>, <<>>)
       \/ op = "list" /\ ~dir /\ Finish("listing", <<>>, <<>>)
       \/ /\ IF op = "read" THEN inode[name] # None /\ pc' = "open" ELSE dir /\ pc' = "listdir"
          /\ UNCHANGED <<op, name, text, fd, buf, todo, sizes, report>>
    /\ UNCHANGED <<diskVars, alive, calls, historyVars>>

\* A mutant of OpenToRead: what exists() said is taken to hold still.
OpenToRead_Unchecked ==
    /\ At("open")
    /\ fd' = inode[name] /\ pc' = "read"
    /\ UNCHANGED <<diskVars, alive, calls, op, name, text, buf, todo, sizes, report, historyVars>>

\* open(full_path, 'rb'); of a file that is gone by now, ScriptFails.
OpenToRead ==
    /\ At("open") /\ inode[name] # None
    /\ fd' = inode[name] /\ pc' = "read"
    /\ UNCHANGED <<diskVars, alive, calls, op, name, text, buf, todo, sizes, report, historyVars>>

\* A mutant of Decoded: bytes are never taken for text.
Decoded_Never(c) == IF c = <<>> THEN "text" ELSE "base64"

\* What read_file makes of the script's base64: text if it is UTF-8.
Decoded(c) == IF \A i \in DOMAIN c : c[i] \in Text THEN "text" ELSE "base64"

\* f.read: the next piece, or the end of the file, and the content is printed.
ReadPiece ==
    /\ At("read")
    /\ IF Len(buf) < Len(bytes[fd])
       THEN /\ buf' = Append(buf, bytes[fd][Len(buf) + 1])
            /\ UNCHANGED <<pc, op, name, text, fd, todo, sizes, report>>
       ELSE Finish(Decoded(buf), buf, <<>>)
    /\ UNCHANGED <<diskVars, alive, calls, historyVars>>

\* os.listdir
ListDir ==
    /\ At("listdir") /\ dir
    /\ todo' = Present /\ pc' = "stat"
    /\ UNCHANGED <<diskVars, alive, calls, op, name, text, fd, buf, sizes, report, historyVars>>

\* os.stat of one of the names; of one that is gone by now, ScriptFails.
StatName(n) ==
    /\ At("stat") /\ n \in todo /\ inode[n] # None
    /\ todo' = todo \ {n} /\ sizes' = With(sizes, n, Len(File(n)))
    /\ UNCHANGED <<diskVars, alive, calls, pc, op, name, text, fd, buf, report, historyVars>>

\* A mutant of PrintListing: a name that is gone cuts the listing short.
PrintListing_Partial ==
    /\ At("stat") /\ \A n \in todo : inode[n] = None \/ todo # {n}
    /\ Finish("listing", <<>>, sizes)
    /\ UNCHANGED <<diskVars, alive, calls, historyVars>>

PrintListing ==
    /\ At("stat") /\ todo = {}
    /\ Finish("listing", <<>>, sizes)
    /\ UNCHANGED <<diskVars, alive, calls, historyVars>>

(***************************************************************************)
(* User code, and the container                                            *)
(***************************************************************************)

\* What user code does to the names N leaves nothing a client knows of them.
Touches(N) ==
    /\ known' = Forget(N)
    /\ touched' = touched \cup N
    /\ ever' = ever \cup {n \in N : inode'[n] # None}
    /\ always' = always \ {n \in N : inode'[n] = None}

UserWrites(n, c) ==
    /\ alive /\ dir
    /\ IF inode[n] # None THEN UNCHANGED <<inode, made>>
       ELSE /\ made < MaxInodes /\ made' = made + 1
            /\ inode' = [inode EXCEPT ![n] = made + 1]
    /\ bytes' = [bytes EXCEPT ![inode'[n]] = c]
    /\ Touches({n})
    /\ UNCHANGED <<dir, alive, calls, scriptVars, report>>

UserRemoves(n) ==
    /\ alive /\ inode[n] # None
    /\ inode' = [inode EXCEPT ![n] = None]
    /\ Touches({n})
    /\ UNCHANGED <<dir, bytes, made, alive, calls, scriptVars, report>>

UserRenames(m, n) ==
    /\ alive /\ inode[m] # None /\ m # n
    /\ inode' = [inode EXCEPT ![m] = None, ![n] = inode[m]]
    /\ Touches({m, n})
    /\ UNCHANGED <<dir, bytes, made, alive, calls, scriptVars, report>>

UserRemovesDir ==
    /\ alive /\ dir /\ Present = {}
    /\ dir' = FALSE
    /\ UNCHANGED <<inode, bytes, made, alive, calls, scriptVars, report, historyVars>>

ContainerDies ==
    /\ alive /\ alive' = FALSE
    /\ UNCHANGED <<diskVars, calls, scriptVars, report, historyVars>>

(***************************************************************************)
(* The specification                                                       *)
(***************************************************************************)

ScriptStep ==
    \/ StartScript \/ MakeDirs \/ OpenToWrite \/ WritePiece
    \/ CheckExists \/ OpenToRead \/ ReadPiece
    \/ ListDir \/ PrintListing
    \/ \E n \in Name : StatName(n)
    \/ ScriptFails \/ ExecRaises

\* The contents user code writes.
UserContent == {<<>>} \cup {<<c, c>> : c \in Text \cup Blob}

Environment ==
    \/ \E n \in Name, c \in UserContent : UserWrites(n, c)
    \/ \E n \in Name : UserRemoves(n)
    \/ \E m, n \in Name : UserRenames(m, n)
    \/ UserRemovesDir
    \/ ContainerDies

Next ==
    \/ \E o \in Op, n \in Name, t \in Text : Begin(o, n, t)
    \/ ScriptStep
    \/ Environment

\* A script takes its steps, and docker exec returns when it has ended.
Spec == Init /\ [][Next]_vars /\ WF_vars(ScriptStep)

(***************************************************************************)
(* Properties                                                              *)
(***************************************************************************)

\* The types; a script that reads or writes holds an inode that it opened
\* itself, whatever became of the name it had found (the gap between exists()
\* and open()).
TypeOK ==
    /\ dir \in BOOLEAN /\ alive \in BOOLEAN
    /\ inode \in [Name -> Ino \cup {None}] /\ made \in 0..MaxInodes
    /\ bytes \in [Ino -> Content]
    /\ calls \in 0..MaxCalls
    /\ pc \in ScriptPC /\ op \in Op /\ name \in Name /\ text \in Text
    /\ fd \in IF pc \in {"read", "write"} THEN 1..made ELSE {None}
    /\ buf \in Content /\ todo \subseteq Name
    /\ report.kind \in ReportKind
    /\ DOMAIN known \subseteq Name /\ \A n \in DOMAIN known : known[n] \in Content
    /\ touched \subseteq Name /\ always \subseteq ever /\ ever \subseteq Name

\* A write that was acknowledged is in the file under its name until a client
\* writes there again or user code lays hands on it: no failing call, no call
\* on another name and no step of a script that is late changes it.
KnownHolds ==
    \A n \in DOMAIN known : inode[n] # None /\ File(n) = known[n]

\* read_file gives back what write_file was given, as text, and reports no
\* file as missing that is there; base64 is only for what is not UTF-8.
RoundTrip ==
    /\ report.kind \in {"text", "base64", "missing"} /\ name \in DOMAIN known =>
           report.kind = "text" /\ report.data = known[name]
    /\ report.kind = "text" => \A i \in DOMAIN report.data : report.data[i] \in Text
    /\ report.kind = "base64" => \E i \in DOMAIN report.data : report.data[i] \in Blob

\* list_files names every file that was there throughout the call and none
\* that never was, with its size where that is known: it is complete or an
\* error, never cut short by a file that vanishes meanwhile.
ListExact ==
    report.kind = "listing" =>
        LET listed == DOMAIN report.sizes
        IN  /\ always \subseteq listed /\ listed \subseteq ever
            /\ \A n \in listed \cap DOMAIN known : report.sizes[n] = Len(known[n])

\* Every call returns, whatever user code and the container do meanwhile.
CallsReturn == (pc # "idle") ~> (pc = "idle")
=============================================================================
