---------------------------- MODULE SandboxProofs ----------------------------
(***************************************************************************)
(* Theorems about module Sandbox, for any number of calls and whatever the *)
(* code in the container does:                                             *)
(*                                                                         *)
(*   TypeCorrect      the type invariant;                                  *)
(*   ReportsAreExact  a result is what the code of the call printed and    *)
(*                    displayed;                                           *)
(*   BindingsAreKept  names go only with a session_reset, or with a        *)
(*                    container that answers no call any more;             *)
(*   CallsAreServed   Sandbox implements ToolCalls.                        *)
(*                                                                         *)
(* The container is the process of ReplProofs.  Its invariant survives the *)
(* requests that never reach the pipe, the stop for a restart that then    *)
(* fails, and the restarts, and SInv adds what the tool handlers know of   *)
(* it: the responses they have read were clean, or the container is        *)
(* replaced, so the next one is exact; the thread of a call that returned  *)
(* a result is over, so the result stays exact; and what was answered is   *)
(* older than all that is still in the container.                          *)
(***************************************************************************)
EXTENDS Sandbox, TLAPS

Process == INSTANCE ReplProofs

\* The constants are as Repl requires.
LEMMA ProcessAssumption ==
  /\ MaxRequests \in Nat
  /\ Methods \subseteq Process!AllMethods
  /\ CodeEffects \subseteq Process!AllEffects
  BY SandboxAssumption DEF Container!AllEffects, Process!AllMethods, Process!AllEffects

(***************************************************************************)
(* The container that Sandbox runs is the process ReplProofs is about.     *)
(***************************************************************************)
USE
DEF Container!Req, Process!Req, Container!None, Process!None, Container!NoResponse,
    Process!NoResponse, Container!Answer, Process!Answer, Container!NoResult, Process!NoResult

\* It starts alike.
LEMMA SameInit == Container!Init <=> Process!Init
  BY DEF Container!Init, Process!Init

\* Its main thread takes the same steps.
LEMMA SameMainStep == Container!MainStep <=> Process!MainStep
  BY DEF Container!MainStep, Container!DropLine, Container!Ping, Container!UnknownMethod,
         Container!Shutdown, Container!Reset, Container!InstallNothing,
         Container!StartInstall, Container!UvDone, Container!StartExec, Container!WaitDone,
         Container!WaitTimesOut, Container!JoinDone, Container!JoinTimesOut,
         Container!WriteResponse, Container!WriteLastResponse, Container!WriteFails,
         Container!ReadLine, Container!ReplyTo, Container!MainMayRun, Container!MainStepTo,
         Container!Handled, Container!Stop, Container!Alive, Container!mainVars,
         Container!workerVars, Container!globalVars, Container!historyVars,
         Process!MainStep, Process!DropLine, Process!Ping, Process!UnknownMethod,
         Process!Shutdown, Process!Reset, Process!InstallNothing, Process!StartInstall,
         Process!UvDone, Process!StartExec, Process!WaitDone, Process!WaitTimesOut,
         Process!JoinDone, Process!JoinTimesOut, Process!WriteResponse,
         Process!WriteLastResponse, Process!WriteFails, Process!ReadLine, Process!ReplyTo,
         Process!MainMayRun, Process!MainStepTo, Process!Handled, Process!Stop,
         Process!Alive, Process!mainVars, Process!workerVars, Process!globalVars,
         Process!historyVars

\* So do its workers and the code they run.
LEMMA SameWorkerStep ==
  ASSUME NEW w
  PROVE  Container!WorkerStep(w) \/ Container!CodeStep(w)
           <=> Process!WorkerStep(w) \/ Process!CodeStep(w)
  BY DEF Container!WorkerStep, Container!SaveStreams, Container!RedirectStreams,
         Container!CompileCode, Container!CollectResult, Container!RestoreStreams,
         Container!FinishThread, Container!RaiseTimeoutError, Container!CodeStep,
         Container!CodePrints, Container!CodeShowsValue, Container!CodeBindsName,
         Container!CodeReadsLine, Container!CodeReturns, Container!CodeRaises,
         Container!CodeRaisesBase, Container!CodeSwallowsTimeout, Container!CodeHoldsGIL,
         Container!CodeReleasesGIL, Container!CodeKillsServer, Container!Step,
         Container!MayRun, Container!WriteOut, Container!Stop, Container!mainVars,
         Container!workerVars, Container!globalVars, Container!historyVars,
         Process!WorkerStep, Process!SaveStreams, Process!RedirectStreams,
         Process!CompileCode, Process!CollectResult, Process!RestoreStreams,
         Process!FinishThread, Process!RaiseTimeoutError, Process!CodeStep,
         Process!CodePrints, Process!CodeShowsValue, Process!CodeBindsName,
         Process!CodeReadsLine, Process!CodeReturns, Process!CodeRaises,
         Process!CodeRaisesBase, Process!CodeSwallowsTimeout, Process!CodeHoldsGIL,
         Process!CodeReleasesGIL, Process!CodeKillsServer, Process!Step, Process!MayRun,
         Process!WriteOut, Process!Stop, Process!mainVars, Process!workerVars,
         Process!globalVars, Process!historyVars

\* A step of the process other than the arrival of a request.
ProcessStep == Process!MainStep \/ \E w \in Process!Req : Process!WorkerStep(w) \/ Process!CodeStep(w)

\* What Sandbox has the container do are steps of that process.
LEMMA ContainerMoves ==
  ASSUME ContainerStep
  PROVE  ProcessStep /\ Process!Next
         /\ UNCHANGED <<hostVars, missed, relied>>
         /\ served' = served \cup {replies'[i].id : i \in DOMAIN replies'}
  BY SameMainStep, SameWorkerStep DEF ContainerStep, ProcessStep, Process!Next

\* A request that is sent is put into its pipe.
LEMMA SendMoves ==
  ASSUME NEW m \in Methods, SendRequest(m)
  PROVE  Process!Send(m) /\ Process!Next
  BY DEF SendRequest, Container!Send, Process!Send, Process!Next, Container!mainVars,
         Container!workerVars, Container!globalVars, Container!historyVars,
         Process!mainVars, Process!workerVars, Process!globalVars, Process!historyVars

\* The container is stopped for a new one that then cannot be made.
Halted == Process!Stop /\ UNCHANGED <<resp, replies>>

\* A restart that fails has stopped it, or left it alone.
LEMMA FailMoves ==
  ASSUME RestartFails
  PROVE  /\ UNCHANGED containerVars \/ Halted
         /\ UNCHANGED <<sent, stdin, replies, seen, served, relied>>
  BY DEF RestartFails, Halted, Container!Stop, Process!Stop, containerVars, processVars,
         Container!workerVars, Process!workerVars, Container!globalVars,
         Process!globalVars, Container!historyVars, Process!historyVars

\* The other steps of the host, but those of AttachFails and RestartSession,
\* leave it alone.
LEMMA HostMoves ==
  ASSUME \/ BeginCall \/ ReadReply \/ SkipReply \/ GiveUp \/ UNCHANGED vars
         \/ RestartFails /\ ~Halted
  PROVE  UNCHANGED containerVars /\ UNCHANGED Process!vars /\ served' = served
<1>1. UNCHANGED containerVars /\ served' = served
  BY FailMoves DEF BeginCall, ReadReply, Return, SkipReply, GiveUp, vars, historyVars
<1> QED
  BY <1>1 DEF containerVars, processVars, Process!vars, Process!mainVars,
              Process!workerVars, Process!globalVars, Process!historyVars

\* A restart leaves a process that has done nothing.
LEMMA RestartMoves ==
  ASSUME RestartSession
  PROVE  Process!Blank' /\ UNCHANGED <<sent, Process!historyVars>>
  BY DEF RestartSession, NoReport, None, Process!Blank, Process!historyVars

\* The process keeps its invariant, whatever the host does.
LEMMA ProcessKept ==
  ASSUME Process!IInv, hpc = "send" => sent < MaxRequests, [Next]_vars
  PROVE  Process!IInv'
<1>1. CASE Process!Next \/ UNCHANGED Process!vars
  BY <1>1, Process!StepIInv, ProcessAssumption
<1>2. CASE AttachFails
  BY <1>2, Process!SkipKept, ProcessAssumption
  DEF AttachFails, processVars, Process!mainVars, Process!workerVars,
      Process!globalVars, Process!historyVars
<1>3. CASE RestartSession
  BY <1>3, RestartMoves, Process!RestartKept, ProcessAssumption
<1>4. CASE Halted
  BY <1>4, Process!StopKept, ProcessAssumption DEF Halted
<1> QED
  BY <1>1, <1>2, <1>3, <1>4, ContainerMoves, SendMoves, HostMoves DEF Next, HostStep

(***************************************************************************)
(* What the handlers know                                                  *)
(***************************************************************************)

\* Requests are answered in their order: no answered one is still in the pipe,
\* or being handled, and none is as new as the one that is.
ServedOlder == \A c \in served : c <= Process!Taken /\ (cur # None => c < cur)

\* What this container has answered counts as answered.
RepliesServed == \A i \in DOMAIN replies : replies[i].id \in served

\* Nothing but the requests of tool calls is in the pipe: no reset.
OnlyCalls == \A i \in DOMAIN stdin : stdin[i].method \in Methods

\* There is a report once a response has come, and a restart is for the
\* request that was sent last.
HandlerKnows ==
    /\ hpc = "send" => sent < MaxRequests
    /\ hpc \in {"send", "recv"} => report = NoReport
    /\ hpc \in {"recv", "restart"} => sent # 0
    /\ hpc = "restart" => report.corrupted /\ report.id = sent
    /\ report = NoReport \/ report.id \in served

\* The responses read from this container were clean, or it is replaced.
SeenClean == ~missed /\ hpc # "restart" => \A i \in 1..seen : ~replies[i].corrupted

\* The thread of a call that returned a result is over.
ReportGone == report.kind \in {"ok", "error"} => ~Process!Alive(report.id)

SInv ==
    /\ Process!IInv /\ TypeOK
    /\ ServedOlder /\ RepliesServed /\ OnlyCalls /\ HandlerKnows /\ SeenClean /\ ReportGone
    /\ ReportExact /\ BindingsStay

\* Ids are numbers.
LEMMA SomeIds ==
  ASSUME Process!IInv
  PROVE  /\ Process!Taken \in Nat /\ Process!Taken <= sent /\ sent \in Nat
         /\ MaxRequests \in Nat /\ cur \in 0..MaxRequests /\ Process!Req = 1..MaxRequests
         /\ cur <= Process!Taken /\ (pc = "reply" => resp.id = cur /\ cur \in 1..MaxRequests)
         /\ stdin \in Seq(Process!Request)
         /\ \A i \in DOMAIN stdin : stdin[i].id \in Nat /\ stdin[i].id > Process!Taken
<1>1. Process!TInv /\ Process!Fresh /\ Process!TypeOK /\ Process!Numbered
  BY DEF Process!IInv, Process!TInv, Process!Fresh
<1>2. /\ Process!Taken \in Nat /\ Process!Taken <= sent /\ sent \in Nat
      /\ \A i \in 1..Len(stdin) : stdin[i].id \in Nat /\ stdin[i].id > Process!Taken
  BY <1>1, Process!TakenIds, ProcessAssumption
<1>3. stdin \in Seq(Process!Request) /\ cur \in Process!Req \cup {0}
  BY <1>1 DEF Process!TypeOK, Process!Request
<1>4. DOMAIN stdin = 1..Len(stdin)
  BY <1>3
<1>5. cur <= Process!Taken /\ (pc = "reply" => resp.id = cur /\ cur \in 1..MaxRequests)
  BY <1>1 DEF Process!Fresh, Process!IInv, Process!MainFollows
<1> QED
  BY <1>2, <1>3, <1>4, <1>5, ProcessAssumption

\* The responses of the container.
LEMMA SomeReplies ==
  ASSUME Process!IInv
  PROVE  /\ Len(replies) \in Nat /\ DOMAIN replies = 1..Len(replies)
         /\ \A i \in DOMAIN replies :
               /\ replies[i] \in Process!Response /\ replies[i].id \in 1..MaxRequests
               /\ ~replies[i].corrupted => ~Process!Alive(replies[i].id)
               /\ replies[i].corrupted => replies[i].kind = "timeout"
<1>1. Process!TypeOK /\ replies \in Seq(Process!Response)
  BY DEF Process!IInv, Process!TInv, Process!TypeOK
<1>2. /\ Len(replies) \in Nat
      /\ \A i \in 1..Len(replies) : replies[i] \in Process!Response
  BY <1>1, Process!RepliesType, ProcessAssumption
<1> QED
  BY <1>1, <1>2 DEF Process!IInv, Process!RepliedGone

\* A step of the process writes at most one more response, and that is to the
\* request it has handled.
LEMMA RepliesGrow ==
  ASSUME Process!IInv, ProcessStep
  PROVE  /\ Len(replies') \in Nat /\ Len(replies') >= Len(replies)
         /\ DOMAIN replies' = 1..Len(replies')
         /\ \A i \in 1..Len(replies) : i \in DOMAIN replies' /\ replies'[i] = replies[i]
         /\ \A i \in DOMAIN replies' :
               \/ i \in DOMAIN replies
               \/ replies'[i] = resp /\ Process!ReplyWritten
<1>1. Process!Quiet \/ Process!LineTaken \/ Process!ReplyWritten \/ Process!Ended
  BY Process!Moves, ProcessAssumption DEF ProcessStep
<1>2. Process!TypeOK /\ Len(replies) \in Nat /\ DOMAIN replies = 1..Len(replies)
  BY SomeReplies DEF Process!IInv, Process!TInv
<1>3. CASE replies' = replies
  BY <1>2, <1>3
<1>4. CASE Process!ReplyWritten
  <2>1. replies' = Append(replies, resp)
    BY <1>4 DEF Process!ReplyWritten
  <2>2. /\ Len(replies') = Len(replies) + 1
        /\ DOMAIN replies' = 1..(Len(replies) + 1)
        /\ \A i \in 1..Len(replies) : replies'[i] = replies[i]
        /\ replies'[Len(replies) + 1] = resp
    BY <1>2, <2>1, Process!RepliesGrow, ProcessAssumption
  <2>3. \A i \in DOMAIN replies' : i \in DOMAIN replies \/ i = Len(replies) + 1
    BY <1>2, <2>2
  <2> QED
    BY <1>2, <1>4, <2>2, <2>3
<1> QED
  BY <1>1, <1>3, <1>4 DEF Process!Quiet, Process!LineTaken, Process!Ended

\* What the container answers by a step is the request it has handled.
LEMMA ServedGrows ==
  ASSUME SInv, ContainerStep
  PROVE  /\ served \subseteq served'
         /\ \A i \in DOMAIN replies' : replies'[i].id \in served'
         /\ \A c \in served' : c \in served \/ (c = cur /\ cur # 0 /\ cur' = 0 /\ Process!ReplyWritten)
<1>1. /\ ProcessStep
      /\ served' = served \cup {replies'[i].id : i \in DOMAIN replies'}
  BY ContainerMoves
<1>2. ASSUME NEW i \in DOMAIN replies'
      PROVE  \/ replies'[i].id \in served
             \/ replies'[i].id = cur /\ cur # 0 /\ cur' = 0 /\ Process!ReplyWritten
  <2>1. CASE i \in DOMAIN replies
    <3>1. replies'[i] = replies[i]
      BY <1>1, <2>1, RepliesGrow, SomeReplies DEF SInv
    <3> QED
      BY <2>1, <3>1 DEF SInv, RepliesServed
  <2>2. CASE replies'[i] = resp /\ Process!ReplyWritten
    <3>1. pc = "reply" /\ cur' = 0
      BY <2>2 DEF Process!ReplyWritten
    <3>2. resp.id = cur /\ cur \in 1..MaxRequests
      BY <3>1, SomeIds DEF SInv
    <3>3. cur # 0
      BY <3>2, ProcessAssumption
    <3> QED
      BY <2>2, <3>1, <3>2, <3>3
  <2> QED
    BY <1>1, <2>1, <2>2, RepliesGrow DEF SInv
<1> QED
  BY <1>1, <1>2

(***************************************************************************)
(* Every step keeps the invariant, part by part                            *)
(***************************************************************************)

\* In every step more requests are taken, and a later one is handled.
LEMMA TakenGrows ==
  ASSUME SInv, [Next]_vars
  PROVE  /\ Process!Taken' \in Nat /\ Process!Taken' >= Process!Taken
         /\ cur' \in {cur, 0} \/ cur' > Process!Taken
<1>1. CASE Process!Next \/ UNCHANGED Process!vars
  BY <1>1, Process!TakenGrows, ProcessAssumption DEF SInv, Process!IInv
<1>2. CASE AttachFails
  <2>1. sent < MaxRequests
    BY <1>2 DEF AttachFails, SInv, HandlerKnows
  <2> QED
    BY <1>2, <2>1, Process!SkipKept, ProcessAssumption
    DEF AttachFails, processVars, SInv, Process!mainVars, Process!workerVars,
        Process!globalVars, Process!historyVars
<1>3. CASE RestartSession
  <2>1. Process!Taken' = sent /\ Process!Taken <= sent /\ sent \in Nat
    BY <1>3, RestartMoves, Process!RestartKept, ProcessAssumption DEF SInv
  <2> QED
    BY <1>3, <2>1 DEF RestartSession, None
<1>4. CASE Halted
  BY <1>4, Process!StopKept, ProcessAssumption DEF Halted, Process!Stop, SInv
<1> QED
  BY <1>1, <1>2, <1>3, <1>4, ContainerMoves, SendMoves, HostMoves DEF Next, HostStep

\* No step answers a request out of its turn.
LEMMA StepServedOlder == SInv /\ [Next]_vars => ServedOlder'
<1> SUFFICES ASSUME SInv, [Next]_vars
             PROVE  ServedOlder'
  OBVIOUS
<1>1. /\ Process!Taken \in Nat /\ cur \in Nat /\ cur <= Process!Taken
      /\ Process!Taken' \in Nat /\ Process!Taken' >= Process!Taken
      /\ cur' \in {cur, 0} \/ cur' > Process!Taken
  BY SomeIds, TakenGrows DEF SInv
<1>2. served \subseteq Nat
  BY SomeIds DEF SInv, TypeOK
<1>3. ASSUME NEW c \in served
      PROVE  c <= Process!Taken' /\ (cur' # 0 => c < cur')
  <2>1. c \in Nat /\ c <= Process!Taken /\ (cur # 0 => c < cur)
    BY <1>2, <1>3 DEF SInv, ServedOlder, None
  <2>2. c <= Process!Taken'
    BY <1>1, <2>1
  <2>3. CASE cur' \in {cur, 0}
    BY <2>1, <2>2, <2>3
  <2>4. CASE cur' > Process!Taken
    <3>1. cur' \in Nat
      <4>1. Process!IInv'
        BY ProcessKept DEF SInv, HandlerKnows
      <4>2. cur' \in Process!Req \cup {0}
        BY <4>1 DEF Process!IInv, Process!TInv, Process!TypeOK
      <4> QED
        BY <4>2, ProcessAssumption
    <3> QED
      BY <1>1, <2>1, <2>2, <2>4, <3>1
  <2> QED
    BY <1>1, <2>2, <2>3, <2>4
<1>4. CASE served' = served
  BY <1>3, <1>4 DEF ServedOlder, None
<1>5. CASE ContainerStep
  <2> SUFFICES ASSUME NEW c \in served'
               PROVE  c <= Process!Taken' /\ (cur' # 0 => c < cur')
    BY DEF ServedOlder, None
  <2>1. c \in served \/ (c = cur /\ cur' = 0)
    BY <1>5, ServedGrows
  <2> QED
    BY <1>1, <1>3, <2>1
<1> QED
  BY <1>4, <1>5, HostMoves, FailMoves
  DEF Next, HostStep, SendRequest, AttachFails, RestartSession, historyVars

\* What the container has answered is remembered.
LEMMA StepRepliesServed == SInv /\ [Next]_vars => RepliesServed'
<1> SUFFICES ASSUME SInv, [Next]_vars
             PROVE  RepliesServed'
  OBVIOUS
<1>1. CASE UNCHANGED <<replies, served>>
  BY <1>1 DEF SInv, RepliesServed
<1>2. CASE RestartSession
  BY <1>2 DEF RestartSession, RepliesServed
<1>3. CASE ContainerStep
  BY <1>3, ServedGrows DEF RepliesServed
<1> QED
  BY <1>1, <1>2, <1>3, HostMoves, FailMoves
  DEF Next, HostStep, SendRequest, AttachFails, containerVars, processVars, historyVars,
      Container!Send, Container!mainVars

\* No step puts anything else into the pipe.
LEMMA StepOnlyCalls == SInv /\ [Next]_vars => OnlyCalls'
<1> SUFFICES ASSUME SInv, [Next]_vars
             PROVE  OnlyCalls'
  OBVIOUS
<1>0. stdin \in Seq(Process!Request)
  BY SomeIds DEF SInv
<1>1. CASE stdin' = stdin
  BY <1>1 DEF SInv, OnlyCalls
<1>2. ASSUME NEW m \in Methods, SendRequest(m)
      PROVE  OnlyCalls'
  <2>1. stdin' = Append(stdin, [id |-> sent + 1, method |-> m])
    BY <1>2, SendMoves DEF Process!Send
  <2> QED
    BY <1>0, <1>2, <2>1 DEF SInv, OnlyCalls
<1>3. CASE stdin # <<>> /\ stdin' = Tail(stdin)
  BY <1>0, <1>3 DEF SInv, OnlyCalls
<1>4. CASE RestartSession
  BY <1>4 DEF RestartSession, OnlyCalls
<1>5. CASE ContainerStep
  <2>1. Process!Quiet \/ Process!LineTaken \/ Process!ReplyWritten \/ Process!Ended
    BY <1>5, ContainerMoves, Process!Moves, ProcessAssumption DEF ProcessStep
  <2> QED
    BY <1>1, <1>3, <2>1 DEF Process!Quiet, Process!LineTaken, Process!ReplyWritten,
                            Process!Ended
<1> QED
  BY <1>1, <1>2, <1>4, <1>5, HostMoves, FailMoves
  DEF Next, HostStep, AttachFails, containerVars, processVars

\* No step of the server forgets which response it has.
LEMMA StepHandlerKnows == SInv /\ [Next]_vars => HandlerKnows'
<1> SUFFICES ASSUME SInv, [Next]_vars
             PROVE  HandlerKnows'
  OBVIOUS
<1> USE DEF HandlerKnows
<1>0. NoReport.id = 0
  BY DEF NoReport
<1>1. CASE BeginCall
  BY <1>1 DEF BeginCall, SInv, containerVars, historyVars
<1>2. ASSUME NEW m \in Methods, SendRequest(m)
      PROVE  HandlerKnows'
  <2>1. sent' = sent + 1 /\ sent \in Nat
    BY <1>2, SendMoves, SomeIds DEF Process!Send, SInv
  <2> QED
    BY <1>2, <2>1 DEF SendRequest, SInv
<1>3. CASE AttachFails
  BY <1>3 DEF AttachFails, SInv
<1>4. CASE ReadReply
  <2>1. replies[seen + 1].id = sent /\ replies[seen + 1].id \in served
    <3>1. seen + 1 \in DOMAIN replies
      BY <1>4, SomeReplies DEF ReadReply, SInv, TypeOK
    <3> QED
      BY <1>4, <3>1 DEF ReadReply, SInv, RepliesServed, Call
  <2> QED
    BY <1>4, <2>1 DEF ReadReply, Return, SInv, containerVars
<1>5. CASE SkipReply \/ GiveUp
  BY <1>5 DEF SkipReply, GiveUp, SInv, containerVars, historyVars
<1>6. CASE RestartSession
  BY <1>6 DEF RestartSession, SInv
<1>9. CASE RestartFails
  BY <1>9 DEF RestartFails
<1>7. CASE ContainerStep
  <2>1. sent' = sent
    BY <1>7, ContainerMoves, Process!Moves, ProcessAssumption
    DEF ProcessStep, Process!Quiet, Process!LineTaken, Process!ReplyWritten, Process!Ended
  <2> QED
    BY <1>7, <2>1, ContainerMoves, ServedGrows DEF SInv, hostVars
<1>8. CASE UNCHANGED vars
  BY <1>8 DEF vars, containerVars, hostVars, historyVars, SInv
<1> QED
  BY <1>1, <1>2, <1>3, <1>4, <1>5, <1>6, <1>7, <1>8, <1>9 DEF Next, HostStep

\* Every step keeps the types.
LEMMA StepTypeOK == SInv /\ [Next]_vars => TypeOK'
<1> SUFFICES ASSUME SInv, [Next]_vars
             PROVE  TypeOK'
  OBVIOUS
<1> USE DEF TypeOK, Call, None
<1>0. /\ NoReport.id = 0 /\ sent \in Nat /\ Len(replies) \in Nat /\ seen \in 0..Len(replies)
      /\ DOMAIN replies = 1..Len(replies)
      /\ hpc \in {"send", "recv"} => report = NoReport
  BY SomeIds, SomeReplies DEF NoReport, SInv, HandlerKnows
<1>1. CASE BeginCall
  BY <1>0, <1>1 DEF BeginCall, SInv, containerVars, processVars, historyVars
<1>2. ASSUME NEW m \in Methods, SendRequest(m)
      PROVE  TypeOK'
  <2>1. replies' = replies /\ sent' = sent + 1
    BY <1>2, SendMoves DEF Process!Send, Process!mainVars
  <2>2. served' \subseteq 1..sent' /\ relied' = relied /\ served' = served
    BY <1>0, <1>2, <2>1 DEF SendRequest, SInv
  <2> QED
    BY <1>0, <1>2, <2>1, <2>2 DEF SendRequest, SInv
<1>3. CASE AttachFails
  BY <1>0, <1>3 DEF AttachFails, SInv, processVars, historyVars
<1>4. CASE ReadReply
  <2>1. seen + 1 \in DOMAIN replies /\ replies[seen + 1].id = sent
    BY <1>0, <1>4 DEF ReadReply
  <2>2. replies[seen + 1].id \in served
    BY <2>1 DEF SInv, RepliesServed
  <2>3. /\ hpc = "recv" /\ hpc' \in {"restart", "idle"} /\ seen' = seen + 1
        /\ report' = replies[seen + 1] /\ UNCHANGED <<sent, replies, missed, served>>
    BY <1>4 DEF ReadReply, Return, containerVars, processVars
  <2>4. relied' \subseteq served
    <3>1. relied' \subseteq relied \cup {replies[seen + 1].id}
      BY <1>4 DEF ReadReply, Return
    <3> QED
      BY <2>2, <3>1 DEF SInv
  <2> QED
    BY <1>0, <2>1, <2>3, <2>4 DEF SInv
<1>5. CASE SkipReply
  <2>1. seen + 1 \in DOMAIN replies /\ replies[seen + 1].corrupted \in BOOLEAN
    BY <1>0, <1>5, SomeReplies DEF SkipReply, SInv, Process!Response
  <2> QED
    BY <1>0, <1>5, <2>1 DEF SkipReply, SInv, containerVars, processVars
<1>6. CASE GiveUp
  BY <1>0, <1>6 DEF GiveUp, SInv, containerVars, processVars, historyVars
<1>7. CASE RestartSession
  <2>1. relied' \subseteq served
    BY <1>7 DEF RestartSession, SInv
  <2> QED
    BY <1>0, <1>7, <2>1 DEF RestartSession, SInv
<1>8. CASE RestartFails
  BY <1>0, <1>8, FailMoves DEF RestartFails, SInv
<1>9. CASE ContainerStep
  <2>1. sent' = sent
    BY <1>9, ContainerMoves, Process!Moves, ProcessAssumption
    DEF ProcessStep, Process!Quiet, Process!LineTaken, Process!ReplyWritten, Process!Ended
  <2>2. Len(replies') \in Nat /\ Len(replies') >= Len(replies)
    BY <1>9, RepliesGrow, ContainerMoves DEF SInv
  <2>3. served' \subseteq 1..sent /\ served \subseteq served'
    <3>1. served \subseteq served' /\ \A c \in served' : c \in served \/ (c = cur /\ cur # 0)
      BY <1>9, ServedGrows
    <3>2. cur \in 1..sent \/ cur = 0
      BY SomeIds DEF SInv
    <3> QED
      BY <3>1, <3>2 DEF SInv
  <2>4. UNCHANGED <<hpc, seen, report, missed, relied>>
    BY <1>9, ContainerMoves DEF hostVars
  <2>5. seen \in 0..Len(replies')
    BY <1>0, <2>2
  <2>6. served' \subseteq 1..sent' /\ relied' \subseteq served'
    BY <2>1, <2>3, <2>4 DEF SInv
  <2> QED
    BY <2>1, <2>4, <2>5, <2>6 DEF SInv
<1>10. CASE UNCHANGED vars
  BY <1>10 DEF vars, containerVars, processVars, hostVars, historyVars, SInv
<1> QED
  BY <1>1, <1>2, <1>3, <1>4, <1>5, <1>6, <1>7, <1>8, <1>9, <1>10 DEF Next, HostStep

\* No response that says session_corrupted is read and then forgotten.
LEMMA StepSeenClean == SInv /\ [Next]_vars => SeenClean'
<1> SUFFICES ASSUME SInv, [Next]_vars
             PROVE  SeenClean'
  OBVIOUS
<1> USE DEF SeenClean
<1>0. Len(replies) \in Nat /\ seen \in 0..Len(replies) /\ DOMAIN replies = 1..Len(replies)
  BY SomeReplies DEF SInv, TypeOK
<1>1. CASE BeginCall \/ GiveUp \/ UNCHANGED vars
  BY <1>1 DEF BeginCall, GiveUp, SInv, containerVars, processVars, historyVars, vars, hostVars
<1>2. ASSUME NEW m \in Methods, SendRequest(m)
      PROVE  SeenClean'
  <2> SUFFICES ASSUME ~missed', NEW i \in 1..Len(replies)
               PROVE  ~replies[i].corrupted
    <3>1. replies' = replies /\ seen' = Len(replies)
      BY <1>2, SendMoves DEF Process!Send, Process!mainVars, SendRequest
    <3> QED
      BY <3>1
  <2>1. hpc = "send" /\ ~missed /\ \A a \in Unread : ~a.corrupted
    BY <1>2 DEF SendRequest
  <2>2. CASE i \in 1..seen
    BY <2>1, <2>2 DEF SInv
  <2>3. CASE i \in (seen + 1)..Len(replies)
    BY <2>1, <2>3 DEF Unread
  <2> QED
    BY <1>0, <2>2, <2>3
<1>3. CASE AttachFails
  BY <1>3 DEF AttachFails, SInv, processVars, historyVars
<1>4. CASE ReadReply \/ SkipReply
  <2>1. /\ hpc = "recv" /\ replies' = replies /\ seen' = seen + 1
    BY <1>4 DEF ReadReply, Return, SkipReply, containerVars, processVars
  <2> SUFFICES ASSUME ~missed', hpc' # "restart", NEW i \in 1..(seen + 1)
               PROVE  ~replies[i].corrupted
    BY <2>1
  <2>2. i \in 1..seen \/ i = seen + 1
    BY <1>0
  <2>3. ~missed /\ ~replies[seen + 1].corrupted
    <3>1. CASE ReadReply
      BY <3>1 DEF ReadReply, Return
    <3>2. CASE SkipReply
      BY <3>2 DEF SkipReply
    <3> QED
      BY <1>4, <3>1, <3>2
  <2> QED
    BY <2>1, <2>2, <2>3 DEF SInv
<1>5. CASE RestartSession
  BY <1>5 DEF RestartSession
<1>6. CASE RestartFails
  BY <1>6 DEF RestartFails
<1>7. CASE ContainerStep
  <2>1. seen' = seen /\ hpc' = hpc /\ missed' = missed
    BY <1>7, ContainerMoves DEF hostVars
  <2>2. \A i \in 1..Len(replies) : replies'[i] = replies[i]
    BY <1>7, RepliesGrow, ContainerMoves DEF SInv
  <2>3. \A i \in 1..seen : i \in 1..Len(replies)
    BY <1>0
  <2> QED
    BY <2>1, <2>2, <2>3 DEF SInv
<1> QED
  BY <1>1, <1>2, <1>3, <1>4, <1>5, <1>6, <1>7 DEF Next, HostStep

\* A call that returned has the number of a request that was taken.
LEMMA ReportTaken ==
  ASSUME SInv, report.kind \in {"ok", "error"}
  PROVE  report.id \in Process!Req /\ report.id <= Process!Taken
<1>1. report # NoReport
  BY DEF NoReport
<1>2. report.id \in served
  BY <1>1 DEF SInv, HandlerKnows
<1>3. served \subseteq Process!Req
  <2>1. sent \in 0..MaxRequests /\ served \subseteq 1..sent
    BY DEF SInv, TypeOK, Process!IInv, Process!TInv, Process!TypeOK
  <2> QED
    BY <2>1, ProcessAssumption
<1> QED
  BY <1>2, <1>3 DEF SInv, ServedOlder

\* What a step of the container can change about a call that returned.
LEMMA ReportStays ==
  ASSUME SInv, ContainerStep, report.kind \in {"ok", "error"}
  PROVE  /\ report' = report
         /\ (~Process!Alive(report.id))'
         /\ report.id \in printed' <=> report.id \in printed
         /\ report.id \in shown' <=> report.id \in shown
<1>1. report' = report
  BY ContainerMoves DEF hostVars
<1>2. PICK r : r = report.id
  OBVIOUS
<1>3. /\ Process!TInv /\ Process!Fresh /\ ProcessStep
      /\ r \in Process!Req /\ r <= Process!Taken /\ ~Process!Alive(r)
  BY <1>2, ContainerMoves, ReportTaken DEF SInv, ReportGone, Process!IInv
<1>4. /\ ~(Process!Alive(r)') /\ (r \in printed' <=> r \in printed)
      /\ (r \in shown' <=> r \in shown)
  BY <1>3, Process!DeadStayQuiet, ProcessAssumption DEF ProcessStep
<1> QED
  BY <1>1, <1>2, <1>4 DEF Process!Alive

\* Every step keeps the thread of a call that returned a result over.
LEMMA StepReportGone == SInv /\ [Next]_vars => ReportGone'
<1> SUFFICES ASSUME SInv, [Next]_vars, (report.kind \in {"ok", "error"})'
             PROVE  (~Process!Alive(report.id))'
  BY DEF ReportGone
<1>0. NoReport.kind = "none"
  BY DEF NoReport
<1>1. CASE UNCHANGED <<report, worker>>
  BY <1>1 DEF SInv, ReportGone, Process!Alive
<1>2. CASE BeginCall \/ RestartFails
  BY <1>0, <1>2 DEF BeginCall, RestartFails
<1>3. CASE ReadReply
  <2>1. /\ seen + 1 \in DOMAIN replies /\ report' = replies[seen + 1] /\ worker' = worker
    BY <1>3, SomeReplies DEF ReadReply, Return, SInv, TypeOK, containerVars, processVars
  <2>2. ~replies[seen + 1].corrupted
    BY <2>1, SomeReplies DEF SInv
  <2>3. ~Process!Alive(replies[seen + 1].id)
    BY <2>1, <2>2, SomeReplies DEF SInv
  <2> QED
    BY <2>1, <2>3 DEF Process!Alive
<1>4. CASE RestartSession
  <2>1. report' = report /\ worker' = [r \in Process!Req |-> "none"]
    BY <1>4 DEF RestartSession
  <2>2. report.id \in Process!Req
    BY <2>1, ReportTaken
  <2> QED
    BY <2>1, <2>2 DEF Process!Alive
<1>5. CASE ContainerStep
  <2>1. report' = report
    BY <1>5, ContainerMoves DEF hostVars
  <2> QED
    BY <1>5, <2>1, ReportStays
<1> QED
  BY <1>1, <1>2, <1>3, <1>4, <1>5
  DEF Next, HostStep, SendRequest, AttachFails, SkipReply, GiveUp, Container!Send, vars,
      containerVars, processVars, hostVars, Container!workerVars

\* Every step keeps the report exact.
LEMMA StepReportExact == SInv /\ [Next]_vars => ReportExact'
<1> SUFFICES ASSUME SInv, [Next]_vars
             PROVE  ReportExact'
  OBVIOUS
<1> USE DEF ReportExact, Container!Exact
<1>0. NoReport.kind = "none"
  BY DEF NoReport
<1>1. CASE UNCHANGED <<report, printed, shown, missed>>
  BY <1>1 DEF SInv
<1>2. CASE BeginCall \/ RestartFails
  BY <1>0, <1>2 DEF BeginCall, RestartFails
<1>3. ASSUME NEW m \in Methods, SendRequest(m)
      PROVE  ReportExact'
  BY <1>0, <1>3 DEF SendRequest, SInv, HandlerKnows
<1>4. CASE ReadReply
  <2>1. /\ seen + 1 \in DOMAIN replies /\ report' = replies[seen + 1]
        /\ hpc = "recv" /\ UNCHANGED <<printed, shown, missed>>
    BY <1>4, SomeReplies DEF ReadReply, Return, SInv, TypeOK, containerVars, processVars
  <2>2. CASE replies[seen + 1].corrupted
    BY <2>1, <2>2, SomeReplies DEF SInv
  <2>3. CASE ~replies[seen + 1].corrupted /\ ~missed
    <3>1. \A j \in 1..(seen + 1) : j \in 1..seen \/ j = seen + 1
      BY DEF SInv, TypeOK
    <3>2. \A j \in 1..(seen + 1) : ~replies[j].corrupted
      BY <2>1, <2>3, <3>1 DEF SInv, SeenClean
    <3>3. Process!Exact(replies[seen + 1])
      BY <2>1, <3>2 DEF SInv, Process!IInv, Process!OutputExact
    <3> QED
      BY <2>1, <3>3 DEF Process!Exact
  <2> QED
    BY <2>1, <2>2, <2>3
<1>5. CASE SkipReply
  <2>1. UNCHANGED <<report, printed, shown>> /\ (~missed' => ~missed)
    BY <1>5 DEF SkipReply, containerVars, processVars
  <2> QED
    BY <2>1 DEF SInv
<1>6. CASE ContainerStep
  <2>1. report' = report /\ missed' = missed
    BY <1>6, ContainerMoves DEF hostVars
  <2>2. CASE report.kind \in {"ok", "error"}
    BY <1>6, <2>1, <2>2, ReportStays DEF SInv
  <2> QED
    BY <2>1, <2>2
<1> QED
  BY <1>1, <1>2, <1>3, <1>4, <1>5, <1>6
  DEF Next, HostStep, AttachFails, GiveUp, RestartSession, vars, containerVars, processVars,
      hostVars, historyVars

\* Every step keeps what the client counts on.
LEMMA StepBindingsStay == SInv /\ [Next]_vars => BindingsStay'
<1> SUFFICES ASSUME SInv, [Next]_vars
             PROVE  BindingsStay'
  OBVIOUS
<1> USE DEF BindingsStay
<1>1. CASE UNCHANGED <<relied, ns, pc>>
  BY <1>1 DEF SInv
<1>2. CASE ReadReply
  <2>1. UNCHANGED <<ns, pc>> /\ relied' \subseteq relied \cup ns
    BY <1>2 DEF ReadReply, Return, containerVars, processVars
  <2> QED
    BY <2>1 DEF SInv
<1>3. CASE RestartSession
  BY <1>3 DEF RestartSession, SInv, HandlerKnows
<1>4. CASE ContainerStep
  <2>1. ~Process!Reset
    <3>1. ASSUME stdin # <<>>
          PROVE  Head(stdin).method # "reset"
      <4>1. stdin \in Seq(Process!Request)
        BY SomeIds DEF SInv
      <4>2. 1 \in DOMAIN stdin /\ Head(stdin) = stdin[1]
        BY <3>1, <4>1
      <4>3. Head(stdin).method \in Methods
        BY <4>2 DEF SInv, OnlyCalls
      <4> QED
        BY <4>3, SandboxAssumption
    <3> QED
      BY <3>1 DEF Process!Reset, Process!ReplyTo, Process!ReadLine
  <2>2. pc' # "stopped" => pc # "stopped" /\ ns \subseteq ns'
    BY <1>4, <2>1, ContainerMoves, Process!NamesStay, ProcessAssumption DEF ProcessStep
  <2> QED
    BY <1>4, <2>2, ContainerMoves DEF SInv
<1>5. CASE RestartFails
  <2>1. pc' = "stopped" \/ UNCHANGED <<relied, ns, pc>>
    BY <1>5, FailMoves DEF Halted, Process!Stop, containerVars, processVars
  <2> QED
    BY <1>1, <2>1
<1> QED
  BY <1>1, <1>2, <1>3, <1>4, <1>5, HostMoves
  DEF Next, HostStep, BeginCall, SendRequest, AttachFails, SkipReply, GiveUp,
      Container!Send, Container!mainVars, vars, containerVars, processVars, hostVars,
      historyVars

(***************************************************************************)
(* The inductive invariant and its theorems                                *)
(***************************************************************************)

\* The invariant holds at the start.
LEMMA InitSInv == Init => SInv
<1> SUFFICES ASSUME Init PROVE SInv
  OBVIOUS
<1>1. Process!IInv
  BY SameInit, Process!InitIInv, ProcessAssumption DEF Init
<1>2. /\ sent = 0 /\ stdin = <<>> /\ replies = <<>> /\ ns = {}
      /\ hpc = "idle" /\ seen = 0 /\ report = NoReport
      /\ missed = FALSE /\ served = {} /\ relied = {}
  BY DEF Init, Container!Init
<1>3. NoReport.id = 0 /\ NoReport.kind = "none"
  BY DEF NoReport
<1>4. TypeOK
  <2>1. Len(replies) = 0
    BY <1>2
  <2>2. seen \in 0..Len(replies) /\ report.id = 0
    BY <1>2, <1>3, <2>1
  <2> QED
    BY <1>2, <2>2 DEF TypeOK, None
<1>5. ServedOlder /\ RepliesServed /\ OnlyCalls /\ HandlerKnows /\ SeenClean /\ ReportGone
  BY <1>2, <1>3 DEF ServedOlder, RepliesServed, OnlyCalls, HandlerKnows, SeenClean, ReportGone
<1>6. ReportExact /\ BindingsStay
  BY <1>2, <1>3 DEF ReportExact, BindingsStay, Container!Exact
<1> QED
  BY <1>1, <1>4, <1>5, <1>6 DEF SInv

\* The invariant survives every step.
LEMMA StepSInv == SInv /\ [Next]_vars => SInv'
<1> SUFFICES ASSUME SInv, [Next]_vars PROVE SInv'
  OBVIOUS
<1>1. Process!IInv'
  BY ProcessKept DEF SInv, HandlerKnows
<1> QED
  BY <1>1, StepTypeOK, StepServedOlder, StepRepliesServed, StepOnlyCalls, StepHandlerKnows,
     StepSeenClean, StepReportGone, StepReportExact, StepBindingsStay
  DEF SInv

\* The invariant holds in every reachable state.
LEMMA Inductive == Spec => []SInv
  BY InitSInv, StepSInv, PTL DEF Spec

\* The variables of the server keep their types: it has at most the responses
\* that were written, and reports on the call that was made.
THEOREM TypeCorrect == Spec => []TypeOK
<1>1. SInv => TypeOK
  BY DEF SInv
<1> QED
  BY <1>1, Inductive, PTL

\* Unless a session_corrupted was lost or a restart failed, execute_python
\* returns the output of the code it was given, all of it and nothing else,
\* whatever calls failed and whatever threads were abandoned before.
THEOREM ReportsAreExact == Spec => []ReportExact
<1>1. SInv => ReportExact
  BY DEF SInv
<1> QED
  BY <1>1, Inductive, PTL

\* A name an execution that returned has bound stays bound until a call returns
\* with session_reset, or the container is gone and no call has an answer any
\* more: the session never goes on without its names unannounced.
THEOREM BindingsAreKept == Spec => []BindingsStay
<1>1. SInv => BindingsStay
  BY DEF SInv
<1> QED
  BY <1>1, Inductive, PTL

(***************************************************************************)
(* Every step is one of ToolCalls                                          *)
(***************************************************************************)

\* What ToolCalls sees of the handler.
Open == IF hpc = "idle" THEN 0 ELSE Call
Reported == IF hpc # "idle" \/ Call = 0 THEN "none"
            ELSE IF report.id = Call THEN "result" ELSE "error"

\* The requests in the container.
Held == {cur} \cup {stdin[i].id : i \in DOMAIN stdin}

\* A step in which nothing happens to a request.
LEMMA StepStutters ==
  ASSUME UNCHANGED <<Call, Open, Reported>>, \A c \in Process!Req : Fate(c)' = Fate(c)
  PROVE  UNCHANGED Client!vars
  BY DEF Client!vars, Open, Reported

\* A step in which some requests are lost.
LEMMA StepLoses ==
  ASSUME UNCHANGED <<Call, Open, Reported>>,
         \A c \in Process!Req : \/ Fate(c)' = Fate(c)
                                \/ Fate(c)' = "lost" /\ Fate(c) \in {"new", "sent"}
  PROVE  Client!Lose
<1> DEFINE fate == [c \in Process!Req |-> Fate(c)]
           next == [c \in Process!Req |-> Fate(c)']
           S == {c \in Process!Req : Fate(c)' # Fate(c)}
<1>1. S \in SUBSET {c \in Process!Req : fate[c] \in {"new", "sent"}}
  OBVIOUS
<1>2. next = [c \in Process!Req |-> IF c \in S THEN "lost" ELSE fate[c]]
  OBVIOUS
<1> QED
  BY <1>1, <1>2 DEF Client!Lose, Client!Id, Open, Reported

\* A step in which the call fails.
LEMMA StepFails ==
  ASSUME UNCHANGED Call, Open # 0, Open' = 0, Reported' = "error",
         \A c \in Process!Req : Fate(c)' = IF Fate(c) = "new" THEN "lost" ELSE Fate(c)
  PROVE  Client!Fail
  BY DEF Client!Fail, Client!Id, Open, Reported

\* A step in which it returns its result.
LEMMA StepReturns ==
  ASSUME UNCHANGED Call, hpc # "idle", Call # 0, Open' = 0, Reported' = "result",
         Call \in Process!Req, Fate(Call) = "ran",
         \A c \in Process!Req : Fate(c)' = Fate(c) /\ Fate(c) # "sent"
  PROVE  Client!Return
  BY DEF Client!Return, Client!Id, Open, Reported

\* The requests in the container are sent and not answered.
LEMMA HeldIds ==
  ASSUME SInv, NEW c \in Process!Req, c \in Held
  PROVE  c <= sent /\ c \notin served
<1>0. c \in Nat \ {0}
  BY ProcessAssumption
<1>1. CASE c = cur
  <2>1. cur <= Process!Taken /\ Process!Taken <= sent /\ Process!Taken \in Nat /\ sent \in Nat
    BY SomeIds DEF SInv
  <2>2. \A b \in served : b < cur
    BY <1>0, <1>1 DEF SInv, ServedOlder, None
  <2> QED
    BY <1>0, <1>1, <2>1, <2>2
<1>2. ASSUME NEW i \in DOMAIN stdin, c = stdin[i].id
      PROVE  c <= sent /\ c \notin served
  <2>1. stdin[i].id > Process!Taken /\ Process!Taken \in Nat /\ stdin \in Seq(Process!Request)
    BY SomeIds DEF SInv
  <2>2. \A b \in served : b <= Process!Taken
    BY DEF SInv, ServedOlder
  <2>3. i \in 1..Len(stdin) /\ stdin[i].id <= sent
    BY <2>1 DEF SInv, Process!IInv, Process!Fresh, Process!Numbered
  <2> QED
    BY <1>0, <1>2, <2>1, <2>2, <2>3
<1> QED
  BY <1>1, <1>2 DEF Held

\* The number of the call, and where it is that of a request.
LEMMA CallIds ==
  ASSUME SInv
  PROVE  /\ sent \in Nat /\ Call \in Nat /\ Call <= MaxRequests /\ sent <= Call
         /\ hpc = "send" => Call = sent + 1
         /\ hpc # "send" => Call = sent
         /\ hpc # "idle" => Call # 0 /\ Call \in Process!Req
<1>1. sent \in 0..MaxRequests /\ MaxRequests \in Nat
  BY ProcessAssumption DEF SInv, Process!IInv, Process!TInv, Process!TypeOK
<1>2. hpc \in {"idle", "send", "recv", "restart"}
  BY DEF SInv, TypeOK
<1> QED
  BY <1>1, <1>2 DEF SInv, HandlerKnows, Call

\* What Fate tells, with the requests in the container.
LEMMA Fates ==
  ASSUME SInv, NEW c \in Process!Req
  PROVE  /\ c > Call => Fate(c) = "none"
         /\ c \in Held => Fate(c) = "sent" /\ c <= sent /\ c \notin served
         /\ c \in served => Fate(c) = "ran" /\ c <= sent
         /\ c <= Call /\ c \notin Held /\ c \notin served =>
                Fate(c) = IF c = Call /\ hpc = "send" THEN "new" ELSE "lost"
<1>1. c \in Nat /\ Call \in Nat /\ sent \in Nat /\ sent <= Call
  BY CallIds, ProcessAssumption
<1>2. c \in Held => c <= sent /\ c \notin served
  BY HeldIds
<1>3. c \in served => c <= sent
  BY <1>1 DEF SInv, TypeOK
<1>4. c \in Held <=> c = cur \/ \E i \in DOMAIN stdin : stdin[i].id = c
  BY DEF Held
<1> QED
  BY <1>1, <1>2, <1>3, <1>4 DEF Fate

\* Where nothing changes in the container, only a call whose request was not
\* sent has another fate, when its handler is done.
LEMMA SameFates ==
  ASSUME SInv, UNCHANGED <<Call, cur, stdin, served>>, NEW c \in Process!Req
  PROVE  /\ (hpc = "send" <=> hpc' = "send") => Fate(c)' = Fate(c)
         /\ hpc' # "send" => Fate(c)' = IF Fate(c) = "new" THEN "lost" ELSE Fate(c)
  BY DEF Fate

\* No request is in the container that has answered the last one.
LEMMA AllAnswered ==
  ASSUME SInv, sent \in served, NEW c \in Process!Req
  PROVE  c \notin Held
<1>1. /\ sent \in Nat /\ Process!Taken \in Nat /\ Process!Taken <= sent
      /\ sent <= Process!Taken /\ (cur # 0 => sent < cur) /\ cur \in Nat /\ cur <= Process!Taken
  BY SomeIds DEF SInv, ServedOlder, None
<1>2. cur = 0 /\ c # 0
  BY <1>1, ProcessAssumption
<1>3. ASSUME NEW i \in DOMAIN stdin
      PROVE  stdin[i].id # c
  <2>1. stdin[i].id \in Nat /\ stdin[i].id > Process!Taken
    BY SomeIds DEF SInv
  <2>2. i \in 1..Len(stdin)
    BY SomeIds DEF SInv
  <2>3. stdin[i].id <= sent
    BY <2>2 DEF SInv, Process!IInv, Process!Fresh, Process!Numbered
  <2> QED
    BY <1>1, <2>1, <2>3
<1> QED
  BY <1>2, <1>3 DEF Held

\* A tool call.
LEMMA BeginSteps ==
  ASSUME SInv, BeginCall
  PROVE  Client!Call
<1> DEFINE fate == [c \in Process!Req |-> Fate(c)]
<1>1. /\ hpc = "idle" /\ hpc' = "send" /\ sent < MaxRequests
      /\ UNCHANGED <<sent, cur, stdin, served>>
  BY DEF BeginCall, containerVars, processVars, historyVars
<1>2. Call = sent /\ Call' = sent + 1 /\ sent \in Nat
  BY <1>1, CallIds DEF Call
<1>3. ASSUME NEW c \in Process!Req
      PROVE  Fate(c)' = IF c = sent + 1 THEN "new" ELSE Fate(c)
  <2>0. c \in Nat
    BY ProcessAssumption
  <2>1. CASE c = sent + 1
    <3>1. ~(c > Call') /\ c \notin Held /\ c \notin served
      <4>1. ~(c <= sent) /\ ~(c > Call')
        BY <1>2, <2>1
      <4> QED
        BY <4>1, Fates
    <3>2. ~(c = cur \/ \E i \in DOMAIN stdin : stdin[i].id = c)
      BY <3>1 DEF Held
    <3> QED
      BY <1>1, <1>2, <2>1, <3>1, <3>2 DEF Fate
  <2>2. CASE c # sent + 1
    <3>1. c > Call' <=> c > Call
      BY <1>2, <2>0, <2>2
    <3> QED
      BY <1>1, <1>2, <2>2, <3>1 DEF Fate
  <2> QED
    BY <2>1, <2>2
<1>4. [c \in Process!Req |-> Fate(c)'] = [fate EXCEPT ![Call + 1] = "new"]
  BY <1>2, <1>3
<1>5. /\ Call < MaxRequests /\ Call' = Call + 1 /\ Call' # 0
  BY <1>1, <1>2
<1> QED
  BY <1>1, <1>4, <1>5 DEF Client!Call, Client!Id

\* Its request is sent.
LEMMA SendSteps ==
  ASSUME SInv, NEW m \in Methods, SendRequest(m)
  PROVE  Client!Send
<1> DEFINE fate == [c \in Process!Req |-> Fate(c)]
<1>1. /\ hpc = "send" /\ hpc' = "recv" /\ sent' = sent + 1 /\ cur' = cur
      /\ stdin' = Append(stdin, [id |-> sent + 1, method |-> m])
      /\ UNCHANGED <<report, served>>
  BY SendMoves DEF SendRequest, Process!Send, Process!mainVars
<1>2. /\ sent \in Nat /\ Call = sent + 1 /\ Call' = Call /\ Call \in Process!Req /\ Call # 0
      /\ stdin \in Seq(Process!Request)
  BY <1>1, CallIds, SomeIds DEF Call, SInv
<1>3. fate[Call] = "new"
  <2>1. ~(Call <= sent) /\ Call <= Call
    BY <1>2
  <2>2. Call \notin Held /\ Call \notin served
    BY <1>2, <2>1, Fates
  <2>3. Fate(Call) = "new"
    BY <1>1, <1>2, <2>1, <2>2, Fates
  <2> QED
    BY <1>2, <2>3
<1>4. /\ \A i \in DOMAIN stdin : i \in DOMAIN stdin' /\ stdin'[i] = stdin[i]
      /\ Len(stdin) + 1 \in DOMAIN stdin' /\ stdin'[Len(stdin) + 1].id = Call
      /\ \A i \in DOMAIN stdin' : i \in DOMAIN stdin \/ i = Len(stdin) + 1
  BY <1>1, <1>2
<1>5. \A c \in Process!Req : c \in Held' <=> c \in Held \/ c = Call
  BY <1>1, <1>4 DEF Held
<1>6. ASSUME NEW c \in Process!Req
      PROVE  Fate(c)' = IF c = Call THEN "sent" ELSE Fate(c)
  <2>0. c \in Held' <=> c = cur' \/ \E i \in DOMAIN stdin' : stdin'[i].id = c
    BY DEF Held
  <2>1. CASE c = Call
    <3>1. c \in Held' /\ ~(c > Call')
      BY <1>2, <1>5, <2>1
    <3> QED
      BY <2>0, <2>1, <3>1 DEF Fate
  <2>2. CASE c # Call
    <3>1. c \in Held' <=> c \in Held
      BY <1>5, <2>2
    <3>2. c \in Held <=> c = cur \/ \E i \in DOMAIN stdin : stdin[i].id = c
      BY DEF Held
    <3> QED
      BY <1>1, <1>2, <2>0, <2>2, <3>1, <3>2 DEF Fate
  <2> QED
    BY <2>1, <2>2
<1>7. [c \in Process!Req |-> Fate(c)'] = [fate EXCEPT ![Call] = "sent"]
  BY <1>6
<1> QED
  BY <1>1, <1>2, <1>3, <1>7 DEF Client!Send

\* The handler ends without a response.
LEMMA ErrorSteps ==
  ASSUME SInv, AttachFails \/ GiveUp \/ RestartFails
  PROVE  Client!Fail
<1>0. ASSUME RestartFails, Halted
      PROVE  cur' = cur
  <2>1. sent \in served /\ cur' = 0
    BY <1>0 DEF RestartFails, Halted, Process!Stop, SInv, HandlerKnows, NoReport
  <2>2. cur \notin Process!Req
    BY <2>1, AllAnswered DEF Held
  <2> QED
    BY <2>1, <2>2, SomeIds DEF SInv
<1>1. /\ hpc # "idle" /\ hpc' = "idle" /\ UNCHANGED <<cur, stdin, served>>
  BY <1>0, FailMoves
  DEF AttachFails, GiveUp, RestartFails, containerVars, processVars, historyVars
<1>2. Call' = Call /\ Call # 0 /\ Call \in Nat
  BY CallIds, FailMoves DEF AttachFails, GiveUp, RestartFails, Call, containerVars
<1>3. report' = NoReport
  BY DEF AttachFails, GiveUp, RestartFails, SInv, HandlerKnows
<1>4. Open # 0 /\ Open' = 0 /\ Reported' = "error"
  BY <1>1, <1>2, <1>3 DEF Open, Reported, NoReport
<1>5. \A c \in Process!Req : Fate(c)' = IF Fate(c) = "new" THEN "lost" ELSE Fate(c)
  BY <1>1, <1>2, SameFates
<1> QED
  BY <1>2, <1>4, <1>5, StepFails

\* It has read the response.
LEMMA ReadSteps ==
  ASSUME SInv, ReadReply
  PROVE  Client!Return \/ UNCHANGED Client!vars
<1>1. /\ hpc = "recv" /\ hpc' \in {"idle", "restart"}
      /\ seen + 1 \in DOMAIN replies /\ report' = replies[seen + 1]
      /\ report'.id = sent /\ UNCHANGED <<sent, cur, stdin, served>>
  BY CallIds, SomeReplies DEF ReadReply, Return, SInv, TypeOK, containerVars, processVars
<1>2. /\ Call = sent /\ Call' = Call /\ Call \in Process!Req /\ Call # 0 /\ sent \in served
  BY <1>1, CallIds DEF Call, SInv, RepliesServed
<1>3. \A c \in Process!Req : Fate(c)' = Fate(c)
  BY <1>1, <1>2, SameFates
<1>4. CASE hpc' = "restart"
  BY <1>1, <1>2, <1>3, <1>4, StepStutters DEF Open, Reported
<1>5. CASE hpc' = "idle"
  <2>1. Fate(Call) = "ran"
    BY <1>2, Fates
  <2>2. \A c \in Process!Req : Fate(c) # "sent"
    BY <1>2, AllAnswered DEF Fate, Held
  <2>3. Open' = 0 /\ Reported' = "result"
    BY <1>1, <1>2, <1>5 DEF Open, Reported
  <2> QED
    BY <1>1, <1>2, <1>3, <2>1, <2>2, <2>3, StepReturns
<1> QED
  BY <1>1, <1>4, <1>5

\* It has replaced the container that had answered.
LEMMA RestartSteps ==
  ASSUME SInv, RestartSession
  PROVE  Client!Return
<1>1. /\ hpc = "restart" /\ hpc' = "idle" /\ stdin' = <<>> /\ cur' = 0
      /\ UNCHANGED <<sent, report, served>>
  BY DEF RestartSession, historyVars, None
<1>2. /\ Call = sent /\ Call' = Call /\ Call \in Process!Req /\ Call # 0
  BY <1>1, CallIds DEF Call
<1>3. report.id = sent /\ sent \in served
  BY <1>1, <1>2 DEF SInv, HandlerKnows, NoReport
<1>4. ASSUME NEW c \in Process!Req
      PROVE  Fate(c)' = Fate(c) /\ Fate(c) # "sent"
  <2>1. c \notin Held
    BY <1>3, AllAnswered
  <2>2. ~(c = cur \/ \E i \in DOMAIN stdin : stdin[i].id = c)
    BY <2>1 DEF Held
  <2>3. ~(c = cur' \/ \E i \in DOMAIN stdin' : stdin'[i].id = c)
    BY <1>1, ProcessAssumption
  <2> QED
    BY <1>1, <1>2, <2>2, <2>3 DEF Fate
<1>5. Fate(Call) = "ran"
  BY <1>2, <1>3, Fates
<1>6. Open' = 0 /\ Reported' = "result"
  BY <1>1, <1>2, <1>3 DEF Open, Reported
<1> QED
  BY <1>1, <1>2, <1>4, <1>5, <1>6, StepReturns

\* The process answers the oldest request it has.
LEMMA RunSteps ==
  ASSUME SInv, ContainerStep, Process!ReplyWritten
  PROVE  \E c \in Process!Req : Client!Run(c)
<1> DEFINE fate == [c \in Process!Req |-> Fate(c)]
<1>1. /\ pc = "reply" /\ cur' = 0 /\ replies' = Append(replies, resp)
      /\ UNCHANGED <<sent, stdin, hostVars>>
  BY ContainerMoves DEF Process!ReplyWritten
<1>2. cur \in Process!Req /\ cur \in Nat /\ cur # 0 /\ cur <= Process!Taken /\ resp.id = cur
  BY <1>1, SomeIds, ProcessAssumption DEF SInv
<1>3. /\ Call' = Call /\ UNCHANGED <<Open, Reported, hpc>>
  BY <1>1 DEF Call, Open, Reported, hostVars
<1>4. \A c : c \in served' <=> c \in served \/ c = cur
  <2>1. /\ served \subseteq served' /\ \A c \in served' : c \in served \/ c = cur
        /\ \A i \in DOMAIN replies' : replies'[i].id \in served'
    BY ServedGrows
  <2>2. Len(replies) + 1 \in DOMAIN replies' /\ replies'[Len(replies) + 1] = resp
    BY <1>1, Process!RepliesGrow, SomeReplies, ProcessAssumption
    DEF SInv, Process!IInv, Process!TInv
  <2>3. cur \in served'
    BY <1>2, <2>1, <2>2
  <2> QED
    BY <2>1, <2>3
<1>5. \A i \in DOMAIN stdin : stdin[i].id \in Nat /\ stdin[i].id > cur
  BY <1>2, SomeIds DEF SInv
<1>6. ASSUME NEW c \in Process!Req
      PROVE  Fate(c)' = IF c = cur THEN "ran" ELSE Fate(c)
  <2>0. c # 0
    BY ProcessAssumption
  <2>1. CASE c = cur
    <3>1. ~(c > Call)
      <4>1. c \in Held
        BY <2>1 DEF Held
      <4> QED
        BY <1>2, <2>1, <4>1, CallIds, Fates
    <3>2. \A i \in DOMAIN stdin' : stdin'[i].id # c
      BY <1>1, <1>2, <1>5, <2>1
    <3> QED
      BY <1>1, <1>3, <1>4, <2>0, <2>1, <3>1, <3>2 DEF Fate
  <2>2. CASE c # cur
    BY <1>1, <1>3, <1>4, <2>0, <2>2 DEF Fate
  <2> QED
    BY <2>1, <2>2
<1>7. [c \in Process!Req |-> Fate(c)'] = [fate EXCEPT ![cur] = "ran"]
  BY <1>6
<1>8. fate[cur] = "sent"
  BY <1>2, Fates DEF Held
<1>9. ASSUME NEW b \in 1..(cur - 1)
      PROVE  fate[b] # "sent"
  <2>1. b \in Process!Req /\ b < cur
    BY <1>2, ProcessAssumption
  <2>2. b # cur /\ \A i \in DOMAIN stdin : stdin[i].id # b
    BY <1>2, <1>5, <2>1
  <2> QED
    BY <2>1, <2>2 DEF Fate
<1>10. Client!Run(cur)
  BY <1>3, <1>7, <1>8, <1>9 DEF Client!Run, Open, Reported
<1> QED
  BY <1>2, <1>10

\* In any other step it keeps the requests it has, or loses some.
LEMMA LoseSteps ==
  ASSUME SInv, ContainerStep, ~Process!ReplyWritten
  PROVE  Client!Lose
<1>1. Process!Quiet \/ Process!LineTaken \/ Process!Ended
  BY ContainerMoves, Process!Moves, ProcessAssumption DEF ProcessStep
<1>2. sent' = sent /\ UNCHANGED <<hostVars>>
  BY <1>1, ContainerMoves DEF Process!Quiet, Process!LineTaken, Process!Ended
<1>3. Call' = Call /\ UNCHANGED <<Open, Reported, hpc>>
  BY <1>2 DEF Call, Open, Reported, hostVars
<1>4. \A c : c \in served' <=> c \in served
  BY ServedGrows
<1>5. \A c \in Process!Req : c \in Held' => c \in Held
  <2> TAKE c \in Process!Req
  <2>0. c # 0
    BY ProcessAssumption
  <2>1. CASE Process!Quiet \/ Process!Ended
    BY <2>0, <2>1 DEF Process!Quiet, Process!Ended, Held
  <2>2. CASE Process!LineTaken
    <3>1. /\ stdin # <<>> /\ stdin' = Tail(stdin)
          /\ cur' \in {cur, Head(stdin).id} /\ stdin \in Seq(Process!Request)
      BY <2>2, SomeIds DEF Process!LineTaken, SInv
    <3>2. /\ 1 \in DOMAIN stdin /\ Head(stdin) = stdin[1]
          /\ \A i \in DOMAIN stdin' : i + 1 \in DOMAIN stdin /\ stdin'[i] = stdin[i + 1]
      BY <3>1
    <3> QED
      BY <3>1, <3>2 DEF Held
  <2> QED
    BY <1>1, <2>1, <2>2
<1>6. \A c \in Process!Req : \/ Fate(c)' = Fate(c)
                             \/ Fate(c)' = "lost" /\ Fate(c) \in {"new", "sent"}
  <2> TAKE c \in Process!Req
  <2>0. /\ c \in Held <=> c = cur \/ \E i \in DOMAIN stdin : stdin[i].id = c
        /\ c \in Held' <=> c = cur' \/ \E i \in DOMAIN stdin' : stdin'[i].id = c
    BY DEF Held
  <2>1. CASE c \in Held /\ c \notin Held'
    <3>1. Fate(c) = "sent" /\ c <= sent /\ c \notin served
      BY <2>1, Fates
    <3>2. ~(c > Call) /\ ~(c = Call /\ hpc = "send")
      BY <3>1, CallIds, ProcessAssumption
    <3> QED
      BY <1>3, <1>4, <2>0, <2>1, <3>1, <3>2 DEF Fate
  <2>2. CASE c \in Held /\ c \in Held'
    BY <1>3, <1>4, <2>0, <2>2 DEF Fate
  <2>3. CASE c \notin Held /\ c \notin Held'
    BY <1>3, <1>4, <2>0, <2>3 DEF Fate
  <2> QED
    BY <1>5, <2>1, <2>2, <2>3
<1> QED
  BY <1>3, <1>6, StepLoses

\* Every step of the sandbox is one of ToolCalls, or none.
LEMMA StepServesCalls == SInv /\ [Next]_vars => [Client!Next]_(Client!vars)
<1> SUFFICES ASSUME SInv, [Next]_vars
             PROVE  Client!Next \/ UNCHANGED Client!vars
  BY DEF Client!vars
<1> USE DEF Client!Next
<1>1. CASE BeginCall
  BY <1>1, BeginSteps
<1>2. ASSUME NEW m \in Methods, SendRequest(m)
      PROVE  Client!Next
  BY <1>2, SendSteps
<1>3. CASE AttachFails \/ GiveUp \/ RestartFails
  BY <1>3, ErrorSteps
<1>4. CASE ReadReply
  BY <1>4, ReadSteps
<1>5. CASE SkipReply \/ UNCHANGED vars
  <2>1. UNCHANGED <<sent, cur, stdin, served, hpc, report>>
    BY <1>5 DEF SkipReply, containerVars, processVars, vars, hostVars, historyVars
  <2>2. UNCHANGED <<Call, Open, Reported>>
    BY <2>1 DEF Call, Open, Reported
  <2> QED
    BY <2>1, <2>2, SameFates, StepStutters
<1>6. CASE RestartSession
  BY <1>6, RestartSteps
<1>7. CASE ContainerStep
  BY <1>7, RunSteps, LoseSteps DEF Client!Id
<1> QED
  BY <1>1, <1>2, <1>3, <1>4, <1>5, <1>6, <1>7 DEF Next, HostStep

\* With the process and all its threads in the container, too, the requests of
\* the tool handlers are carried out at most once, in the order of the calls,
\* and none after a later call has returned its result.
THEOREM CallsAreServed == Spec => ServesCalls
<1>1. Init => Client!Init
  <2> SUFFICES ASSUME Init PROVE Client!Init
    OBVIOUS
  <2>1. Call = 0 /\ hpc = "idle"
    BY DEF Init, Container!Init, Call
  <2>2. ASSUME NEW c \in Process!Req
        PROVE  Fate(c) = "none"
    <3>1. c > Call
      BY <2>1, ProcessAssumption
    <3> QED
      BY <3>1 DEF Fate
  <2> QED
    BY <2>1, <2>2 DEF Client!Init, Client!Id
<1>2. SInv /\ [Next]_vars => [Client!Next]_(Client!vars)
  BY StepServesCalls
<1> QED
  BY <1>1, <1>2, Inductive, PTL DEF Spec, ServesCalls, Client!Spec
=============================================================================
