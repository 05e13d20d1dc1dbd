----------------------------- MODULE ReplProofs -----------------------------
(***************************************************************************)
(* Proofs about module Repl, for any number of requests, any methods and   *)
(* any effects of user code.  IInv, the conjunction of the parts below, is *)
(* inductive; each part is preserved by a lemma Step..., with one step per *)
(* action, and the theorems about the invariants follow from IInv.         *)
(* AnswersInOrder adds to it that the request being handled is older than  *)
(* what is still in the pipe.  The lemmas TakenGrows, DeadStayQuiet and    *)
(* NamesStay say what every step keeps; SkipKept, StopKept and RestartKept *)
(* that IInv survives a lost request, the end of the process and a         *)
(* restart.  SandboxProofs cites all six.                                  *)
(***************************************************************************)
EXTENDS Repl, TLAPS

(***************************************************************************)
(* Types.  A response that is written has a kind, because the result it is *)
(* built from has one unless it is NoResult.                               *)
(***************************************************************************)
AnswersHaveKinds ==
    /\ pc = "reply" => resp.kind # "none"
    /\ pc \in {"wait", "join", "uv"} => cur \in Req
    /\ \A w \in Req : result[w] = NoResult \/ result[w].kind # "none"

TInv == TypeOK /\ AnswersHaveKinds

USE
DEF mainVars, workerVars, globalVars, historyVars, None, Stream, Hook, MainPC, WorkerPC, Kind

\* What a handler can answer is a response.
LEMMA AnswerType ==
  ASSUME NEW r \in Req \cup {None}, NEW k \in Kind
  PROVE  Answer(r, k) \in Response /\ Answer(r, k).kind = k
  BY DEF Answer, Response

\* The placeholder of "no answer yet" is a response.
LEMMA NoResponseType == NoResponse \in Response
  BY DEF NoResponse, Answer, Response

\* The placeholder of "no result yet" is a result, of kind none.
LEMMA NoResultType == NoResult \in Result /\ NoResult.kind = "none"
  BY DEF NoResult, Result

\* A request in the pipe.
Request == [id: Req, method: AllMethods]

\* What is taken from a pipe and what is left of it have the type of its items.
LEMMA SeqTake ==
  ASSUME NEW S, NEW s \in Seq(S), s # <<>>
  PROVE  Head(s) \in S /\ Tail(s) \in Seq(S)
  OBVIOUS

\* A pipe keeps its type when an item of that type is put into it.
LEMMA SeqGrow ==
  ASSUME NEW S, NEW s \in Seq(S), NEW e \in S
  PROVE  Append(s, e) \in Seq(S)
  OBVIOUS

\* Reading a request leaves the pipe well typed and touches no reply.
LEMMA ReadLineType ==
  ASSUME TypeOK, NEW m, ReadLine(m)
  PROVE  /\ pc = "read" /\ Head(stdin).id \in Req
         /\ stdin' \in Seq(Request)
         /\ UNCHANGED <<sent, replies, interrupted, gil>>
<1>1. stdin \in Seq(Request) /\ stdin # <<>>
  BY DEF TypeOK, ReadLine, Request
<1>2. Head(stdin) \in Request /\ Tail(stdin) \in Seq(Request)
  BY <1>1, SeqTake
<1> QED
  BY <1>2 DEF ReadLine, Request

\* A request answered at once gives a response that has a kind.
LEMMA ReplyToType ==
  ASSUME TypeOK, NEW m, NEW k \in Kind, k # "none", ReplyTo(m, k)
  PROVE  /\ stdin' \in Seq(Request)
         /\ pc = "read" /\ pc' = "reply" /\ cur' \in Req
         /\ resp' \in Response /\ resp'.kind # "none"
         /\ UNCHANGED <<sent, replies, interrupted, gil>>
         /\ Head(stdin).id \in Req
  BY ReadLineType, AnswerType DEF ReplyTo

\* The process starts well typed.
LEMMA InitTInv == Init => TInv
<1> SUFFICES ASSUME Init PROVE TInv
  OBVIOUS
<1>1. TypeOK
  <2>1. saved \in [Req -> [out: Stream, hook: Hook]] /\ result \in [Req -> Result]
    BY NoResultType DEF Init
  <2>2. stdin \in Seq(Request) /\ replies \in Seq({a \in Response : a.kind # "none"})
    BY DEF Init
  <2>3. sent \in 0..MaxRequests /\ resetAt \in 0..MaxRequests
    BY ReplAssumption DEF Init
  <2>4. worker \in [Req -> WorkerPC] /\ buf \in [Req -> SUBSET Req]
    BY DEF Init
  <2> QED
    BY <2>1, <2>2, <2>3, <2>4, NoResponseType DEF Init, TypeOK, Request
<1>2. AnswersHaveKinds
  BY DEF Init, AnswersHaveKinds
<1> QED
  BY <1>1, <1>2 DEF TInv

\* Every step keeps the types.
LEMMA StepTInv == TInv /\ [Next]_vars => TInv'
<1> SUFFICES ASSUME TInv, [Next]_vars PROVE TInv'
  OBVIOUS
<1> USE NoResponseType, NoResultType DEF TInv, TypeOK, AnswersHaveKinds
<1>1. ASSUME NEW m \in Methods, Send(m) PROVE TInv'
  <2>1. [id |-> sent + 1, method |-> m] \in Request
    BY <1>1, ReplAssumption DEF Send, Request, Req
  <2>2. stdin' \in Seq(Request)
    BY <1>1, <2>1, SeqGrow DEF Send, Request
  <2> QED
    BY <1>1, <2>2, ReplAssumption DEF Send, Request
<1>2. CASE DropLine
  BY <1>2, ReadLineType DEF DropLine, Request
<1>3. CASE Ping
  BY <1>3, ReplyToType DEF Ping, Request
<1>4. CASE UnknownMethod
  BY <1>4, ReplyToType DEF UnknownMethod, Request
<1>5. CASE Shutdown
  BY <1>5, ReplyToType DEF Shutdown, Request
<1>6. CASE Reset
  <2>1. resetAt' \in 0..MaxRequests
    BY <1>6, ReplyToType, ReplAssumption DEF Reset, Req
  <2> QED
    BY <1>6, <2>1, ReplyToType DEF Reset, Request
<1>7. CASE InstallNothing
  BY <1>7, ReplyToType DEF InstallNothing, Request
<1>8. CASE StartInstall
  BY <1>8, ReadLineType DEF StartInstall, Request
<1>9. CASE StartExec
  BY <1>9, ReadLineType DEF StartExec, Request
<1>10. CASE WaitDone
  BY <1>10 DEF WaitDone, Handled, MainStepTo, Answer, NoResult, Response, Result
<1>11. CASE WaitTimesOut
  BY <1>11 DEF WaitTimesOut, MainStepTo
<1>12. CASE JoinDone
  BY <1>12 DEF JoinDone, Handled, MainStepTo, Answer, Response
<1>13. CASE JoinTimesOut
  BY <1>13 DEF JoinTimesOut, Handled, MainStepTo, Answer, Response
<1>14. CASE WriteResponse
  <2>1. replies' \in Seq({a \in Response : a.kind # "none"})
    BY <1>14, SeqGrow DEF WriteResponse, MainStepTo
  <2> QED
    BY <1>14, <2>1 DEF WriteResponse, MainStepTo
<1>15. CASE WriteLastResponse
  <2>1. replies' \in Seq({a \in Response : a.kind # "none"})
    BY <1>15, SeqGrow DEF WriteLastResponse, MainStepTo
  <2> QED
    BY <1>15, <2>1 DEF WriteLastResponse, Stop
<1>16. CASE WriteFails
  BY <1>16 DEF WriteFails, Stop, NoResponse, Answer
<1>17. ASSUME NEW k \in {"ok","error"}, UvDone(k) PROVE TInv'
  BY <1>17, AnswerType DEF UvDone, Handled, MainStepTo
<1>18. ASSUME NEW w \in Req, SaveStreams(w) PROVE TInv'
  BY <1>18 DEF SaveStreams, Step
<1>19. ASSUME NEW w \in Req, RedirectStreams(w) PROVE TInv'
  BY <1>19 DEF RedirectStreams, Step
<1>20. ASSUME NEW w \in Req, CompileCode(w) PROVE TInv'
  BY <1>20 DEF CompileCode, Step
<1>21. ASSUME NEW w \in Req, CollectResult(w) PROVE TInv'
  BY <1>21 DEF CollectResult, Step, NoResult, Result
<1>22. ASSUME NEW w \in Req, RestoreStreams(w) PROVE TInv'
  BY <1>22 DEF RestoreStreams, Step
<1>23. ASSUME NEW w \in Req, FinishThread(w) PROVE TInv'
  BY <1>23 DEF FinishThread, Step
<1>24. ASSUME NEW w \in Req, RaiseTimeoutError(w) PROVE TInv'
  <2>1. worker' \in [Req -> WorkerPC] /\ sysOut' \in Stream
    BY <1>24 DEF RaiseTimeoutError, Step
  <2> QED
    BY <1>24, <2>1 DEF RaiseTimeoutError, Step
<1>25. ASSUME NEW w \in Req, CodePrints(w) PROVE TInv'
  <2>1. buf' \in [Req -> SUBSET Req] /\ noise' \subseteq Req
    BY <1>25 DEF CodePrints, Step, WriteOut
  <2> QED
    BY <1>25, <2>1 DEF CodePrints, Step
<1>26. ASSUME NEW w \in Req, CodeShowsValue(w) PROVE TInv'
  <2>1. buf' \in [Req -> SUBSET Req] /\ noise' \subseteq Req
    BY <1>26 DEF CodeShowsValue, Step, WriteOut
  <2> QED
    BY <1>26, <2>1 DEF CodeShowsValue, Step
<1>27. ASSUME NEW w \in Req, CodeBindsName(w) PROVE TInv'
  BY <1>27 DEF CodeBindsName, Step
<1>28. ASSUME NEW w \in Req, CodeReturns(w) PROVE TInv'
  BY <1>28 DEF CodeReturns, Step
<1>29. ASSUME NEW w \in Req, CodeRaises(w) PROVE TInv'
  <2>1. /\ worker' = [worker EXCEPT ![w] = "restore"]
        /\ result' = [result EXCEPT ![w] = [kind |-> "error", out |-> buf[w], display |-> {}]]
    BY <1>29 DEF CodeRaises, Step
  <2>2. /\ [kind |-> "error", out |-> buf[w], display |-> {}] \in Result
        /\ [kind |-> "error", out |-> buf[w], display |-> {}].kind # "none"
    BY DEF Result
  <2>3. worker' \in [Req -> WorkerPC] /\ result' \in [Req -> Result]
    BY <2>1, <2>2
  <2>4. \A v \in Req : result'[v] = NoResult \/ result'[v].kind # "none"
    BY <2>1, <2>2
  <2>5. UNCHANGED <<sent, stdin, mainVars, gil, resetAt, saved, buf, finished, interrupted,
                    globalVars, ns, printed, shown>>
    BY <1>29 DEF CodeRaises, Step
  <2> QED
    BY <2>3, <2>4, <2>5
<1>30. ASSUME NEW w \in Req, CodeRaisesBase(w) PROVE TInv'
  BY <1>30 DEF CodeRaisesBase, Step
<1>31. ASSUME NEW w \in Req, CodeSwallowsTimeout(w) PROVE TInv'
  BY <1>31 DEF CodeSwallowsTimeout, Step
<1>32. ASSUME NEW w \in Req, CodeHoldsGIL(w) PROVE TInv'
  BY <1>32 DEF CodeHoldsGIL
<1>36. ASSUME NEW w \in Req, CodeReadsLine(w) PROVE TInv'
  <2>1. stdin' \in Seq(Request)
    BY <1>36, SeqTake DEF CodeReadsLine, Request
  <2> QED
    BY <1>36, <2>1 DEF CodeReadsLine, Request
<1>33. ASSUME NEW w \in Req, CodeReleasesGIL(w) PROVE TInv'
  BY <1>33 DEF CodeReleasesGIL
<1>34. ASSUME NEW w \in Req, CodeKillsServer(w) PROVE TInv'
  BY <1>34 DEF CodeKillsServer, Stop
<1>35. CASE UNCHANGED vars
  BY <1>35 DEF vars
<1> QED
  BY <1>1, <1>2, <1>3, <1>4, <1>5, <1>6, <1>7, <1>8, <1>9, <1>10, <1>11,
     <1>12, <1>13, <1>14, <1>15, <1>16, <1>17, <1>18, <1>19, <1>20, <1>21,
     <1>22, <1>23, <1>24, <1>25, <1>26, <1>27, <1>28, <1>29, <1>30, <1>31,
     <1>32, <1>33, <1>34, <1>35, <1>36
  DEF Next, MainStep, WorkerStep, CodeStep

(***************************************************************************)
(* Requests wait in the order of their ids, so that a request taken from   *)
(* the pipe is newer than everything the process has seen.  Ids may be     *)
(* missing: module Sandbox has requests that never reach the pipe.         *)
(***************************************************************************)
\* All up to this one have been taken from the pipe, or never reached it.
Taken == IF stdin = <<>> THEN sent ELSE Head(stdin).id - 1

Numbered ==
    /\ \A i \in 1..Len(stdin) : stdin[i].id <= sent
    /\ \A i, j \in 1..Len(stdin) : i < j => stdin[i].id < stdin[j].id

\* What has been written are responses, with numbers for ids.
LEMMA RepliesType ==
  ASSUME TypeOK
  PROVE  Len(replies) \in Nat
         /\ \A i \in 1..Len(replies) : replies[i] \in Response /\ replies[i].id \in Nat
<1>1. replies \in Seq(Response)
  BY DEF TypeOK
<1>2. \A a \in Response : a.id \in Nat
  BY DEF Response, Req
<1> QED
  BY <1>1, <1>2

Fresh ==
    /\ Numbered
    /\ \A w \in Req : w > Taken => worker[w] = "none"
    /\ cur <= Taken /\ resetAt <= Taken
    /\ \A i \in 1..Len(replies) : replies[i].id <= Taken
    /\ pc = "reply" => resp.id = cur

\* Everything in the pipe is newer than what was taken.
LEMMA TakenIds ==
  ASSUME TypeOK, Numbered
  PROVE  /\ Taken \in Nat /\ Taken <= sent /\ sent \in Nat
         /\ \A i \in 1..Len(stdin) : stdin[i].id \in Nat /\ stdin[i].id > Taken
<1>1. stdin \in Seq(Request) /\ sent \in Nat /\ Req \subseteq Nat \ {0}
  BY ReplAssumption DEF TypeOK, Request, Req
<1>2. ASSUME NEW i \in 1..Len(stdin) PROVE stdin[i].id \in Nat \ {0}
  <2>1. stdin[i] \in Request
    BY <1>1
  <2> QED
    BY <1>1, <2>1 DEF Request
<1>3. CASE stdin = <<>>
  BY <1>1, <1>3 DEF Taken
<1>4. CASE stdin # <<>>
  <2>1. Len(stdin) \in Nat /\ 1 \in 1..Len(stdin) /\ Head(stdin) = stdin[1]
    BY <1>1, <1>4
  <2>2. Taken = stdin[1].id - 1 /\ stdin[1].id <= sent
    BY <1>4, <2>1 DEF Taken, Numbered
  <2>3. Taken \in Nat /\ Taken <= sent
    BY <1>1, <1>2, <2>1, <2>2
  <2>4. ASSUME NEW i \in 1..Len(stdin)
        PROVE  stdin[i].id > Taken
    <3>1. i = 1 \/ 1 < i
      BY <2>1
    <3>2. i = 1 \/ stdin[1].id < stdin[i].id
      BY <2>1, <3>1 DEF Numbered
    <3> QED
      BY <1>2, <2>1, <2>2, <3>2
  <2> QED
    BY <1>1, <1>2, <2>3, <2>4
<1> QED
  BY <1>3, <1>4

\* The first line of the pipe is newer than all that was taken.
LEMMA LineNext ==
  ASSUME TypeOK, Numbered, stdin # <<>>, stdin' = Tail(stdin), sent' = sent
  PROVE  /\ Numbered'
         /\ Head(stdin).id = Taken + 1
         /\ Taken' \in Nat /\ Taken' >= Taken + 1
<1>1. stdin \in Seq(Request) /\ sent \in Nat
  BY ReplAssumption DEF TypeOK, Request
<1>2. /\ Len(stdin) \in Nat /\ Len(stdin) >= 1 /\ Head(stdin) = stdin[1]
      /\ stdin' \in Seq(Request)
  BY <1>1
<1>3. Len(stdin') = Len(stdin) - 1 /\ \A i \in 1..Len(stdin') : stdin'[i] = stdin[i + 1]
  BY <1>1, <1>2
<1>4. \A i \in 1..Len(stdin') : i + 1 \in 1..Len(stdin)
  BY <1>2, <1>3
<1>5. Taken \in Nat /\ \A i \in 1..Len(stdin) : stdin[i].id \in Nat /\ stdin[i].id > Taken
  BY TakenIds
<1>6. Head(stdin).id = Taken + 1
  BY <1>2, <1>5 DEF Taken
<1>7. Numbered'
  <2>1. ASSUME NEW i \in 1..Len(stdin') PROVE stdin'[i].id <= sent'
    BY <1>3, <1>4 DEF Numbered
  <2>2. ASSUME NEW i \in 1..Len(stdin'), NEW j \in 1..Len(stdin'), i < j
        PROVE  stdin'[i].id < stdin'[j].id
    <3>1. i + 1 < j + 1
      BY <2>2
    <3>2. stdin[i + 1].id < stdin[j + 1].id
      BY <1>4, <3>1 DEF Numbered
    <3> QED
      BY <1>3, <3>2
  <2> QED
    BY <2>1, <2>2 DEF Numbered
<1>8. Taken' \in Nat /\ Taken' >= Taken + 1
  <2>1. CASE stdin' = <<>>
    <3>1. stdin[1].id <= sent
      BY <1>2 DEF Numbered
    <3> QED
      BY <1>1, <1>2, <1>5, <1>6, <2>1, <3>1 DEF Taken
  <2>2. CASE stdin' # <<>>
    <3>1. 1 \in 1..Len(stdin') /\ Head(stdin') = stdin'[1]
      BY <1>2, <2>2
    <3>2. stdin'[1] = stdin[2] /\ 2 \in 1..Len(stdin) /\ 1 \in 1..Len(stdin)
      BY <1>2, <1>3, <3>1
    <3>3. stdin[1].id < stdin[2].id
      BY <3>2 DEF Numbered
    <3>4. Taken' = stdin[2].id - 1
      BY <2>2, <3>1, <3>2 DEF Taken
    <3> QED
      BY <1>2, <1>5, <1>6, <3>2, <3>3, <3>4
  <2> QED
    BY <2>1, <2>2
<1> QED
  BY <1>6, <1>7, <1>8

\* So is the request the main thread reads.
LEMMA TakeNext ==
  ASSUME TypeOK, Numbered, NEW m, ReadLine(m)
  PROVE  /\ Numbered'
         /\ Head(stdin).id = Taken + 1
         /\ Taken' \in Nat /\ Taken' >= Taken + 1
  BY LineNext DEF ReadLine

\* A request that is sent gets the next number.
LEMMA SendNext ==
  ASSUME TypeOK, Numbered, NEW m \in Methods, Send(m)
  PROVE  Numbered' /\ Taken' = Taken
<1>1. /\ stdin \in Seq(Request) /\ sent \in Nat /\ sent' = sent + 1
      /\ stdin' = Append(stdin, [id |-> sent + 1, method |-> m])
  BY ReplAssumption DEF TypeOK, Send, Request
<1>2. /\ Len(stdin) \in Nat /\ Len(stdin') = Len(stdin) + 1
      /\ \A i \in 1..Len(stdin) : stdin'[i] = stdin[i]
      /\ stdin'[Len(stdin) + 1].id = sent + 1
  BY <1>1
<1>3. \A i \in 1..Len(stdin) : stdin[i].id \in Nat /\ stdin[i].id <= sent
  BY TakenIds DEF Numbered
<1>4. Numbered'
  <2>1. \A i \in 1..Len(stdin') : i \in 1..Len(stdin) \/ i = Len(stdin) + 1
    BY <1>2
  <2>2. ASSUME NEW i \in 1..Len(stdin') PROVE stdin'[i].id <= sent'
    BY <1>1, <1>2, <1>3, <2>1
  <2>3. ASSUME NEW i \in 1..Len(stdin'), NEW j \in 1..Len(stdin'), i < j
        PROVE  stdin'[i].id < stdin'[j].id
    <3>1. i \in 1..Len(stdin)
      BY <1>2, <2>1, <2>3
    <3>2. CASE j \in 1..Len(stdin)
      BY <1>2, <2>3, <3>1, <3>2 DEF Numbered
    <3>3. CASE j = Len(stdin) + 1
      BY <1>1, <1>2, <1>3, <3>1, <3>3
    <3> QED
      BY <2>1, <3>2, <3>3
  <2> QED
    BY <2>2, <2>3 DEF Numbered
<1>5. Taken' = Taken
  <2>1. stdin' # <<>> /\ Head(stdin') = stdin'[1]
    BY <1>1, <1>2
  <2>2. CASE stdin = <<>>
    BY <1>1, <1>2, <2>1, <2>2 DEF Taken
  <2>3. CASE stdin # <<>>
    <3>1. 1 \in 1..Len(stdin) /\ Head(stdin) = stdin[1]
      BY <1>1, <2>3
    <3> QED
      BY <1>2, <2>1, <2>3, <3>1 DEF Taken
  <2> QED
    BY <2>2, <2>3
<1> QED
  BY <1>4, <1>5

\* The ids the process has seen are numbers.
LEMMA SeenIds ==
  ASSUME TInv, Fresh
  PROVE  /\ Taken \in Nat /\ Req \subseteq Nat \ {0}
         /\ Len(replies) \in Nat /\ \A i \in 1..Len(replies) : replies[i].id \in Nat
         /\ resetAt \in Nat /\ cur \in Nat
<1>1. Taken \in Nat /\ Req \subseteq Nat \ {0}
  BY TakenIds DEF TInv, Fresh, Req
<1>2. Len(replies) \in Nat /\ \A i \in 1..Len(replies) : replies[i].id \in Nat
  BY RepliesType DEF TInv
<1>3. resetAt \in Nat /\ cur \in Nat
  BY <1>1, ReplAssumption DEF TInv, TypeOK
<1> QED
  BY <1>1, <1>2, <1>3

(***************************************************************************)
(* What a step does to the pipe, the request that is handled and the       *)
(* responses that are written.                                             *)
(***************************************************************************)
Quiet == UNCHANGED <<sent, stdin, cur, replies>>
LineTaken ==
    /\ stdin # <<>> /\ stdin' = Tail(stdin)
    /\ UNCHANGED <<sent, replies>>
    /\ cur' = cur \/ (pc = "read" /\ cur' = Head(stdin).id)
ReplyWritten ==
    /\ pc = "reply" /\ cur' = None
    /\ replies' = Append(replies, resp)
    /\ UNCHANGED <<sent, stdin>>
Ended == cur' = None /\ UNCHANGED <<sent, stdin, replies>>

\* A step of the process is one of these.
LEMMA Moves ==
  ASSUME MainStep \/ \E w \in Req : WorkerStep(w) \/ CodeStep(w)
  PROVE  Quiet \/ LineTaken \/ ReplyWritten \/ Ended
<1> USE DEF Quiet, LineTaken, ReplyWritten, Ended
<1>1. CASE DropLine
  BY <1>1 DEF DropLine, ReadLine
<1>2. CASE Ping \/ UnknownMethod \/ Shutdown \/ Reset \/ InstallNothing
  BY <1>2 DEF Ping, UnknownMethod, Shutdown, Reset, InstallNothing, ReplyTo, ReadLine
<1>3. CASE StartInstall \/ StartExec
  BY <1>3 DEF StartInstall, StartExec, ReadLine
<1>4. CASE WaitDone \/ JoinDone \/ JoinTimesOut \/ \E k \in {"ok", "error"} : UvDone(k)
  BY <1>4 DEF WaitDone, JoinDone, JoinTimesOut, UvDone, Handled, MainStepTo
<1>5. CASE WaitTimesOut
  BY <1>5 DEF WaitTimesOut, MainStepTo
<1>6. CASE WriteResponse \/ WriteLastResponse
  BY <1>6 DEF WriteResponse, WriteLastResponse, MainStepTo, Stop
<1>7. CASE WriteFails
  BY <1>7 DEF WriteFails, Stop
<1>8. ASSUME NEW w \in Req, WorkerStep(w)
      PROVE  Quiet
  BY <1>8 DEF WorkerStep, SaveStreams, RedirectStreams, CompileCode, CollectResult,
              RestoreStreams, FinishThread, RaiseTimeoutError, Step
<1>9. ASSUME NEW w \in Req, CodeStep(w), ~CodeReadsLine(w), ~CodeKillsServer(w)
      PROVE  Quiet
  BY <1>9 DEF CodeStep, CodePrints, CodeShowsValue, CodeBindsName, CodeReturns, CodeRaises,
              CodeRaisesBase, CodeSwallowsTimeout, CodeHoldsGIL, CodeReleasesGIL, Step
<1>10. ASSUME NEW w \in Req, CodeReadsLine(w) \/ CodeKillsServer(w)
       PROVE  LineTaken \/ Ended
  BY <1>10 DEF CodeReadsLine, CodeKillsServer, Stop
<1> QED
  BY <1>1, <1>2, <1>3, <1>4, <1>5, <1>6, <1>7, <1>8, <1>9, <1>10 DEF MainStep

\* What was taken grows, by the request that is handled or the line that is
\* lost.
LEMMA TakenGrows ==
  ASSUME TInv, Fresh, [Next]_vars
  PROVE  /\ Taken \in Nat /\ Taken' \in Nat /\ Taken' >= Taken
         /\ cur' \in {cur, None} \/ cur' > Taken
<1>1. Taken \in Nat /\ TypeOK /\ Numbered
  BY SeenIds DEF Fresh, TInv
<1>2. ASSUME NEW m \in Methods, Send(m)
      PROVE  Taken' = Taken /\ cur' = cur
  BY <1>1, <1>2, SendNext DEF Send
<1>3. CASE Quiet \/ ReplyWritten \/ Ended
  BY <1>1, <1>3 DEF Quiet, ReplyWritten, Ended, Taken
<1>4. CASE LineTaken
  <2>1. Head(stdin).id = Taken + 1 /\ Taken' \in Nat /\ Taken' >= Taken + 1
    BY <1>1, <1>4, LineNext DEF LineTaken
  <2> QED
    BY <1>1, <1>4, <2>1 DEF LineTaken
<1>5. CASE UNCHANGED vars
  BY <1>1, <1>5 DEF vars, Taken
<1> QED
  BY <1>1, <1>2, <1>3, <1>4, <1>5, Moves DEF Next

\* Every step keeps the requests that have not been taken without a thread.
LEMMA StepFresh == TInv /\ Fresh /\ [Next]_vars => Fresh'
<1> SUFFICES ASSUME TInv, Fresh, [Next]_vars PROVE Fresh'
  OBVIOUS
<1>facts. /\ Taken \in Nat /\ Len(replies) \in Nat /\ resetAt \in Nat /\ cur \in Nat
          /\ Req \subseteq Nat
          /\ \A i \in 1..Len(replies) : replies[i].id \in Nat
  BY SeenIds DEF Fresh
<1> USE DEF Fresh, TInv, TypeOK
<1>1. ASSUME NEW m \in Methods, Send(m) PROVE Fresh'
  <2>1. Numbered' /\ Taken' = Taken
    BY <1>1, SendNext
  <2> QED
    BY <1>1, <1>facts, <2>1 DEF Send
<1>2. CASE DropLine
  <2>1. /\ Numbered' /\ Head(stdin).id = Taken + 1 /\ Taken' \in Nat /\ Taken' >= Taken + 1
    BY <1>2, TakeNext DEF DropLine
  <2> QED
    BY <1>2, <1>facts, <2>1 DEF DropLine, ReadLine
<1>3. CASE Ping
  <2>1. /\ Numbered' /\ Head(stdin).id = Taken + 1 /\ Taken' \in Nat /\ Taken' >= Taken + 1
    BY <1>3, TakeNext DEF Ping, ReplyTo
  <2> QED
    BY <1>3, <1>facts, <2>1 DEF Ping, ReplyTo, ReadLine, Answer
<1>4. CASE UnknownMethod
  <2>1. /\ Numbered' /\ Head(stdin).id = Taken + 1 /\ Taken' \in Nat /\ Taken' >= Taken + 1
    BY <1>4, TakeNext DEF UnknownMethod, ReplyTo
  <2> QED
    BY <1>4, <1>facts, <2>1 DEF UnknownMethod, ReplyTo, ReadLine, Answer
<1>5. CASE Shutdown
  <2>1. /\ Numbered' /\ Head(stdin).id = Taken + 1 /\ Taken' \in Nat /\ Taken' >= Taken + 1
    BY <1>5, TakeNext DEF Shutdown, ReplyTo
  <2> QED
    BY <1>5, <1>facts, <2>1 DEF Shutdown, ReplyTo, ReadLine, Answer
<1>6. CASE Reset
  <2>1. /\ Numbered' /\ Head(stdin).id = Taken + 1 /\ Taken' \in Nat /\ Taken' >= Taken + 1
    BY <1>6, TakeNext DEF Reset, ReplyTo
  <2> QED
    BY <1>6, <1>facts, <2>1 DEF Reset, ReplyTo, ReadLine, Answer
<1>7. CASE InstallNothing
  <2>1. /\ Numbered' /\ Head(stdin).id = Taken + 1 /\ Taken' \in Nat /\ Taken' >= Taken + 1
    BY <1>7, TakeNext DEF InstallNothing, ReplyTo
  <2> QED
    BY <1>7, <1>facts, <2>1 DEF InstallNothing, ReplyTo, ReadLine, Answer
<1>8. CASE StartInstall
  <2>1. /\ Numbered' /\ Head(stdin).id = Taken + 1 /\ Taken' \in Nat /\ Taken' >= Taken + 1
    BY <1>8, TakeNext DEF StartInstall
  <2> QED
    BY <1>8, <1>facts, <2>1 DEF StartInstall, ReadLine
<1>9. CASE StartExec
  <2>1. /\ Numbered' /\ Head(stdin).id = Taken + 1 /\ Taken' \in Nat /\ Taken' >= Taken + 1
    BY <1>9, TakeNext DEF StartExec
  <2>2. /\ cur' = Head(stdin).id /\ pc' = "wait" /\ UNCHANGED <<replies, resetAt>>
        /\ worker' = [worker EXCEPT ![Head(stdin).id] = "started"]
    BY <1>9 DEF StartExec, ReadLine
  <2>3. ASSUME NEW w \in Req, w > Taken' PROVE worker'[w] = "none"
    <3>1. w > Taken /\ w # Head(stdin).id
      BY <1>facts, <2>1, <2>3
    <3> QED
      BY <2>2, <3>1
  <2> QED
    BY <1>facts, <2>1, <2>2, <2>3
<1>10. CASE WaitDone
  <2>1. Numbered' /\ Taken' = Taken
    BY <1>10 DEF WaitDone, Handled, MainStepTo, Answer, Numbered, Taken
  <2> QED
    BY <1>10, <1>facts, <2>1 DEF WaitDone, Handled, MainStepTo, Answer
<1>11. CASE WaitTimesOut
  <2>1. Numbered' /\ Taken' = Taken
    BY <1>11 DEF WaitTimesOut, MainStepTo, Numbered, Taken
  <2> QED
    BY <1>11, <1>facts, <2>1 DEF WaitTimesOut, MainStepTo
<1>12. CASE JoinDone
  <2>1. Numbered' /\ Taken' = Taken
    BY <1>12 DEF JoinDone, Handled, MainStepTo, Answer, Numbered, Taken
  <2> QED
    BY <1>12, <1>facts, <2>1 DEF JoinDone, Handled, MainStepTo, Answer
<1>13. CASE JoinTimesOut
  <2>1. Numbered' /\ Taken' = Taken
    BY <1>13 DEF JoinTimesOut, Handled, MainStepTo, Answer, Numbered, Taken
  <2> QED
    BY <1>13, <1>facts, <2>1 DEF JoinTimesOut, Handled, MainStepTo, Answer
<1>14. CASE WriteResponse
  <2>1. Numbered' /\ Taken' = Taken
    BY <1>14 DEF WriteResponse, MainStepTo, Numbered, Taken
  <2>2. /\ Len(replies') = Len(replies) + 1
        /\ \A i \in 1..Len(replies) : replies'[i] = replies[i]
        /\ replies'[Len(replies) + 1] = resp
    BY <1>14 DEF WriteResponse
  <2>3. cur' = None /\ UNCHANGED resetAt /\ pc' # "reply"
    BY <1>14 DEF WriteResponse, MainStepTo, historyVars
  <2>4. resp.id <= Taken
    BY <1>14 DEF WriteResponse, MainStepTo
  <2>5. ASSUME NEW i \in 1..Len(replies') PROVE replies'[i].id <= Taken'
    <3>1. CASE i \in 1..Len(replies)
      BY <1>facts, <2>1, <2>2, <3>1 DEF Fresh
    <3>2. CASE i = Len(replies) + 1
      BY <2>1, <2>2, <2>4, <3>2
    <3> QED
      BY <1>facts, <2>2, <2>5, <3>1, <3>2
  <2>6. \A v \in Req : worker'[v] = "none" <=> worker[v] = "none"
    BY <1>14 DEF WriteResponse, MainStepTo
  <2> QED
    BY <1>facts, <2>1, <2>3, <2>5, <2>6
<1>15. CASE WriteLastResponse
  <2>1. Numbered' /\ Taken' = Taken
    BY <1>15 DEF WriteLastResponse, Stop, Numbered, Taken
  <2>2. /\ Len(replies') = Len(replies) + 1
        /\ \A i \in 1..Len(replies) : replies'[i] = replies[i]
        /\ replies'[Len(replies) + 1] = resp
    BY <1>15 DEF WriteLastResponse
  <2>3. cur' = None /\ UNCHANGED resetAt /\ pc' # "reply"
    BY <1>15 DEF WriteLastResponse, Stop, historyVars
  <2>4. resp.id <= Taken
    BY <1>15 DEF WriteLastResponse, Stop
  <2>5. ASSUME NEW i \in 1..Len(replies') PROVE replies'[i].id <= Taken'
    <3>1. CASE i \in 1..Len(replies)
      BY <1>facts, <2>1, <2>2, <3>1 DEF Fresh
    <3>2. CASE i = Len(replies) + 1
      BY <2>1, <2>2, <2>4, <3>2
    <3> QED
      BY <1>facts, <2>2, <2>5, <3>1, <3>2
  <2>6. \A v \in Req : worker'[v] = "none" <=> worker[v] = "none"
    BY <1>15 DEF WriteLastResponse, Stop
  <2> QED
    BY <1>facts, <2>1, <2>3, <2>5, <2>6
<1>16. CASE WriteFails
  <2>1. Numbered' /\ Taken' = Taken
    BY <1>16 DEF WriteFails, Stop, Numbered, Taken
  <2> QED
    BY <1>16, <1>facts, <2>1 DEF WriteFails, Stop
<1>17. ASSUME NEW k \in {"ok", "error"}, UvDone(k) PROVE Fresh'
  <2>1. Numbered' /\ Taken' = Taken
    BY <1>17 DEF UvDone, Handled, MainStepTo, Answer, Numbered, Taken
  <2> QED
    BY <1>17, <1>facts, <2>1 DEF UvDone, Handled, MainStepTo, Answer
<1>18. ASSUME NEW w \in Req, SaveStreams(w) PROVE Fresh'
  <2>1. Numbered' /\ Taken' = Taken
    BY <1>18 DEF SaveStreams, Step, Numbered, Taken
  <2> QED
    BY <1>18, <1>facts, <2>1 DEF SaveStreams, Step
<1>19. ASSUME NEW w \in Req, RedirectStreams(w) PROVE Fresh'
  <2>1. Numbered' /\ Taken' = Taken
    BY <1>19 DEF RedirectStreams, Step, Numbered, Taken
  <2> QED
    BY <1>19, <1>facts, <2>1 DEF RedirectStreams, Step
<1>20. ASSUME NEW w \in Req, CompileCode(w) PROVE Fresh'
  <2>1. Numbered' /\ Taken' = Taken
    BY <1>20 DEF CompileCode, Step, Numbered, Taken
  <2> QED
    BY <1>20, <1>facts, <2>1 DEF CompileCode, Step
<1>21. ASSUME NEW w \in Req, CollectResult(w) PROVE Fresh'
  <2>1. Numbered' /\ Taken' = Taken
    BY <1>21 DEF CollectResult, Step, Numbered, Taken
  <2> QED
    BY <1>21, <1>facts, <2>1 DEF CollectResult, Step
<1>22. ASSUME NEW w \in Req, RestoreStreams(w) PROVE Fresh'
  <2>1. Numbered' /\ Taken' = Taken
    BY <1>22 DEF RestoreStreams, Step, Numbered, Taken
  <2> QED
    BY <1>22, <1>facts, <2>1 DEF RestoreStreams, Step
<1>23. ASSUME NEW w \in Req, FinishThread(w) PROVE Fresh'
  <2>1. Numbered' /\ Taken' = Taken
    BY <1>23 DEF FinishThread, Step, Numbered, Taken
  <2> QED
    BY <1>23, <1>facts, <2>1 DEF FinishThread, Step
<1>24. ASSUME NEW w \in Req, RaiseTimeoutError(w) PROVE Fresh'
  <2>1. Numbered' /\ Taken' = Taken
    BY <1>24 DEF RaiseTimeoutError, Step, Numbered, Taken
  <2> QED
    BY <1>24, <1>facts, <2>1 DEF RaiseTimeoutError, Step
<1>25. ASSUME NEW w \in Req, CodePrints(w) PROVE Fresh'
  <2>1. Numbered' /\ Taken' = Taken
    BY <1>25 DEF CodePrints, Step, WriteOut, Numbered, Taken
  <2> QED
    BY <1>25, <1>facts, <2>1 DEF CodePrints, Step, WriteOut
<1>26. ASSUME NEW w \in Req, CodeShowsValue(w) PROVE Fresh'
  <2>1. Numbered' /\ Taken' = Taken
    BY <1>26 DEF CodeShowsValue, Step, WriteOut, Numbered, Taken
  <2> QED
    BY <1>26, <1>facts, <2>1 DEF CodeShowsValue, Step, WriteOut
<1>27. ASSUME NEW w \in Req, CodeBindsName(w) PROVE Fresh'
  <2>1. Numbered' /\ Taken' = Taken
    BY <1>27 DEF CodeBindsName, Step, Numbered, Taken
  <2> QED
    BY <1>27, <1>facts, <2>1 DEF CodeBindsName, Step
<1>28. ASSUME NEW w \in Req, CodeReturns(w) PROVE Fresh'
  <2>1. Numbered' /\ Taken' = Taken
    BY <1>28 DEF CodeReturns, Step, Numbered, Taken
  <2> QED
    BY <1>28, <1>facts, <2>1 DEF CodeReturns, Step
<1>29. ASSUME NEW w \in Req, CodeRaises(w) PROVE Fresh'
  <2>1. Numbered' /\ Taken' = Taken
    BY <1>29 DEF CodeRaises, Step, Numbered, Taken
  <2> QED
    BY <1>29, <1>facts, <2>1 DEF CodeRaises, Step
<1>30. ASSUME NEW w \in Req, CodeRaisesBase(w) PROVE Fresh'
  <2>1. Numbered' /\ Taken' = Taken
    BY <1>30 DEF CodeRaisesBase, Step, Numbered, Taken
  <2> QED
    BY <1>30, <1>facts, <2>1 DEF CodeRaisesBase, Step
<1>31. ASSUME NEW w \in Req, CodeSwallowsTimeout(w) PROVE Fresh'
  <2>1. Numbered' /\ Taken' = Taken
    BY <1>31 DEF CodeSwallowsTimeout, Step, Numbered, Taken
  <2> QED
    BY <1>31, <1>facts, <2>1 DEF CodeSwallowsTimeout, Step
<1>32. ASSUME NEW w \in Req, CodeHoldsGIL(w) PROVE Fresh'
  <2>1. Numbered' /\ Taken' = Taken
    BY <1>32 DEF CodeHoldsGIL, Numbered, Taken
  <2> QED
    BY <1>32, <1>facts, <2>1 DEF CodeHoldsGIL
<1>36. ASSUME NEW w \in Req, CodeReadsLine(w) PROVE Fresh'
  <2>1. Numbered' /\ Taken' \in Nat /\ Taken' >= Taken + 1
    BY <1>36, LineNext DEF CodeReadsLine
  <2> QED
    BY <1>36, <1>facts, <2>1 DEF CodeReadsLine
<1>33. ASSUME NEW w \in Req, CodeReleasesGIL(w) PROVE Fresh'
  <2>1. Numbered' /\ Taken' = Taken
    BY <1>33 DEF CodeReleasesGIL, Numbered, Taken
  <2> QED
    BY <1>33, <1>facts, <2>1 DEF CodeReleasesGIL
<1>34. ASSUME NEW w \in Req, CodeKillsServer(w) PROVE Fresh'
  <2>1. Numbered' /\ Taken' = Taken
    BY <1>34 DEF CodeKillsServer, Stop, Numbered, Taken
  <2> QED
    BY <1>34, <1>facts, <2>1 DEF CodeKillsServer, Stop
<1>35. CASE UNCHANGED vars
  <2>1. Numbered' /\ Taken' = Taken
    BY <1>35 DEF vars, Numbered, Taken
  <2> QED
    BY <1>35, <1>facts, <2>1 DEF vars
<1> QED
  BY <1>1, <1>2, <1>3, <1>4, <1>5, <1>6, <1>7, <1>8, <1>9, <1>10, <1>11,
     <1>12, <1>13, <1>14, <1>15, <1>16, <1>17, <1>18, <1>19, <1>20, <1>21,
     <1>22, <1>23, <1>24, <1>25, <1>26, <1>27, <1>28, <1>29, <1>30, <1>31,
     <1>32, <1>33, <1>34, <1>35, <1>36
  DEF Next, MainStep, WorkerStep, CodeStep

(***************************************************************************)
(* A request whose thread has not been started has left no trace in the    *)
(* process: its buffer is empty and nobody prints into it, or will restore *)
(* it.  Its code may have run in an earlier process, though not if it has  *)
(* yet to be taken, or is the one being handled.                           *)
(***************************************************************************)
Untouched ==
    \A w \in Req : worker[w] = "none" =>
        /\ buf[w] = {} /\ result[w] = NoResult
        /\ sysOut # w
        /\ \A v \in Req : saved[v].out # w
        /\ w > Taken \/ w = cur => w \notin printed /\ w \notin shown

\* Every step keeps a request that has no thread without effects.
LEMMA StepUntouched == TInv /\ Fresh /\ Untouched /\ [Next]_vars => Untouched'
<1> SUFFICES ASSUME TInv, Fresh, Untouched, [Next]_vars PROVE Untouched'
  OBVIOUS
<1>grows. /\ Taken \in Nat /\ Taken' \in Nat /\ Taken' >= Taken /\ Req \subseteq Nat \ {0}
          /\ cur' \in {cur, None} \/ cur' > Taken
  BY TakenGrows, SeenIds
<1>taken. \A w \in Req : w > Taken' \/ w = cur' => w > Taken \/ w = cur
  BY <1>grows
<1> USE DEF Untouched, TInv, TypeOK
<1>1. ASSUME NEW m \in Methods, Send(m) PROVE Untouched'
  BY <1>1, <1>taken DEF Send
<1>2. CASE DropLine
  BY <1>2, <1>taken DEF DropLine, ReadLine
<1>3. CASE Ping
  BY <1>3, <1>taken DEF Ping, ReplyTo, ReadLine, Answer
<1>4. CASE UnknownMethod
  BY <1>4, <1>taken DEF UnknownMethod, ReplyTo, ReadLine, Answer
<1>5. CASE Shutdown
  BY <1>5, <1>taken DEF Shutdown, ReplyTo, ReadLine, Answer
<1>6. CASE Reset
  BY <1>6, <1>taken DEF Reset, ReplyTo, ReadLine, Answer
<1>7. CASE InstallNothing
  BY <1>7, <1>taken DEF InstallNothing, ReplyTo, ReadLine, Answer
<1>8. CASE StartInstall
  BY <1>8, <1>taken DEF StartInstall, ReadLine
<1>9. CASE StartExec
  BY <1>9, <1>taken DEF StartExec, ReadLine
<1>10. CASE WaitDone
  BY <1>10, <1>taken DEF WaitDone, Handled, MainStepTo, Answer
<1>11. CASE WaitTimesOut
  BY <1>11, <1>taken DEF WaitTimesOut, MainStepTo
<1>12. CASE JoinDone
  BY <1>12, <1>taken DEF JoinDone, Handled, MainStepTo, Answer
<1>13. CASE JoinTimesOut
  BY <1>13, <1>taken DEF JoinTimesOut, Handled, MainStepTo, Answer
<1>14. CASE WriteResponse
  BY <1>14, <1>taken DEF WriteResponse, MainStepTo
<1>15. CASE WriteLastResponse
  BY <1>15, <1>taken DEF WriteLastResponse, Stop
<1>16. CASE WriteFails
  BY <1>16, <1>taken DEF WriteFails, Stop
<1>17. ASSUME NEW k \in {"ok", "error"}, UvDone(k) PROVE Untouched'
  BY <1>17, <1>taken DEF UvDone, Handled, MainStepTo, Answer
<1>18. ASSUME NEW w \in Req, SaveStreams(w) PROVE Untouched'
  BY <1>18, <1>taken DEF SaveStreams, Step
<1>19. ASSUME NEW w \in Req, RedirectStreams(w) PROVE Untouched'
  BY <1>19, <1>taken DEF RedirectStreams, Step
<1>20. ASSUME NEW w \in Req, CompileCode(w) PROVE Untouched'
  BY <1>20, <1>taken DEF CompileCode, Step
<1>21. ASSUME NEW w \in Req, CollectResult(w) PROVE Untouched'
  BY <1>21, <1>taken DEF CollectResult, Step
<1>22. ASSUME NEW w \in Req, RestoreStreams(w) PROVE Untouched'
  BY <1>22, <1>taken DEF RestoreStreams, Step
<1>23. ASSUME NEW w \in Req, FinishThread(w) PROVE Untouched'
  BY <1>23, <1>taken DEF FinishThread, Step
<1>24. ASSUME NEW w \in Req, RaiseTimeoutError(w) PROVE Untouched'
  <2>1. \A v \in Req : worker'[v] = "none" => worker[v] = "none"
    BY <1>24, <1>taken DEF RaiseTimeoutError, Step
  <2>2. sysOut' \in {sysOut, saved[w].out}
    BY <1>24, <1>taken DEF RaiseTimeoutError
  <2> QED
    BY <1>24, <1>taken, <2>1, <2>2 DEF RaiseTimeoutError
<1>25. ASSUME NEW w \in Req, CodePrints(w) PROVE Untouched'
  BY <1>25, <1>taken DEF CodePrints, Step, WriteOut
<1>26. ASSUME NEW w \in Req, CodeShowsValue(w) PROVE Untouched'
  BY <1>26, <1>taken DEF CodeShowsValue, Step, WriteOut
<1>27. ASSUME NEW w \in Req, CodeBindsName(w) PROVE Untouched'
  BY <1>27, <1>taken DEF CodeBindsName, Step
<1>28. ASSUME NEW w \in Req, CodeReturns(w) PROVE Untouched'
  BY <1>28, <1>taken DEF CodeReturns, Step
<1>29. ASSUME NEW w \in Req, CodeRaises(w) PROVE Untouched'
  BY <1>29, <1>taken DEF CodeRaises, Step
<1>30. ASSUME NEW w \in Req, CodeRaisesBase(w) PROVE Untouched'
  BY <1>30, <1>taken DEF CodeRaisesBase, Step
<1>31. ASSUME NEW w \in Req, CodeSwallowsTimeout(w) PROVE Untouched'
  BY <1>31, <1>taken DEF CodeSwallowsTimeout, Step
<1>32. ASSUME NEW w \in Req, CodeHoldsGIL(w) PROVE Untouched'
  BY <1>32, <1>taken DEF CodeHoldsGIL
<1>36. ASSUME NEW w \in Req, CodeReadsLine(w) PROVE Untouched'
  BY <1>36, <1>taken DEF CodeReadsLine
<1>33. ASSUME NEW w \in Req, CodeReleasesGIL(w) PROVE Untouched'
  BY <1>33, <1>taken DEF CodeReleasesGIL
<1>34. ASSUME NEW w \in Req, CodeKillsServer(w) PROVE Untouched'
  BY <1>34, <1>taken DEF CodeKillsServer, Stop
<1>35. CASE UNCHANGED vars
  BY <1>35, <1>taken DEF vars
<1> QED
  BY <1>1, <1>2, <1>3, <1>4, <1>5, <1>6, <1>7, <1>8, <1>9, <1>10, <1>11,
     <1>12, <1>13, <1>14, <1>15, <1>16, <1>17, <1>18, <1>19, <1>20, <1>21,
     <1>22, <1>23, <1>24, <1>25, <1>26, <1>27, <1>28, <1>29, <1>30, <1>31,
     <1>32, <1>33, <1>34, <1>35, <1>36
  DEF Next, MainStep, WorkerStep, CodeStep

(***************************************************************************)
(* What the main thread knows at each of its steps.                        *)
(***************************************************************************)
MainFollows ==
    /\ pc \in {"read", "stopped"} => cur = None
    /\ pc \notin {"reply", "stopped"} => resp = NoResponse
    /\ pc = "uv" => worker[cur] = "none"
    /\ pc \in {"wait", "join"} => resetAt < cur
    /\ pc = "reply" => cur \in Req /\ (Alive(cur) => resp.corrupted)
    /\ resp.corrupted => resp.kind = "timeout"
    /\ \A w \in finished : worker[w] = "dead"
    /\ shutdown => pc \in {"reply", "stopped"}
    /\ pc = "stopped" => \A w \in Req : ~Alive(w)

\* The thread of a request answered without session_corrupted is gone; with
\* it, the answer is that of a timeout.
RepliedGone ==
    \A i \in 1..Len(replies) :
        /\ replies[i].id \in Req
        /\ ~replies[i].corrupted => ~Alive(replies[i].id)
        /\ replies[i].corrupted => replies[i].kind = "timeout"

\* Every step keeps the main thread in step with the request it handles.
LEMMA StepMainFollows == TInv /\ Fresh /\ MainFollows /\ [Next]_vars => MainFollows'
<1> SUFFICES ASSUME TInv, Fresh, MainFollows, [Next]_vars PROVE MainFollows'
  OBVIOUS
<1>facts. /\ Taken \in Nat /\ Len(replies) \in Nat /\ Req \subseteq Nat /\ resetAt <= Taken
          /\ resetAt \in Nat /\ cur \in Nat
          /\ \A w \in Req : w > Taken => worker[w] = "none"
  BY SeenIds DEF Fresh
<1> USE DEF MainFollows, TInv, TypeOK, AnswersHaveKinds, Alive
<1>1. ASSUME NEW m \in Methods, Send(m) PROVE MainFollows'
  BY <1>1 DEF Send
<1>2. CASE DropLine
  <2>1. Head(stdin).id = Taken + 1 /\ Head(stdin).id \in Req
    BY <1>2, TakeNext, ReadLineType DEF DropLine, Fresh
  <2> QED
    BY <1>2, <1>facts, <2>1 DEF DropLine, ReadLine
<1>3. CASE Ping
  <2>1. Head(stdin).id = Taken + 1 /\ Head(stdin).id \in Req
    BY <1>3, TakeNext, ReadLineType DEF Ping, ReplyTo, Fresh
  <2> QED
    BY <1>3, <1>facts, <2>1 DEF Ping, ReplyTo, ReadLine, Answer
<1>4. CASE UnknownMethod
  <2>1. Head(stdin).id = Taken + 1 /\ Head(stdin).id \in Req
    BY <1>4, TakeNext, ReadLineType DEF UnknownMethod, ReplyTo, Fresh
  <2> QED
    BY <1>4, <1>facts, <2>1 DEF UnknownMethod, ReplyTo, ReadLine, Answer
<1>5. CASE Shutdown
  <2>1. Head(stdin).id = Taken + 1 /\ Head(stdin).id \in Req
    BY <1>5, TakeNext, ReadLineType DEF Shutdown, ReplyTo, Fresh
  <2> QED
    BY <1>5, <1>facts, <2>1 DEF Shutdown, ReplyTo, ReadLine, Answer
<1>6. CASE Reset
  <2>1. Head(stdin).id = Taken + 1 /\ Head(stdin).id \in Req
    BY <1>6, TakeNext, ReadLineType DEF Reset, ReplyTo, Fresh
  <2> QED
    BY <1>6, <1>facts, <2>1 DEF Reset, ReplyTo, ReadLine, Answer
<1>7. CASE InstallNothing
  <2>1. Head(stdin).id = Taken + 1 /\ Head(stdin).id \in Req
    BY <1>7, TakeNext, ReadLineType DEF InstallNothing, ReplyTo, Fresh
  <2> QED
    BY <1>7, <1>facts, <2>1 DEF InstallNothing, ReplyTo, ReadLine, Answer
<1>8. CASE StartInstall
  <2>1. Head(stdin).id = Taken + 1 /\ Head(stdin).id \in Req
    BY <1>8, TakeNext, ReadLineType DEF StartInstall, Fresh
  <2> QED
    BY <1>8, <1>facts, <2>1 DEF StartInstall, ReadLine
<1>9. CASE StartExec
  <2>1. Head(stdin).id = Taken + 1 /\ Head(stdin).id \in Req
    BY <1>9, TakeNext, ReadLineType DEF StartExec, Fresh
  <2> QED
    BY <1>9, <1>facts, <2>1 DEF StartExec, ReadLine
<1>10. CASE WaitDone
  BY <1>10 DEF WaitDone, Handled, MainStepTo, Answer
<1>11. CASE WaitTimesOut
  BY <1>11 DEF WaitTimesOut, MainStepTo
<1>12. CASE JoinDone
  BY <1>12 DEF JoinDone, Handled, MainStepTo, Answer
<1>13. CASE JoinTimesOut
  BY <1>13 DEF JoinTimesOut, Handled, MainStepTo, Answer
<1>14. CASE WriteResponse
  BY <1>14 DEF WriteResponse, MainStepTo, NoResponse, Answer
<1>15. CASE WriteLastResponse
  BY <1>15 DEF WriteLastResponse, Stop, NoResponse, Answer
<1>16. CASE WriteFails
  BY <1>16 DEF WriteFails, Stop
<1>17. ASSUME NEW k \in {"ok", "error"}, UvDone(k) PROVE MainFollows'
  BY <1>17 DEF UvDone, Handled, MainStepTo, Answer
<1>18. ASSUME NEW w \in Req, SaveStreams(w) PROVE MainFollows'
  BY <1>18 DEF SaveStreams, Step
<1>19. ASSUME NEW w \in Req, RedirectStreams(w) PROVE MainFollows'
  BY <1>19 DEF RedirectStreams, Step
<1>20. ASSUME NEW w \in Req, CompileCode(w) PROVE MainFollows'
  BY <1>20 DEF CompileCode, Step
<1>21. ASSUME NEW w \in Req, CollectResult(w) PROVE MainFollows'
  BY <1>21 DEF CollectResult, Step
<1>22. ASSUME NEW w \in Req, RestoreStreams(w) PROVE MainFollows'
  BY <1>22 DEF RestoreStreams, Step
<1>23. ASSUME NEW w \in Req, FinishThread(w) PROVE MainFollows'
  BY <1>23 DEF FinishThread, Step
<1>24. ASSUME NEW w \in Req, RaiseTimeoutError(w) PROVE MainFollows'
  BY <1>24 DEF RaiseTimeoutError, Step
<1>25. ASSUME NEW w \in Req, CodePrints(w) PROVE MainFollows'
  BY <1>25 DEF CodePrints, Step, WriteOut
<1>26. ASSUME NEW w \in Req, CodeShowsValue(w) PROVE MainFollows'
  BY <1>26 DEF CodeShowsValue, Step, WriteOut
<1>27. ASSUME NEW w \in Req, CodeBindsName(w) PROVE MainFollows'
  BY <1>27 DEF CodeBindsName, Step
<1>28. ASSUME NEW w \in Req, CodeReturns(w) PROVE MainFollows'
  BY <1>28 DEF CodeReturns, Step
<1>29. ASSUME NEW w \in Req, CodeRaises(w) PROVE MainFollows'
  BY <1>29 DEF CodeRaises, Step
<1>30. ASSUME NEW w \in Req, CodeRaisesBase(w) PROVE MainFollows'
  BY <1>30 DEF CodeRaisesBase, Step
<1>31. ASSUME NEW w \in Req, CodeSwallowsTimeout(w) PROVE MainFollows'
  BY <1>31 DEF CodeSwallowsTimeout, Step
<1>32. ASSUME NEW w \in Req, CodeHoldsGIL(w) PROVE MainFollows'
  BY <1>32 DEF CodeHoldsGIL
<1>36. ASSUME NEW w \in Req, CodeReadsLine(w) PROVE MainFollows'
  BY <1>36 DEF CodeReadsLine
<1>33. ASSUME NEW w \in Req, CodeReleasesGIL(w) PROVE MainFollows'
  BY <1>33 DEF CodeReleasesGIL
<1>34. ASSUME NEW w \in Req, CodeKillsServer(w) PROVE MainFollows'
  BY <1>34 DEF CodeKillsServer, Stop
<1>35. CASE UNCHANGED vars
  BY <1>35 DEF vars
<1> QED
  BY <1>1, <1>2, <1>3, <1>4, <1>5, <1>6, <1>7, <1>8, <1>9, <1>10, <1>11,
     <1>12, <1>13, <1>14, <1>15, <1>16, <1>17, <1>18, <1>19, <1>20, <1>21,
     <1>22, <1>23, <1>24, <1>25, <1>26, <1>27, <1>28, <1>29, <1>30, <1>31,
     <1>32, <1>33, <1>34, <1>35, <1>36
  DEF Next, MainStep, WorkerStep, CodeStep

\* Writing a response adds it at the end of those that were written.
LEMMA RepliesGrow ==
  ASSUME TypeOK, replies' = Append(replies, resp)
  PROVE  /\ Len(replies) \in Nat /\ Len(replies') = Len(replies) + 1
         /\ DOMAIN replies = 1..Len(replies)
         /\ DOMAIN replies' = 1..(Len(replies) + 1)
         /\ \A i \in 1..Len(replies) : replies'[i] = replies[i]
         /\ replies'[Len(replies) + 1] = resp
<1>1. replies \in Seq(Response)
  BY DEF TypeOK
<1> QED
  BY <1>1

\* Every step keeps the threads of unflagged replies dead.
LEMMA StepRepliedGone ==
  TInv /\ Fresh /\ MainFollows /\ RepliedGone /\ [Next]_vars => RepliedGone'
<1> SUFFICES ASSUME TInv, Fresh, MainFollows, RepliedGone, [Next]_vars PROVE RepliedGone'
  OBVIOUS
<1>facts. /\ Len(replies) \in Nat /\ Taken \in Nat
          /\ \A w \in Req : w > Taken => worker[w] = "none"
          /\ \A i \in 1..Len(replies) : replies[i].id <= Taken /\ replies[i].id \in Nat
          /\ pc = "reply" => resp.id = cur
  BY SeenIds DEF Fresh
<1> USE DEF RepliedGone, MainFollows, TInv, TypeOK, Alive
<1>1. ASSUME NEW m \in Methods, Send(m) PROVE RepliedGone'
  BY <1>1, <1>facts DEF Send
<1>2. CASE DropLine
  <2>1. Head(stdin).id = Taken + 1 /\ Head(stdin).id \in Req
    BY <1>2, TakeNext, ReadLineType DEF DropLine, Fresh
  <2> QED
    BY <1>2, <1>facts, <2>1 DEF DropLine, ReadLine
<1>3. CASE Ping
  <2>1. Head(stdin).id = Taken + 1 /\ Head(stdin).id \in Req
    BY <1>3, TakeNext, ReadLineType DEF Ping, ReplyTo, Fresh
  <2> QED
    BY <1>3, <1>facts, <2>1 DEF Ping, ReplyTo, ReadLine, Answer
<1>4. CASE UnknownMethod
  <2>1. Head(stdin).id = Taken + 1 /\ Head(stdin).id \in Req
    BY <1>4, TakeNext, ReadLineType DEF UnknownMethod, ReplyTo, Fresh
  <2> QED
    BY <1>4, <1>facts, <2>1 DEF UnknownMethod, ReplyTo, ReadLine, Answer
<1>5. CASE Shutdown
  <2>1. Head(stdin).id = Taken + 1 /\ Head(stdin).id \in Req
    BY <1>5, TakeNext, ReadLineType DEF Shutdown, ReplyTo, Fresh
  <2> QED
    BY <1>5, <1>facts, <2>1 DEF Shutdown, ReplyTo, ReadLine, Answer
<1>6. CASE Reset
  <2>1. Head(stdin).id = Taken + 1 /\ Head(stdin).id \in Req
    BY <1>6, TakeNext, ReadLineType DEF Reset, ReplyTo, Fresh
  <2> QED
    BY <1>6, <1>facts, <2>1 DEF Reset, ReplyTo, ReadLine, Answer
<1>7. CASE InstallNothing
  <2>1. Head(stdin).id = Taken + 1 /\ Head(stdin).id \in Req
    BY <1>7, TakeNext, ReadLineType DEF InstallNothing, ReplyTo, Fresh
  <2> QED
    BY <1>7, <1>facts, <2>1 DEF InstallNothing, ReplyTo, ReadLine, Answer
<1>8. CASE StartInstall
  <2>1. Head(stdin).id = Taken + 1 /\ Head(stdin).id \in Req
    BY <1>8, TakeNext, ReadLineType DEF StartInstall, Fresh
  <2> QED
    BY <1>8, <1>facts, <2>1 DEF StartInstall, ReadLine
<1>9. CASE StartExec
  <2>1. Head(stdin).id = Taken + 1 /\ Head(stdin).id \in Req
    BY <1>9, TakeNext, ReadLineType DEF StartExec, Fresh
  <2>2. replies' = replies /\ worker' = [worker EXCEPT ![Head(stdin).id] = "started"]
    BY <1>9 DEF StartExec, ReadLine
  <2>3. ASSUME NEW i \in 1..Len(replies) PROVE replies[i].id # Head(stdin).id
    BY <1>facts, <2>1
  <2> QED
    BY <2>1, <2>2, <2>3
<1>10. CASE WaitDone
  BY <1>10, <1>facts DEF WaitDone, Handled, MainStepTo, Answer
<1>11. CASE WaitTimesOut
  BY <1>11, <1>facts DEF WaitTimesOut, MainStepTo
<1>12. CASE JoinDone
  BY <1>12, <1>facts DEF JoinDone, Handled, MainStepTo, Answer
<1>13. CASE JoinTimesOut
  BY <1>13, <1>facts DEF JoinTimesOut, Handled, MainStepTo, Answer
<1>14. CASE WriteResponse
  <2>1. replies' = Append(replies, resp) /\ pc = "reply"
    BY <1>14 DEF WriteResponse, MainStepTo
  <2>2. /\ resp.id \in Req /\ (~resp.corrupted => ~Alive(resp.id))
        /\ resp.corrupted => resp.kind = "timeout"
    BY <1>facts, <2>1
  <2>3. \A v \in Req : ~Alive(v) => ~Alive(v)'
    BY <1>14 DEF WriteResponse, MainStepTo
  <2>4. ASSUME NEW i \in 1..(Len(replies) + 1)
        PROVE  /\ replies'[i].id \in Req
               /\ ~replies'[i].corrupted => ~Alive(replies'[i].id)
               /\ replies'[i].corrupted => replies'[i].kind = "timeout"
    BY <1>facts, <2>1, <2>2, RepliesGrow
  <2>5. Len(replies') = Len(replies) + 1
    BY <2>1, RepliesGrow
  <2> QED
    BY <2>3, <2>4, <2>5
<1>15. CASE WriteLastResponse
  <2>1. replies' = Append(replies, resp) /\ pc = "reply"
    BY <1>15 DEF WriteLastResponse, Stop
  <2>2. /\ resp.id \in Req /\ (~resp.corrupted => ~Alive(resp.id))
        /\ resp.corrupted => resp.kind = "timeout"
    BY <1>facts, <2>1
  <2>3. \A v \in Req : ~Alive(v) => ~Alive(v)'
    BY <1>15 DEF WriteLastResponse, Stop
  <2>4. ASSUME NEW i \in 1..(Len(replies) + 1)
        PROVE  /\ replies'[i].id \in Req
               /\ ~replies'[i].corrupted => ~Alive(replies'[i].id)
               /\ replies'[i].corrupted => replies'[i].kind = "timeout"
    BY <1>facts, <2>1, <2>2, RepliesGrow
  <2>5. Len(replies') = Len(replies) + 1
    BY <2>1, RepliesGrow
  <2> QED
    BY <2>3, <2>4, <2>5
<1>16. CASE WriteFails
  BY <1>16, <1>facts DEF WriteFails, Stop
<1>17. ASSUME NEW k \in {"ok", "error"}, UvDone(k) PROVE RepliedGone'
  BY <1>17, <1>facts DEF UvDone, Handled, MainStepTo, Answer
<1>18. ASSUME NEW w \in Req, SaveStreams(w) PROVE RepliedGone'
  BY <1>18, <1>facts DEF SaveStreams, Step
<1>19. ASSUME NEW w \in Req, RedirectStreams(w) PROVE RepliedGone'
  BY <1>19, <1>facts DEF RedirectStreams, Step
<1>20. ASSUME NEW w \in Req, CompileCode(w) PROVE RepliedGone'
  BY <1>20, <1>facts DEF CompileCode, Step
<1>21. ASSUME NEW w \in Req, CollectResult(w) PROVE RepliedGone'
  BY <1>21, <1>facts DEF CollectResult, Step
<1>22. ASSUME NEW w \in Req, RestoreStreams(w) PROVE RepliedGone'
  BY <1>22, <1>facts DEF RestoreStreams, Step
<1>23. ASSUME NEW w \in Req, FinishThread(w) PROVE RepliedGone'
  BY <1>23, <1>facts DEF FinishThread, Step
<1>24. ASSUME NEW w \in Req, RaiseTimeoutError(w) PROVE RepliedGone'
  BY <1>24, <1>facts DEF RaiseTimeoutError, Step
<1>25. ASSUME NEW w \in Req, CodePrints(w) PROVE RepliedGone'
  BY <1>25, <1>facts DEF CodePrints, Step, WriteOut
<1>26. ASSUME NEW w \in Req, CodeShowsValue(w) PROVE RepliedGone'
  BY <1>26, <1>facts DEF CodeShowsValue, Step, WriteOut
<1>27. ASSUME NEW w \in Req, CodeBindsName(w) PROVE RepliedGone'
  BY <1>27, <1>facts DEF CodeBindsName, Step
<1>28. ASSUME NEW w \in Req, CodeReturns(w) PROVE RepliedGone'
  BY <1>28, <1>facts DEF CodeReturns, Step
<1>29. ASSUME NEW w \in Req, CodeRaises(w) PROVE RepliedGone'
  <2>1. /\ replies' = replies /\ worker[w] \in {"compile", "run"}
        /\ worker' = [worker EXCEPT ![w] = "restore"]
    BY <1>29 DEF CodeRaises, Step
  <2>2. \A v \in Req : ~Alive(v) => ~Alive(v)'
    BY <2>1
  <2> QED
    BY <1>facts, <2>1, <2>2
<1>30. ASSUME NEW w \in Req, CodeRaisesBase(w) PROVE RepliedGone'
  BY <1>30, <1>facts DEF CodeRaisesBase, Step
<1>31. ASSUME NEW w \in Req, CodeSwallowsTimeout(w) PROVE RepliedGone'
  BY <1>31, <1>facts DEF CodeSwallowsTimeout, Step
<1>32. ASSUME NEW w \in Req, CodeHoldsGIL(w) PROVE RepliedGone'
  BY <1>32, <1>facts DEF CodeHoldsGIL
<1>36. ASSUME NEW w \in Req, CodeReadsLine(w) PROVE RepliedGone'
  BY <1>36, <1>facts DEF CodeReadsLine
<1>33. ASSUME NEW w \in Req, CodeReleasesGIL(w) PROVE RepliedGone'
  BY <1>33, <1>facts DEF CodeReleasesGIL
<1>34. ASSUME NEW w \in Req, CodeKillsServer(w) PROVE RepliedGone'
  BY <1>34, <1>facts DEF CodeKillsServer, Stop
<1>35. CASE UNCHANGED vars
  BY <1>35, <1>facts DEF vars
<1> QED
  BY <1>1, <1>2, <1>3, <1>4, <1>5, <1>6, <1>7, <1>8, <1>9, <1>10, <1>11,
     <1>12, <1>13, <1>14, <1>15, <1>16, <1>17, <1>18, <1>19, <1>20, <1>21,
     <1>22, <1>23, <1>24, <1>25, <1>26, <1>27, <1>28, <1>29, <1>30, <1>31,
     <1>32, <1>33, <1>34, <1>35, <1>36
  DEF Next, MainStep, WorkerStep, CodeStep

\* No step leaves a thread behind that no response flags.
LEMMA StepAbandonedReported ==
  TInv /\ Fresh /\ MainFollows /\ AbandonedReported /\ [Next]_vars => AbandonedReported'
<1> SUFFICES ASSUME TInv, Fresh, MainFollows, AbandonedReported, [Next]_vars
      PROVE AbandonedReported'
  OBVIOUS
<1>facts. /\ Len(replies) \in Nat /\ Taken \in Nat
          /\ \A w \in Req : w > Taken => worker[w] = "none"
          /\ \A i \in 1..Len(replies) : replies[i].id <= Taken /\ replies[i].id \in Nat
          /\ pc = "reply" => resp.id = cur
  BY SeenIds DEF Fresh
<1> USE DEF AbandonedReported, MainFollows, TInv, TypeOK, AnswersHaveKinds, Alive
<1>1. ASSUME NEW m \in Methods, Send(m) PROVE AbandonedReported'
  BY <1>1 DEF Reported, Send
<1>2. CASE DropLine
  <2>1. pc = "read" /\ replies' = replies
    BY <1>2 DEF DropLine, ReadLine
  <2>2. \A w \in Req : Alive(w) => Reported(w)
    BY <2>1 DEF Req
  <2>3. worker' = worker
    BY <1>2 DEF DropLine, ReadLine
  <2> QED
    BY <2>1, <2>2, <2>3 DEF Reported
<1>3. CASE Ping
  <2>1. pc = "read" /\ replies' = replies
    BY <1>3 DEF Ping, ReplyTo, ReadLine, Answer
  <2>2. \A w \in Req : Alive(w) => Reported(w)
    BY <2>1 DEF Req
  <2>3. worker' = worker
    BY <1>3 DEF Ping, ReplyTo, ReadLine, Answer
  <2> QED
    BY <2>1, <2>2, <2>3 DEF Reported
<1>4. CASE UnknownMethod
  <2>1. pc = "read" /\ replies' = replies
    BY <1>4 DEF UnknownMethod, ReplyTo, ReadLine, Answer
  <2>2. \A w \in Req : Alive(w) => Reported(w)
    BY <2>1 DEF Req
  <2>3. worker' = worker
    BY <1>4 DEF UnknownMethod, ReplyTo, ReadLine, Answer
  <2> QED
    BY <2>1, <2>2, <2>3 DEF Reported
<1>5. CASE Shutdown
  <2>1. pc = "read" /\ replies' = replies
    BY <1>5 DEF Shutdown, ReplyTo, ReadLine, Answer
  <2>2. \A w \in Req : Alive(w) => Reported(w)
    BY <2>1 DEF Req
  <2>3. worker' = worker
    BY <1>5 DEF Shutdown, ReplyTo, ReadLine, Answer
  <2> QED
    BY <2>1, <2>2, <2>3 DEF Reported
<1>6. CASE Reset
  <2>1. pc = "read" /\ replies' = replies
    BY <1>6 DEF Reset, ReplyTo, ReadLine, Answer
  <2>2. \A w \in Req : Alive(w) => Reported(w)
    BY <2>1 DEF Req
  <2>3. worker' = worker
    BY <1>6 DEF Reset, ReplyTo, ReadLine, Answer
  <2> QED
    BY <2>1, <2>2, <2>3 DEF Reported
<1>7. CASE InstallNothing
  <2>1. pc = "read" /\ replies' = replies
    BY <1>7 DEF InstallNothing, ReplyTo, ReadLine, Answer
  <2>2. \A w \in Req : Alive(w) => Reported(w)
    BY <2>1 DEF Req
  <2>3. worker' = worker
    BY <1>7 DEF InstallNothing, ReplyTo, ReadLine, Answer
  <2> QED
    BY <2>1, <2>2, <2>3 DEF Reported
<1>8. CASE StartInstall
  <2>1. pc = "read" /\ replies' = replies
    BY <1>8 DEF StartInstall, ReadLine
  <2>2. \A w \in Req : Alive(w) => Reported(w)
    BY <2>1 DEF Req
  <2>3. worker' = worker
    BY <1>8 DEF StartInstall, ReadLine
  <2> QED
    BY <2>1, <2>2, <2>3 DEF Reported
<1>9. CASE StartExec
  <2>1. pc = "read" /\ replies' = replies
    BY <1>9 DEF StartExec, ReadLine
  <2>2. \A w \in Req : Alive(w) => Reported(w)
    BY <2>1 DEF Req
  <2>3. cur' = Head(stdin).id /\ \A w \in Req : w # Head(stdin).id => worker'[w] = worker[w]
    BY <1>9 DEF Reported, StartExec
  <2> QED
    BY <2>1, <2>2, <2>3 DEF Reported
<1>10. CASE WaitDone
  BY <1>10 DEF Reported, WaitDone, Handled, MainStepTo, Answer
<1>11. CASE WaitTimesOut
  BY <1>11 DEF Reported, WaitTimesOut, MainStepTo
<1>12. CASE JoinDone
  BY <1>12 DEF Reported, JoinDone, Handled, MainStepTo, Answer
<1>13. CASE JoinTimesOut
  BY <1>13 DEF Reported, JoinTimesOut, Handled, MainStepTo, Answer
<1>14. CASE WriteResponse
  <2>1. replies' = Append(replies, resp) /\ pc = "reply" /\ worker' = worker
    BY <1>14 DEF Reported, WriteResponse, MainStepTo
  <2>2. ASSUME NEW w \in Req, Reported(w) PROVE Reported(w)'
    BY <2>1, <2>2, RepliesGrow DEF Reported
  <2>3. ASSUME NEW w \in Req, w = cur, Alive(w) PROVE Reported(w)'
    <3>1. Len(replies) + 1 \in DOMAIN replies' /\ replies'[Len(replies) + 1] = resp
      BY <2>1, RepliesGrow
    <3>2. resp.id = w /\ resp.corrupted
      BY <1>facts, <2>1, <2>3
    <3> QED
      BY <3>1, <3>2 DEF Reported
  <2> QED
    BY <2>1, <2>2, <2>3
<1>15. CASE WriteLastResponse
  BY <1>15 DEF Reported, WriteLastResponse, Stop
<1>16. CASE WriteFails
  BY <1>16 DEF Reported, WriteFails, Stop
<1>17. ASSUME NEW k \in {"ok", "error"}, UvDone(k) PROVE AbandonedReported'
  BY <1>17 DEF Reported, UvDone, Handled, MainStepTo, Answer
<1>18. ASSUME NEW w \in Req, SaveStreams(w) PROVE AbandonedReported'
  BY <1>18 DEF Reported, SaveStreams, Step
<1>19. ASSUME NEW w \in Req, RedirectStreams(w) PROVE AbandonedReported'
  BY <1>19 DEF Reported, RedirectStreams, Step
<1>20. ASSUME NEW w \in Req, CompileCode(w) PROVE AbandonedReported'
  BY <1>20 DEF Reported, CompileCode, Step
<1>21. ASSUME NEW w \in Req, CollectResult(w) PROVE AbandonedReported'
  BY <1>21 DEF Reported, CollectResult, Step
<1>22. ASSUME NEW w \in Req, RestoreStreams(w) PROVE AbandonedReported'
  BY <1>22 DEF Reported, RestoreStreams, Step
<1>23. ASSUME NEW w \in Req, FinishThread(w) PROVE AbandonedReported'
  BY <1>23 DEF Reported, FinishThread, Step
<1>24. ASSUME NEW w \in Req, RaiseTimeoutError(w) PROVE AbandonedReported'
  BY <1>24 DEF Reported, RaiseTimeoutError, Step
<1>25. ASSUME NEW w \in Req, CodePrints(w) PROVE AbandonedReported'
  BY <1>25 DEF Reported, CodePrints, Step, WriteOut
<1>26. ASSUME NEW w \in Req, CodeShowsValue(w) PROVE AbandonedReported'
  BY <1>26 DEF Reported, CodeShowsValue, Step, WriteOut
<1>27. ASSUME NEW w \in Req, CodeBindsName(w) PROVE AbandonedReported'
  BY <1>27 DEF Reported, CodeBindsName, Step
<1>28. ASSUME NEW w \in Req, CodeReturns(w) PROVE AbandonedReported'
  BY <1>28 DEF Reported, CodeReturns, Step
<1>29. ASSUME NEW w \in Req, CodeRaises(w) PROVE AbandonedReported'
  BY <1>29 DEF Reported, CodeRaises, Step
<1>30. ASSUME NEW w \in Req, CodeRaisesBase(w) PROVE AbandonedReported'
  BY <1>30 DEF Reported, CodeRaisesBase, Step
<1>31. ASSUME NEW w \in Req, CodeSwallowsTimeout(w) PROVE AbandonedReported'
  BY <1>31 DEF Reported, CodeSwallowsTimeout, Step
<1>32. ASSUME NEW w \in Req, CodeHoldsGIL(w) PROVE AbandonedReported'
  BY <1>32 DEF Reported, CodeHoldsGIL
<1>36. ASSUME NEW w \in Req, CodeReadsLine(w) PROVE AbandonedReported'
  BY <1>36 DEF Reported, CodeReadsLine
<1>33. ASSUME NEW w \in Req, CodeReleasesGIL(w) PROVE AbandonedReported'
  BY <1>33 DEF Reported, CodeReleasesGIL
<1>34. ASSUME NEW w \in Req, CodeKillsServer(w) PROVE AbandonedReported'
  BY <1>34 DEF Reported, CodeKillsServer, Stop
<1>35. CASE UNCHANGED vars
  BY <1>35 DEF Reported, vars
<1> QED
  BY <1>1, <1>2, <1>3, <1>4, <1>5, <1>6, <1>7, <1>8, <1>9, <1>10, <1>11,
     <1>12, <1>13, <1>14, <1>15, <1>16, <1>17, <1>18, <1>19, <1>20, <1>21,
     <1>22, <1>23, <1>24, <1>25, <1>26, <1>27, <1>28, <1>29, <1>30, <1>31,
     <1>32, <1>33, <1>34, <1>35, <1>36
  DEF Next, MainStep, WorkerStep, CodeStep

(***************************************************************************)
(* Isolation.  While nothing has been abandoned, the one thread that may   *)
(* be alive belongs to the request being handled, so between its redirect  *)
(* and its restore nobody else redirects, prints, or replaces the display  *)
(* list.                                                                   *)
(***************************************************************************)
LEMMA CleanAlone ==
  ASSUME TInv, MainFollows, AbandonedReported, Clean, NEW w \in Req, Alive(w)
  PROVE  w = cur /\ pc \in {"wait", "join"}
<1>1. ~Reported(w)
  BY DEF Clean, Reported
<1>2. w = cur
  BY <1>1 DEF AbandonedReported
<1>3. pc # "reply"
  BY <1>2 DEF MainFollows, Clean
<1>4. pc \notin {"read", "stopped"}
  BY <1>2 DEF MainFollows, Req
<1>5. pc # "uv"
  BY <1>2 DEF MainFollows, Alive
<1> QED
  BY <1>2, <1>3, <1>4, <1>5 DEF TInv, TypeOK

\* If nothing has been abandoned after a step, nothing had been before it.
LEMMA CleanBefore == TInv /\ MainFollows /\ [Next]_vars /\ Clean' => Clean
<1> SUFFICES ASSUME TInv, MainFollows, [Next]_vars, Clean' PROVE Clean
  OBVIOUS
<1> USE DEF Clean, MainFollows, NoResponse, Answer
<1>1. ASSUME NEW m \in Methods, Send(m) PROVE Clean
  BY <1>1 DEF Send
<1>2. CASE DropLine
  BY <1>2 DEF DropLine, ReadLine
<1>3. CASE Ping
  BY <1>3 DEF Ping, ReplyTo, ReadLine, Answer
<1>4. CASE UnknownMethod
  BY <1>4 DEF UnknownMethod, ReplyTo, ReadLine, Answer
<1>5. CASE Shutdown
  BY <1>5 DEF Shutdown, ReplyTo, ReadLine, Answer
<1>6. CASE Reset
  BY <1>6 DEF Reset, ReplyTo, ReadLine, Answer
<1>7. CASE InstallNothing
  BY <1>7 DEF InstallNothing, ReplyTo, ReadLine, Answer
<1>8. CASE StartInstall
  BY <1>8 DEF StartInstall, ReadLine
<1>9. CASE StartExec
  BY <1>9 DEF StartExec, ReadLine
<1>10. CASE WaitDone
  BY <1>10 DEF WaitDone, Handled, MainStepTo, Answer
<1>11. CASE WaitTimesOut
  BY <1>11 DEF WaitTimesOut, MainStepTo
<1>12. CASE JoinDone
  BY <1>12 DEF JoinDone, Handled, MainStepTo, Answer
<1>13. CASE JoinTimesOut
  BY <1>13 DEF JoinTimesOut, Handled, MainStepTo, Answer
<1>14. CASE WriteResponse
  <2>1. replies' = Append(replies, resp)
    BY <1>14 DEF WriteResponse, MainStepTo
  <2> QED
    BY <1>14, <2>1, RepliesGrow DEF TInv, WriteResponse, MainStepTo
<1>15. CASE WriteLastResponse
  <2>1. replies' = Append(replies, resp)
    BY <1>15 DEF WriteLastResponse, Stop
  <2> QED
    BY <1>15, <2>1, RepliesGrow DEF TInv, WriteLastResponse, Stop
<1>16. CASE WriteFails
  BY <1>16 DEF WriteFails, Stop
<1>17. ASSUME NEW k \in {"ok", "error"}, UvDone(k) PROVE Clean
  BY <1>17 DEF UvDone, Handled, MainStepTo, Answer
<1>18. ASSUME NEW w \in Req, SaveStreams(w) PROVE Clean
  BY <1>18 DEF SaveStreams, Step
<1>19. ASSUME NEW w \in Req, RedirectStreams(w) PROVE Clean
  BY <1>19 DEF RedirectStreams, Step
<1>20. ASSUME NEW w \in Req, CompileCode(w) PROVE Clean
  BY <1>20 DEF CompileCode, Step
<1>21. ASSUME NEW w \in Req, CollectResult(w) PROVE Clean
  BY <1>21 DEF CollectResult, Step
<1>22. ASSUME NEW w \in Req, RestoreStreams(w) PROVE Clean
  BY <1>22 DEF RestoreStreams, Step
<1>23. ASSUME NEW w \in Req, FinishThread(w) PROVE Clean
  BY <1>23 DEF FinishThread, Step
<1>24. ASSUME NEW w \in Req, RaiseTimeoutError(w) PROVE Clean
  BY <1>24 DEF RaiseTimeoutError, Step
<1>25. ASSUME NEW w \in Req, CodePrints(w) PROVE Clean
  BY <1>25 DEF CodePrints, Step, WriteOut
<1>26. ASSUME NEW w \in Req, CodeShowsValue(w) PROVE Clean
  BY <1>26 DEF CodeShowsValue, Step, WriteOut
<1>27. ASSUME NEW w \in Req, CodeBindsName(w) PROVE Clean
  BY <1>27 DEF CodeBindsName, Step
<1>28. ASSUME NEW w \in Req, CodeReturns(w) PROVE Clean
  BY <1>28 DEF CodeReturns, Step
<1>29. ASSUME NEW w \in Req, CodeRaises(w) PROVE Clean
  BY <1>29 DEF CodeRaises, Step
<1>30. ASSUME NEW w \in Req, CodeRaisesBase(w) PROVE Clean
  BY <1>30 DEF CodeRaisesBase, Step
<1>31. ASSUME NEW w \in Req, CodeSwallowsTimeout(w) PROVE Clean
  BY <1>31 DEF CodeSwallowsTimeout, Step
<1>32. ASSUME NEW w \in Req, CodeHoldsGIL(w) PROVE Clean
  BY <1>32 DEF CodeHoldsGIL
<1>36. ASSUME NEW w \in Req, CodeReadsLine(w) PROVE Clean
  BY <1>36 DEF CodeReadsLine
<1>33. ASSUME NEW w \in Req, CodeReleasesGIL(w) PROVE Clean
  BY <1>33 DEF CodeReleasesGIL
<1>34. ASSUME NEW w \in Req, CodeKillsServer(w) PROVE Clean
  BY <1>34 DEF CodeKillsServer, Stop
<1>35. CASE UNCHANGED vars
  BY <1>35 DEF vars
<1> QED
  BY <1>1, <1>2, <1>3, <1>4, <1>5, <1>6, <1>7, <1>8, <1>9, <1>10, <1>11,
     <1>12, <1>13, <1>14, <1>15, <1>16, <1>17, <1>18, <1>19, <1>20, <1>21,
     <1>22, <1>23, <1>24, <1>25, <1>26, <1>27, <1>28, <1>29, <1>30, <1>31,
     <1>32, <1>33, <1>34, <1>35, <1>36
  DEF Next, MainStep, WorkerStep, CodeStep

\* The process-wide streams are those of thread w and hold its output only.
Captures(w) ==
    /\ sysOut = w /\ sysHook = "capture"
    /\ buf[w] = printed \cap {w} /\ display = shown \cap {w}

\* What thread w has left behind so far, step by step.
Own(w) ==
    /\ worker[w] \in {"started", "redirect", "compile", "run", "collect"} => result[w] = NoResult
    /\ worker[w] \in {"started", "redirect"} => w \notin printed \cup shown /\ buf[w] = {}
    /\ worker[w] = "redirect" => display = {}
    /\ worker[w] \in {"compile", "run", "collect"} => Captures(w)
    /\ \/ result[w] = NoResult
       \/ /\ result[w].out = printed \cap {w}
          /\ result[w].kind = "ok" => result[w].display = shown \cap {w}

Isolated ==
    Clean => /\ \A w \in Req : Own(w)
             /\ noise = {}
             /\ \A b \in ns : b > resetAt
             /\ pc = "reply" => Exact(resp)

\* While nothing is abandoned one thread works at most: a step of it leaves what
\* the others have left behind as it was.
LEMMA OthersStay ==
  ASSUME TypeOK, Isolated, Clean, NEW w \in Req,
         \A v \in Req : Alive(v) => v = w,
         \A v \in Req \ {w} : /\ worker'[v] = worker[v] /\ result'[v] = result[v]
                              /\ printed' \cap {v} = printed \cap {v}
                              /\ shown' \cap {v} = shown \cap {v}
  PROVE  \A v \in Req \ {w} : Own(v)'
<1> TAKE v \in Req \ {w}
<1>1. Own(v) /\ worker[v] \in {"none", "dead"}
  BY DEF Isolated, Alive, TypeOK
<1> QED
  BY <1>1 DEF Own

\* Every step keeps the current request isolated while nothing is abandoned.
LEMMA StepIsolated ==
  TInv /\ Fresh /\ Untouched /\ MainFollows /\ AbandonedReported /\ Isolated /\ [Next]_vars
    => Isolated'
<1> SUFFICES ASSUME TInv, Fresh, Untouched, MainFollows, AbandonedReported, Isolated, [Next]_vars
      PROVE Isolated'
  OBVIOUS
<1>facts. /\ Taken \in Nat /\ Req \subseteq Nat \ {0}
          /\ \A w \in Req : w > Taken => worker[w] = "none"
          /\ resetAt <= Taken /\ resetAt \in Nat
  BY SeenIds DEF Fresh
<1>before. Clean' => Clean
  BY CleanBefore
<1>alone. Clean => \A w \in Req : Alive(w) => w = cur /\ pc \in {"wait", "join"}
  BY CleanAlone
<1> USE
DEF Isolated, Own, Captures, Exact, MainFollows, TInv, TypeOK, AnswersHaveKinds, Alive
<1>1. ASSUME NEW m \in Methods, Send(m) PROVE Isolated'
  BY <1>1, <1>facts, <1>before, <1>alone DEF Send
<1>2. CASE DropLine
  <2>1. Head(stdin).id = Taken + 1 /\ Head(stdin).id \in Req
    BY <1>2, TakeNext, ReadLineType DEF DropLine, Fresh
  <2> QED
    BY <1>2, <1>facts, <1>before, <1>alone, <2>1 DEF DropLine, ReadLine, Untouched
<1>3. CASE Ping
  <2>1. Head(stdin).id = Taken + 1 /\ Head(stdin).id \in Req
    BY <1>3, TakeNext, ReadLineType DEF Ping, ReplyTo, Fresh
  <2> QED
    BY <1>3, <1>facts, <1>before, <1>alone, <2>1
    DEF Ping, ReplyTo, ReadLine, Answer, Untouched
<1>4. CASE UnknownMethod
  <2>1. Head(stdin).id = Taken + 1 /\ Head(stdin).id \in Req
    BY <1>4, TakeNext, ReadLineType DEF UnknownMethod, ReplyTo, Fresh
  <2> QED
    BY <1>4, <1>facts, <1>before, <1>alone, <2>1
    DEF UnknownMethod, ReplyTo, ReadLine, Answer, Untouched
<1>5. CASE Shutdown
  <2>1. Head(stdin).id = Taken + 1 /\ Head(stdin).id \in Req
    BY <1>5, TakeNext, ReadLineType DEF Shutdown, ReplyTo, Fresh
  <2> QED
    BY <1>5, <1>facts, <1>before, <1>alone, <2>1
    DEF Shutdown, ReplyTo, ReadLine, Answer, Untouched
<1>6. CASE Reset
  <2>1. Head(stdin).id = Taken + 1 /\ Head(stdin).id \in Req
    BY <1>6, TakeNext, ReadLineType DEF Reset, ReplyTo, Fresh
  <2> QED
    BY <1>6, <1>facts, <1>before, <1>alone, <2>1
    DEF Reset, ReplyTo, ReadLine, Answer, Untouched
<1>7. CASE InstallNothing
  <2>1. Head(stdin).id = Taken + 1 /\ Head(stdin).id \in Req
    BY <1>7, TakeNext, ReadLineType DEF InstallNothing, ReplyTo, Fresh
  <2> QED
    BY <1>7, <1>facts, <1>before, <1>alone, <2>1
    DEF InstallNothing, ReplyTo, ReadLine, Answer, Untouched
<1>8. CASE StartInstall
  <2>1. Head(stdin).id = Taken + 1 /\ Head(stdin).id \in Req
    BY <1>8, TakeNext, ReadLineType DEF StartInstall, Fresh
  <2> QED
    BY <1>8, <1>facts, <1>before, <1>alone, <2>1 DEF StartInstall, ReadLine, Untouched
<1>9. CASE StartExec
  <2>1. Head(stdin).id = Taken + 1 /\ Head(stdin).id \in Req
    BY <1>9, TakeNext, ReadLineType DEF StartExec, Fresh
  <2> QED
    BY <1>9, <1>facts, <1>before, <1>alone, <2>1 DEF StartExec, ReadLine, Untouched
<1>10. CASE WaitDone
  BY <1>10, <1>facts, <1>before, <1>alone DEF WaitDone, Handled, MainStepTo, Answer
<1>11. CASE WaitTimesOut
  BY <1>11, <1>facts, <1>before, <1>alone DEF WaitTimesOut, MainStepTo
<1>12. CASE JoinDone
  BY <1>12, <1>facts, <1>before, <1>alone DEF JoinDone, Handled, MainStepTo, Answer
<1>13. CASE JoinTimesOut
  BY <1>13, <1>facts, <1>before, <1>alone DEF JoinTimesOut, Handled, MainStepTo, Answer
<1>14. CASE WriteResponse
  BY <1>14, <1>facts, <1>before, <1>alone DEF WriteResponse, MainStepTo
<1>15. CASE WriteLastResponse
  BY <1>15, <1>facts, <1>before, <1>alone DEF WriteLastResponse, Stop
<1>16. CASE WriteFails
  BY <1>16, <1>facts, <1>before, <1>alone DEF WriteFails, Stop
<1>17. ASSUME NEW k \in {"ok", "error"}, UvDone(k) PROVE Isolated'
  BY <1>17, <1>facts, <1>before, <1>alone
  DEF UvDone, Handled, MainStepTo, Answer, Untouched
<1>18. ASSUME NEW w \in Req, SaveStreams(w) PROVE Isolated'
  <2> SUFFICES ASSUME Clean' PROVE Isolated'
    OBVIOUS
  <2>1. /\ Alive(w) /\ w = cur /\ pc \in {"wait", "join"}
        /\ \A v \in Req : Alive(v) => v = w
    BY <1>18, <1>before, <1>alone DEF SaveStreams, Step
  <2>2. \A v \in Req \ {w} : Own(v)'
    BY <1>18, <1>before, <2>1, OthersStay DEF SaveStreams, Step
  <2>3. Own(w)'
    BY <1>18, <1>facts, <1>before, <2>1 DEF SaveStreams, Step
  <2>4. noise' = {} /\ (\A b \in ns' : b > resetAt') /\ pc' # "reply"
    BY <1>18, <1>facts, <1>before, <2>1 DEF SaveStreams, Step
  <2> QED
    BY <2>2, <2>3, <2>4
<1>19. ASSUME NEW w \in Req, RedirectStreams(w) PROVE Isolated'
  <2> SUFFICES ASSUME Clean' PROVE Isolated'
    OBVIOUS
  <2>1. /\ Alive(w) /\ w = cur /\ pc \in {"wait", "join"}
        /\ \A v \in Req : Alive(v) => v = w
    BY <1>19, <1>before, <1>alone DEF RedirectStreams, Step
  <2>2. \A v \in Req \ {w} : Own(v)'
    BY <1>19, <1>before, <2>1, OthersStay DEF RedirectStreams, Step
  <2>3. Own(w)'
    <3>1. /\ result[w] = NoResult /\ w \notin printed \cup shown /\ buf[w] = {}
          /\ display = {}
      BY <1>19, <1>before DEF RedirectStreams, Step
    <3>2. /\ worker'[w] = "compile" /\ sysOut' = w /\ sysHook' = "capture"
          /\ UNCHANGED <<buf, result, display, printed, shown>>
      BY <1>19 DEF RedirectStreams, Step
    <3> QED
      BY <3>1, <3>2
  <2>4. noise' = {} /\ (\A b \in ns' : b > resetAt') /\ pc' # "reply"
    BY <1>19, <1>facts, <1>before, <2>1 DEF RedirectStreams, Step
  <2> QED
    BY <2>2, <2>3, <2>4
<1>20. ASSUME NEW w \in Req, CompileCode(w) PROVE Isolated'
  <2> SUFFICES ASSUME Clean' PROVE Isolated'
    OBVIOUS
  <2>1. /\ Alive(w) /\ w = cur /\ pc \in {"wait", "join"}
        /\ \A v \in Req : Alive(v) => v = w
    BY <1>20, <1>before, <1>alone DEF CompileCode, Step
  <2>2. \A v \in Req \ {w} : Own(v)'
    BY <1>20, <1>before, <2>1, OthersStay DEF CompileCode, Step
  <2>3. Own(w)'
    BY <1>20, <1>facts, <1>before, <2>1 DEF CompileCode, Step
  <2>4. noise' = {} /\ (\A b \in ns' : b > resetAt') /\ pc' # "reply"
    BY <1>20, <1>facts, <1>before, <2>1 DEF CompileCode, Step
  <2> QED
    BY <2>2, <2>3, <2>4
<1>21. ASSUME NEW w \in Req, CollectResult(w) PROVE Isolated'
  <2> SUFFICES ASSUME Clean' PROVE Isolated'
    OBVIOUS
  <2>1. /\ Alive(w) /\ w = cur /\ pc \in {"wait", "join"}
        /\ \A v \in Req : Alive(v) => v = w
    BY <1>21, <1>before, <1>alone DEF CollectResult, Step
  <2>2. \A v \in Req \ {w} : Own(v)'
    BY <1>21, <1>before, <2>1, OthersStay DEF CollectResult, Step
  <2>3. Own(w)'
    BY <1>21, <1>facts, <1>before, <2>1 DEF CollectResult, Step
  <2>4. noise' = {} /\ (\A b \in ns' : b > resetAt') /\ pc' # "reply"
    BY <1>21, <1>facts, <1>before, <2>1 DEF CollectResult, Step
  <2> QED
    BY <2>2, <2>3, <2>4
<1>22. ASSUME NEW w \in Req, RestoreStreams(w) PROVE Isolated'
  <2> SUFFICES ASSUME Clean' PROVE Isolated'
    OBVIOUS
  <2>1. /\ Alive(w) /\ w = cur /\ pc \in {"wait", "join"}
        /\ \A v \in Req : Alive(v) => v = w
    BY <1>22, <1>before, <1>alone DEF RestoreStreams, Step
  <2>2. \A v \in Req \ {w} : Own(v)'
    BY <1>22, <1>before, <2>1, OthersStay DEF RestoreStreams, Step
  <2>3. Own(w)'
    BY <1>22, <1>facts, <1>before, <2>1 DEF RestoreStreams, Step
  <2>4. noise' = {} /\ (\A b \in ns' : b > resetAt') /\ pc' # "reply"
    BY <1>22, <1>facts, <1>before, <2>1 DEF RestoreStreams, Step
  <2> QED
    BY <2>2, <2>3, <2>4
<1>23. ASSUME NEW w \in Req, FinishThread(w) PROVE Isolated'
  BY <1>23, <1>facts, <1>before, <1>alone DEF FinishThread, Step
<1>24. ASSUME NEW w \in Req, RaiseTimeoutError(w) PROVE Isolated'
  <2> SUFFICES ASSUME Clean' PROVE Isolated'
    OBVIOUS
  <2>1. /\ Alive(w) /\ w = cur /\ pc \in {"wait", "join"}
        /\ \A v \in Req : Alive(v) => v = w
    BY <1>24, <1>before, <1>alone DEF RaiseTimeoutError, Step
  <2>2. \A v \in Req \ {w} : Own(v)'
    BY <1>24, <1>before, <2>1, OthersStay DEF RaiseTimeoutError, Step
  <2>3. Own(w)'
    BY <1>24, <1>facts, <1>before, <2>1 DEF RaiseTimeoutError, Step
  <2>4. noise' = {} /\ (\A b \in ns' : b > resetAt') /\ pc' # "reply"
    BY <1>24, <1>facts, <1>before, <2>1 DEF RaiseTimeoutError, Step
  <2> QED
    BY <2>2, <2>3, <2>4
<1>25. ASSUME NEW w \in Req, CodePrints(w) PROVE Isolated'
  <2> SUFFICES ASSUME Clean' PROVE Isolated'
    OBVIOUS
  <2>1. /\ Alive(w) /\ w = cur /\ pc \in {"wait", "join"}
        /\ \A v \in Req : Alive(v) => v = w
    BY <1>25, <1>before, <1>alone DEF CodePrints, Step, WriteOut
  <2>2. \A v \in Req \ {w} : Own(v)'
    BY <1>25, <1>before, <2>1, OthersStay DEF CodePrints, Step, WriteOut
  <2>3. Own(w)'
    BY <1>25, <1>facts, <1>before, <2>1 DEF CodePrints, Step, WriteOut
  <2>4. noise' = {} /\ (\A b \in ns' : b > resetAt') /\ pc' # "reply"
    BY <1>25, <1>facts, <1>before, <2>1 DEF CodePrints, Step, WriteOut
  <2> QED
    BY <2>2, <2>3, <2>4
<1>26. ASSUME NEW w \in Req, CodeShowsValue(w) PROVE Isolated'
  <2> SUFFICES ASSUME Clean' PROVE Isolated'
    OBVIOUS
  <2>1. /\ Alive(w) /\ w = cur /\ pc \in {"wait", "join"}
        /\ \A v \in Req : Alive(v) => v = w
    BY <1>26, <1>before, <1>alone DEF CodeShowsValue, Step, WriteOut
  <2>2. \A v \in Req \ {w} : Own(v)'
    BY <1>26, <1>before, <2>1, OthersStay DEF CodeShowsValue, Step, WriteOut
  <2>3. Own(w)'
    BY <1>26, <1>facts, <1>before, <2>1 DEF CodeShowsValue, Step, WriteOut
  <2>4. noise' = {} /\ (\A b \in ns' : b > resetAt') /\ pc' # "reply"
    BY <1>26, <1>facts, <1>before, <2>1 DEF CodeShowsValue, Step, WriteOut
  <2> QED
    BY <2>2, <2>3, <2>4
<1>27. ASSUME NEW w \in Req, CodeBindsName(w) PROVE Isolated'
  <2> SUFFICES ASSUME Clean' PROVE Isolated'
    OBVIOUS
  <2>1. /\ Alive(w) /\ w = cur /\ pc \in {"wait", "join"}
        /\ \A v \in Req : Alive(v) => v = w
    BY <1>27, <1>before, <1>alone DEF CodeBindsName, Step
  <2>2. \A v \in Req \ {w} : Own(v)'
    BY <1>27, <1>before, <2>1, OthersStay DEF CodeBindsName, Step
  <2>3. Own(w)'
    BY <1>27, <1>facts, <1>before, <2>1 DEF CodeBindsName, Step
  <2>4. noise' = {} /\ (\A b \in ns' : b > resetAt') /\ pc' # "reply"
    BY <1>27, <1>facts, <1>before, <2>1 DEF CodeBindsName, Step
  <2> QED
    BY <2>2, <2>3, <2>4
<1>28. ASSUME NEW w \in Req, CodeReturns(w) PROVE Isolated'
  <2> SUFFICES ASSUME Clean' PROVE Isolated'
    OBVIOUS
  <2>1. /\ Alive(w) /\ w = cur /\ pc \in {"wait", "join"}
        /\ \A v \in Req : Alive(v) => v = w
    BY <1>28, <1>before, <1>alone DEF CodeReturns, Step
  <2>2. \A v \in Req \ {w} : Own(v)'
    BY <1>28, <1>before, <2>1, OthersStay DEF CodeReturns, Step
  <2>3. Own(w)'
    BY <1>28, <1>facts, <1>before, <2>1 DEF CodeReturns, Step
  <2>4. noise' = {} /\ (\A b \in ns' : b > resetAt') /\ pc' # "reply"
    BY <1>28, <1>facts, <1>before, <2>1 DEF CodeReturns, Step
  <2> QED
    BY <2>2, <2>3, <2>4
<1>29. ASSUME NEW w \in Req, CodeRaises(w) PROVE Isolated'
  <2> SUFFICES ASSUME Clean' PROVE Isolated'
    OBVIOUS
  <2>1. /\ Alive(w) /\ w = cur /\ pc \in {"wait", "join"}
        /\ \A v \in Req : Alive(v) => v = w
    BY <1>29, <1>before, <1>alone DEF CodeRaises, Step
  <2>2. \A v \in Req \ {w} : Own(v)'
    BY <1>29, <1>before, <2>1, OthersStay DEF CodeRaises, Step
  <2>3. Own(w)'
    BY <1>29, <1>facts, <1>before, <2>1 DEF CodeRaises, Step
  <2>4. noise' = {} /\ (\A b \in ns' : b > resetAt') /\ pc' # "reply"
    BY <1>29, <1>facts, <1>before, <2>1 DEF CodeRaises, Step
  <2> QED
    BY <2>2, <2>3, <2>4
<1>30. ASSUME NEW w \in Req, CodeRaisesBase(w) PROVE Isolated'
  <2> SUFFICES ASSUME Clean' PROVE Isolated'
    OBVIOUS
  <2>1. /\ Alive(w) /\ w = cur /\ pc \in {"wait", "join"}
        /\ \A v \in Req : Alive(v) => v = w
    BY <1>30, <1>before, <1>alone DEF CodeRaisesBase, Step
  <2>2. \A v \in Req \ {w} : Own(v)'
    BY <1>30, <1>before, <2>1, OthersStay DEF CodeRaisesBase, Step
  <2>3. Own(w)'
    BY <1>30, <1>facts, <1>before, <2>1 DEF CodeRaisesBase, Step
  <2>4. noise' = {} /\ (\A b \in ns' : b > resetAt') /\ pc' # "reply"
    BY <1>30, <1>facts, <1>before, <2>1 DEF CodeRaisesBase, Step
  <2> QED
    BY <2>2, <2>3, <2>4
<1>31. ASSUME NEW w \in Req, CodeSwallowsTimeout(w) PROVE Isolated'
  <2> SUFFICES ASSUME Clean' PROVE Isolated'
    OBVIOUS
  <2>1. /\ Alive(w) /\ w = cur /\ pc \in {"wait", "join"}
        /\ \A v \in Req : Alive(v) => v = w
    BY <1>31, <1>before, <1>alone DEF CodeSwallowsTimeout, Step
  <2>2. \A v \in Req \ {w} : Own(v)'
    BY <1>31, <1>before, <2>1, OthersStay DEF CodeSwallowsTimeout, Step
  <2>3. Own(w)'
    BY <1>31, <1>facts, <1>before, <2>1 DEF CodeSwallowsTimeout, Step
  <2>4. noise' = {} /\ (\A b \in ns' : b > resetAt') /\ pc' # "reply"
    BY <1>31, <1>facts, <1>before, <2>1 DEF CodeSwallowsTimeout, Step
  <2> QED
    BY <2>2, <2>3, <2>4
<1>32. ASSUME NEW w \in Req, CodeHoldsGIL(w) PROVE Isolated'
  BY <1>32, <1>facts, <1>before, <1>alone DEF CodeHoldsGIL
<1>36. ASSUME NEW w \in Req, CodeReadsLine(w) PROVE Isolated'
  BY <1>36, <1>facts, <1>before, <1>alone DEF CodeReadsLine
<1>33. ASSUME NEW w \in Req, CodeReleasesGIL(w) PROVE Isolated'
  BY <1>33, <1>facts, <1>before, <1>alone DEF CodeReleasesGIL
<1>34. ASSUME NEW w \in Req, CodeKillsServer(w) PROVE Isolated'
  BY <1>34, <1>facts, <1>before, <1>alone DEF CodeKillsServer, Stop
<1>35. CASE UNCHANGED vars
  BY <1>35, <1>facts, <1>before, <1>alone DEF vars
<1> QED
  BY <1>1, <1>2, <1>3, <1>4, <1>5, <1>6, <1>7, <1>8, <1>9, <1>10, <1>11,
     <1>12, <1>13, <1>14, <1>15, <1>16, <1>17, <1>18, <1>19, <1>20, <1>21,
     <1>22, <1>23, <1>24, <1>25, <1>26, <1>27, <1>28, <1>29, <1>30, <1>31,
     <1>32, <1>33, <1>34, <1>35, <1>36
  DEF Next, MainStep, WorkerStep, CodeStep

\* Every step keeps the written responses exact.
LEMMA StepOutputExact ==
  TInv /\ RepliedGone /\ Isolated /\ OutputExact /\ [Next]_vars => OutputExact'
<1> SUFFICES ASSUME TInv, RepliedGone, Isolated, OutputExact, [Next]_vars
      PROVE OutputExact'
  OBVIOUS
<1>facts. /\ Len(replies) \in Nat /\ DOMAIN replies = 1..Len(replies)
          /\ \A i \in 1..Len(replies) : replies[i] \in Response
  BY RepliesType DEF TInv, TypeOK
<1> USE DEF OutputExact, Exact, RepliedGone, Alive
<1>1. ASSUME NEW m \in Methods, Send(m) PROVE OutputExact'
  BY <1>1, <1>facts DEF Send
<1>2. CASE DropLine
  BY <1>2, <1>facts DEF DropLine, ReadLine
<1>3. CASE Ping
  BY <1>3, <1>facts DEF Ping, ReplyTo, ReadLine, Answer
<1>4. CASE UnknownMethod
  BY <1>4, <1>facts DEF UnknownMethod, ReplyTo, ReadLine, Answer
<1>5. CASE Shutdown
  BY <1>5, <1>facts DEF Shutdown, ReplyTo, ReadLine, Answer
<1>6. CASE Reset
  BY <1>6, <1>facts DEF Reset, ReplyTo, ReadLine, Answer
<1>7. CASE InstallNothing
  BY <1>7, <1>facts DEF InstallNothing, ReplyTo, ReadLine, Answer
<1>8. CASE StartInstall
  BY <1>8, <1>facts DEF StartInstall, ReadLine
<1>9. CASE StartExec
  BY <1>9, <1>facts DEF StartExec, ReadLine
<1>10. CASE WaitDone
  BY <1>10, <1>facts DEF WaitDone, Handled, MainStepTo, Answer
<1>11. CASE WaitTimesOut
  BY <1>11, <1>facts DEF WaitTimesOut, MainStepTo
<1>12. CASE JoinDone
  BY <1>12, <1>facts DEF JoinDone, Handled, MainStepTo, Answer
<1>13. CASE JoinTimesOut
  BY <1>13, <1>facts DEF JoinTimesOut, Handled, MainStepTo, Answer
<1>14. CASE WriteResponse
  <2>1. /\ replies' = Append(replies, resp) /\ pc = "reply"
        /\ UNCHANGED <<printed, shown>>
    BY <1>14 DEF WriteResponse, MainStepTo
  <2>2. ASSUME NEW i \in 1..Len(replies), \A j \in 1..i : ~replies'[j].corrupted
        PROVE  Exact(replies'[i])
    <3>1. replies'[i] = replies[i] /\ \A j \in 1..i : ~replies[j].corrupted
      BY <1>facts, <2>1, <2>2, RepliesGrow DEF TInv
    <3> QED
      BY <1>facts, <3>1 DEF OutputExact
  <2>3. ASSUME \A j \in 1..(Len(replies) + 1) : ~replies'[j].corrupted
        PROVE  Exact(resp)
    <3>1. Clean
      BY <1>facts, <2>1, <2>3, RepliesGrow DEF Clean, TInv
    <3>2. Exact(resp)
      BY <2>1, <3>1 DEF Isolated
    <3> QED
      BY <3>2
  <2> QED
    BY <1>facts, <2>1, <2>2, <2>3, RepliesGrow DEF TInv
<1>15. CASE WriteLastResponse
  <2>1. /\ replies' = Append(replies, resp) /\ pc = "reply"
        /\ UNCHANGED <<printed, shown>>
    BY <1>15 DEF WriteLastResponse, Stop
  <2>2. ASSUME NEW i \in 1..Len(replies), \A j \in 1..i : ~replies'[j].corrupted
        PROVE  Exact(replies'[i])
    <3>1. replies'[i] = replies[i] /\ \A j \in 1..i : ~replies[j].corrupted
      BY <1>facts, <2>1, <2>2, RepliesGrow DEF TInv
    <3> QED
      BY <1>facts, <3>1 DEF OutputExact
  <2>3. ASSUME \A j \in 1..(Len(replies) + 1) : ~replies'[j].corrupted
        PROVE  Exact(resp)
    <3>1. Clean
      BY <1>facts, <2>1, <2>3, RepliesGrow DEF Clean, TInv
    <3>2. Exact(resp)
      BY <2>1, <3>1 DEF Isolated
    <3> QED
      BY <3>2
  <2> QED
    BY <1>facts, <2>1, <2>2, <2>3, RepliesGrow DEF TInv
<1>16. CASE WriteFails
  BY <1>16, <1>facts DEF WriteFails, Stop
<1>17. ASSUME NEW k \in {"ok", "error"}, UvDone(k) PROVE OutputExact'
  BY <1>17, <1>facts DEF UvDone, Handled, MainStepTo, Answer
<1>18. ASSUME NEW w \in Req, SaveStreams(w) PROVE OutputExact'
  BY <1>18, <1>facts DEF SaveStreams, Step
<1>19. ASSUME NEW w \in Req, RedirectStreams(w) PROVE OutputExact'
  BY <1>19, <1>facts DEF RedirectStreams, Step
<1>20. ASSUME NEW w \in Req, CompileCode(w) PROVE OutputExact'
  BY <1>20, <1>facts DEF CompileCode, Step
<1>21. ASSUME NEW w \in Req, CollectResult(w) PROVE OutputExact'
  BY <1>21, <1>facts DEF CollectResult, Step
<1>22. ASSUME NEW w \in Req, RestoreStreams(w) PROVE OutputExact'
  BY <1>22, <1>facts DEF RestoreStreams, Step
<1>23. ASSUME NEW w \in Req, FinishThread(w) PROVE OutputExact'
  BY <1>23, <1>facts DEF FinishThread, Step
<1>24. ASSUME NEW w \in Req, RaiseTimeoutError(w) PROVE OutputExact'
  BY <1>24, <1>facts DEF RaiseTimeoutError, Step
<1>25. ASSUME NEW w \in Req, CodePrints(w) PROVE OutputExact'
  BY <1>25, <1>facts DEF CodePrints, Step, WriteOut
<1>26. ASSUME NEW w \in Req, CodeShowsValue(w) PROVE OutputExact'
  BY <1>26, <1>facts DEF CodeShowsValue, Step, WriteOut
<1>27. ASSUME NEW w \in Req, CodeBindsName(w) PROVE OutputExact'
  BY <1>27, <1>facts DEF CodeBindsName, Step
<1>28. ASSUME NEW w \in Req, CodeReturns(w) PROVE OutputExact'
  BY <1>28, <1>facts DEF CodeReturns, Step
<1>29. ASSUME NEW w \in Req, CodeRaises(w) PROVE OutputExact'
  BY <1>29, <1>facts DEF CodeRaises, Step
<1>30. ASSUME NEW w \in Req, CodeRaisesBase(w) PROVE OutputExact'
  BY <1>30, <1>facts DEF CodeRaisesBase, Step
<1>31. ASSUME NEW w \in Req, CodeSwallowsTimeout(w) PROVE OutputExact'
  BY <1>31, <1>facts DEF CodeSwallowsTimeout, Step
<1>32. ASSUME NEW w \in Req, CodeHoldsGIL(w) PROVE OutputExact'
  BY <1>32, <1>facts DEF CodeHoldsGIL
<1>36. ASSUME NEW w \in Req, CodeReadsLine(w) PROVE OutputExact'
  BY <1>36, <1>facts DEF CodeReadsLine
<1>33. ASSUME NEW w \in Req, CodeReleasesGIL(w) PROVE OutputExact'
  BY <1>33, <1>facts DEF CodeReleasesGIL
<1>34. ASSUME NEW w \in Req, CodeKillsServer(w) PROVE OutputExact'
  BY <1>34, <1>facts DEF CodeKillsServer, Stop
<1>35. CASE UNCHANGED vars
  BY <1>35, <1>facts DEF vars
<1> QED
  BY <1>1, <1>2, <1>3, <1>4, <1>5, <1>6, <1>7, <1>8, <1>9, <1>10, <1>11,
     <1>12, <1>13, <1>14, <1>15, <1>16, <1>17, <1>18, <1>19, <1>20, <1>21,
     <1>22, <1>23, <1>24, <1>25, <1>26, <1>27, <1>28, <1>29, <1>30, <1>31,
     <1>32, <1>33, <1>34, <1>35, <1>36
  DEF Next, MainStep, WorkerStep, CodeStep

(***************************************************************************)
(* The inductive invariant and the theorems.                               *)
(***************************************************************************)
IInv ==
    /\ TInv /\ Fresh /\ Untouched /\ MainFollows /\ RepliedGone
    /\ AbandonedReported /\ Isolated /\ OutputExact

\* The inductive invariant holds at the start.
LEMMA InitIInv == Init => IInv
<1> SUFFICES ASSUME Init PROVE IInv
  OBVIOUS
<1>1. TInv
  BY InitTInv
<1>2. Fresh /\ RepliedGone /\ OutputExact
  BY DEF Init, Fresh, Numbered, Taken, RepliedGone, OutputExact
<1>3. Untouched /\ AbandonedReported
  BY DEF Init, Untouched, AbandonedReported, Alive, Req
<1>4. MainFollows
  BY DEF Init, MainFollows, Alive, NoResponse, Answer
<1>5. Isolated
  BY DEF Init, Isolated, Own, NoResult
<1> QED
  BY <1>1, <1>2, <1>3, <1>4, <1>5 DEF IInv

\* The inductive invariant survives every step.
LEMMA StepIInv == IInv /\ [Next]_vars => IInv'
  BY StepTInv, StepFresh, StepUntouched, StepMainFollows, StepRepliedGone,
     StepAbandonedReported, StepIsolated, StepOutputExact
  DEF IInv

\* The inductive invariant holds in every reachable state.
LEMMA Inductive == Spec => []IInv
  BY InitIInv, StepIInv, PTL DEF Spec

\* The inductive invariant includes the two properties of isolation.
LEMMA IInvIsolates == IInv => ChannelClean /\ ResetHolds
  BY DEF IInv, Isolated, ChannelClean, ResetHolds

\* The variables keep their types.
THEOREM TypeCorrect == Spec => []TypeOK
<1>1. IInv => TypeOK
  BY DEF IInv, TInv
<1> QED
  BY <1>1, Inductive, PTL

\* execute_with_timeout never leaves a live thread behind without saying so
\* in session_corrupted.
THEOREM AbandonedThreadsReported == Spec => []AbandonedReported
<1>1. IInv => AbandonedReported
  BY DEF IInv
<1> QED
  BY <1>1, Inductive, PTL

\* As long as no thread was abandoned, Namespace.exec returns the output of
\* the code it ran, all of it and nothing else, even where a timeout cut the
\* restoring of the streams of an earlier exec short.
THEOREM OutputIsExact == Spec => []OutputExact
<1>1. IInv => OutputExact
  BY DEF IInv
<1> QED
  BY <1>1, Inductive, PTL

\* As long as no thread was abandoned, print() in user code never reaches the
\* stdout that carries the responses.
THEOREM ChannelStaysClean == Spec => []ChannelClean
  BY IInvIsolates, Inductive, PTL

\* As long as no thread was abandoned, Namespace.reset forgets every earlier
\* binding for good.
THEOREM ResetIsKept == Spec => []ResetHolds
  BY IInvIsolates, Inductive, PTL

(***************************************************************************)
(* Responses come in the order of the requests, and no request gets two.   *)
(***************************************************************************)
RepliesInOrder ==
    \A i, j \in DOMAIN replies : i < j => replies[i].id < replies[j].id

\* The request that is handled comes after those that were answered.
Ordered ==
    /\ RepliesInOrder
    /\ cur # None => \A i \in DOMAIN replies : replies[i].id < cur

\* Every step keeps the order.
LEMMA StepOrdered == IInv /\ Ordered /\ [Next]_vars => Ordered'
<1> SUFFICES ASSUME IInv, Ordered, [Next]_vars PROVE Ordered'
  OBVIOUS
<1>1. /\ TInv /\ Fresh /\ TypeOK /\ MainFollows /\ Len(replies) \in Nat /\ Taken \in Nat
      /\ DOMAIN replies = 1..Len(replies) /\ cur \in Nat
      /\ \A i \in DOMAIN replies : replies[i].id \in Nat /\ replies[i].id <= Taken
  BY SeenIds, RepliesType DEF IInv, TInv, TypeOK, Fresh
<1>2. cur' \in {cur, None} \/ cur' > Taken
  BY <1>1, TakenGrows
<1>3. CASE replies' = replies
  <2>1. cur' \in Nat
    <3>1. TypeOK' /\ Req \subseteq Nat
      BY <1>1, StepTInv, SeenIds DEF TInv
    <3> QED
      BY <3>1 DEF TypeOK
  <2>2. ASSUME NEW i \in DOMAIN replies, cur' # None
        PROVE  replies[i].id < cur'
    <3>1. CASE cur' = cur
      BY <2>2, <3>1 DEF Ordered
    <3>2. CASE cur' > Taken
      BY <1>1, <2>1, <3>2
    <3> QED
      BY <1>2, <2>2, <3>1, <3>2
  <2> QED
    BY <1>3, <2>2 DEF Ordered, RepliesInOrder
<1>4. CASE ReplyWritten
  <2>1. /\ cur' = None /\ resp.id = cur /\ cur # None
        /\ DOMAIN replies' = 1..(Len(replies) + 1)
        /\ \A i \in 1..Len(replies) : replies'[i] = replies[i]
        /\ replies'[Len(replies) + 1] = resp
    BY <1>1, <1>4, RepliesGrow, SeenIds DEF ReplyWritten, Fresh, MainFollows
  <2>2. ASSUME NEW i \in DOMAIN replies', NEW j \in DOMAIN replies', i < j
        PROVE  replies'[i].id < replies'[j].id
    <3>1. i \in 1..Len(replies) /\ (j \in 1..Len(replies) \/ j = Len(replies) + 1)
      BY <1>1, <2>1, <2>2
    <3>2. CASE j \in 1..Len(replies)
      BY <1>1, <2>1, <2>2, <3>1, <3>2 DEF Ordered, RepliesInOrder
    <3>3. CASE j = Len(replies) + 1
      <4>1. replies[i].id < cur
        BY <1>1, <2>1, <3>1 DEF Ordered
      <4> QED
        BY <2>1, <3>1, <3>3, <4>1
    <3> QED
      BY <3>1, <3>2, <3>3
  <2> QED
    BY <2>1, <2>2 DEF Ordered, RepliesInOrder
<1>5. ASSUME NEW m \in Methods, Send(m)
      PROVE  replies' = replies
  BY <1>5 DEF Send
<1> QED
  BY <1>3, <1>4, <1>5, Moves DEF Next, Quiet, LineTaken, Ended, vars

\* SessionServer.run answers requests in the order in which they were sent and
\* none of them twice, also where lines were lost in between.
THEOREM AnswersInOrder == Spec => []RepliesInOrder
<1>1. Init => Ordered
  BY DEF Init, Ordered, RepliesInOrder
<1>2. Ordered => RepliesInOrder
  BY DEF Ordered
<1> QED
  BY <1>1, <1>2, StepOrdered, Inductive, PTL DEF Spec

(***************************************************************************)
(* What a step cannot do, for modules that run the process among others.   *)
(***************************************************************************)

\* A request that gets a number but does not reach the pipe changes nothing.
LEMMA SkipKept ==
  ASSUME IInv, sent < MaxRequests, sent' = sent + 1,
         UNCHANGED <<stdin, mainVars, workerVars, interrupted, globalVars, ns, gil, historyVars>>
  PROVE  IInv' /\ Taken \in Nat /\ Taken' \in Nat /\ Taken' >= Taken
<1>1. /\ TypeOK /\ Numbered /\ Fresh /\ sent \in Nat /\ Taken \in Nat /\ Taken <= sent
      /\ \A i \in 1..Len(stdin) : stdin[i].id \in Nat
      /\ Req \subseteq Nat
  BY TakenIds DEF IInv, TInv, Fresh, Req
<1>2. Taken' \in Nat /\ Taken' >= Taken
  BY <1>1 DEF Taken
<1>3. TInv'
  BY <1>1, ReplAssumption DEF IInv, TInv, TypeOK, AnswersHaveKinds
<1>4. Fresh'
  <2>1. Numbered'
    <3>1. ASSUME NEW i \in 1..Len(stdin)
          PROVE  stdin[i].id <= sent + 1
      <4>1. stdin[i].id \in Nat /\ stdin[i].id <= sent
        BY <1>1 DEF Numbered
      <4> QED
        BY <1>1, <4>1
    <3> QED
      BY <1>1, <3>1 DEF Numbered
  <2>2. /\ cur \in Nat /\ resetAt \in Nat
        /\ \A i \in 1..Len(replies) : replies[i].id \in Nat
    BY SeenIds DEF IInv
  <2> QED
    BY <1>1, <1>2, <2>1, <2>2 DEF Fresh
<1>5. Untouched'
  <2>1. \A w \in Req : w > Taken' \/ w = cur' => w > Taken \/ w = cur
    BY <1>1, <1>2
  <2> QED
    BY <2>1 DEF IInv, Untouched
<1>6. MainFollows' /\ RepliedGone' /\ AbandonedReported'
  BY DEF IInv, MainFollows, RepliedGone, AbandonedReported, Alive, Reported
<1>7. Isolated' /\ OutputExact'
  BY DEF IInv, Isolated, OutputExact, Own, Captures, Clean, Exact
<1> QED
  BY <1>1, <1>2, <1>3, <1>4, <1>5, <1>6, <1>7 DEF IInv

\* A process that has done nothing yet, with nothing in its pipe.
Blank ==
    /\ stdin = <<>>
    /\ pc = "read" /\ cur = None /\ resp = NoResponse /\ shutdown = FALSE
    /\ replies = <<>> /\ noise = {}
    /\ worker = [r \in Req |-> "none"]
    /\ saved = [r \in Req |-> [out |-> None, hook |-> "real"]]
    /\ buf = [r \in Req |-> {}]
    /\ result = [r \in Req |-> NoResult]
    /\ finished = {} /\ interrupted = {}
    /\ sysOut = None /\ sysHook = "real" /\ display = {} /\ ns = {} /\ gil = None

\* A new process can go on with the numbers of the old one.
LEMMA RestartKept ==
  ASSUME IInv, Blank', UNCHANGED <<sent, historyVars>>
  PROVE  IInv' /\ Taken \in Nat /\ Taken' = sent /\ Taken <= sent /\ sent \in Nat
<1> USE DEF Blank
<1>1. /\ TypeOK /\ Fresh /\ sent \in Nat /\ Taken \in Nat /\ Taken <= sent
      /\ Req \subseteq Nat \ {0} /\ resetAt \in Nat /\ resetAt <= sent
  BY TakenIds, SeenIds DEF IInv, TInv, Fresh
<1>2. Taken' = sent
  BY DEF Taken
<1>3. TInv'
  <2>1. saved' \in [Req -> [out: Stream, hook: Hook]] /\ result' \in [Req -> Result]
    BY NoResultType
  <2>2. stdin' \in Seq(Request) /\ replies' \in Seq({a \in Response : a.kind # "none"})
    OBVIOUS
  <2>3. worker' \in [Req -> WorkerPC] /\ buf' \in [Req -> SUBSET Req]
    OBVIOUS
  <2>4. TypeOK'
    BY <1>1, <2>1, <2>2, <2>3, NoResponseType DEF TypeOK, Request
  <2>5. AnswersHaveKinds'
    BY DEF AnswersHaveKinds
  <2> QED
    BY <2>4, <2>5 DEF TInv
<1>4. Fresh'
  BY <1>1, <1>2 DEF Fresh, Numbered
<1>5. Untouched'
  <2> SUFFICES ASSUME NEW w \in Req, w > Taken' \/ w = cur'
               PROVE  w \notin printed /\ w \notin shown
    BY DEF Untouched
  <2>1. w > Taken
    BY <1>1, <1>2
  <2>2. worker[w] = "none"
    BY <1>1, <2>1 DEF Fresh
  <2> QED
    BY <2>1, <2>2 DEF IInv, Untouched
<1>6. MainFollows'
  BY DEF MainFollows, Alive, NoResponse, Answer
<1>7. RepliedGone' /\ AbandonedReported' /\ OutputExact'
  BY DEF RepliedGone, AbandonedReported, OutputExact, Alive
<1>8. Isolated'
  BY DEF Isolated, Own
<1> QED
  BY <1>1, <1>2, <1>3, <1>4, <1>5, <1>6, <1>7, <1>8 DEF IInv

\* A thread that is over, or was never started and will not be, does nothing.
LEMMA DeadStayQuiet ==
  ASSUME TInv, Fresh, MainStep \/ \E w \in Req : WorkerStep(w) \/ CodeStep(w),
         NEW v \in Req, v <= Taken, ~Alive(v)
  PROVE  ~Alive(v)' /\ (v \in printed' <=> v \in printed) /\ (v \in shown' <=> v \in shown)
<1> USE DEF Alive
<1>0. worker \in [Req -> WorkerPC] /\ Taken \in Nat /\ v \in Nat
  BY SeenIds DEF TInv, TypeOK
<1>1. CASE UNCHANGED <<worker, printed, shown>>
  BY <1>1
<1>2. CASE Stop
  BY <1>0, <1>2 DEF Stop
<1>3. CASE DropLine \/ Ping \/ UnknownMethod \/ Shutdown \/ Reset \/ InstallNothing \/ StartInstall
  BY <1>1, <1>3 DEF DropLine, Ping, UnknownMethod, Shutdown, Reset, InstallNothing,
                    StartInstall
<1>4. CASE StartExec
  <2>1. Head(stdin).id = Taken + 1
    BY <1>4, TakeNext DEF StartExec, TInv, Fresh
  <2>2. v # Head(stdin).id
    BY <1>0, <2>1
  <2> QED
    BY <1>0, <1>4, <2>2 DEF StartExec
<1>5. CASE \/ WaitDone \/ WaitTimesOut \/ JoinDone \/ JoinTimesOut \/ WriteResponse
           \/ \E k \in {"ok", "error"} : UvDone(k)
  BY <1>1, <1>5 DEF WaitDone, WaitTimesOut, JoinDone, JoinTimesOut, WriteResponse, UvDone,
                    Handled, MainStepTo
<1>6. CASE WriteLastResponse \/ WriteFails
  BY <1>2, <1>6 DEF WriteLastResponse, WriteFails
<1>7. ASSUME NEW w \in Req, w # v,
             \E q \in WorkerPC : worker' = [worker EXCEPT ![w] = q],
             printed' \in {printed, printed \cup {w}}, shown' \in {shown, shown \cup {w}}
      PROVE  ~Alive(v)' /\ (v \in printed' <=> v \in printed) /\ (v \in shown' <=> v \in shown)
  BY <1>0, <1>7
<1>8. ASSUME NEW w \in Req, WorkerStep(w)
      PROVE  ~Alive(v)' /\ (v \in printed' <=> v \in printed) /\ (v \in shown' <=> v \in shown)
  <2>1. /\ w # v /\ UNCHANGED <<printed, shown>>
        /\ \E q \in WorkerPC : worker' = [worker EXCEPT ![w] = q]
    BY <1>8 DEF WorkerStep, SaveStreams, RedirectStreams, CompileCode, CollectResult,
                RestoreStreams, FinishThread, RaiseTimeoutError, Step
  <2> QED
    BY <1>7, <2>1
<1>9. ASSUME NEW w \in Req, \E q \in WorkerPC : Step(w, "run", q) \/ Step(w, "compile", q),
             printed' \in {printed, printed \cup {w}}, shown' \in {shown, shown \cup {w}}
      PROVE  ~Alive(v)' /\ (v \in printed' <=> v \in printed) /\ (v \in shown' <=> v \in shown)
  <2>1. w # v /\ \E q \in WorkerPC : worker' = [worker EXCEPT ![w] = q]
    BY <1>9 DEF Step
  <2> QED
    BY <1>7, <1>9, <2>1
<1>10. ASSUME NEW w \in Req, \/ CodePrints(w) \/ CodeShowsValue(w) \/ CodeBindsName(w)
                             \/ CodeReturns(w) \/ CodeRaises(w) \/ CodeRaisesBase(w)
                             \/ CodeSwallowsTimeout(w)
       PROVE  ~Alive(v)' /\ (v \in printed' <=> v \in printed) /\ (v \in shown' <=> v \in shown)
  <2>1. \E q \in WorkerPC : Step(w, "run", q) \/ Step(w, "compile", q)
    BY <1>10 DEF CodePrints, CodeShowsValue, CodeBindsName, CodeReturns, CodeRaises,
                 CodeRaisesBase, CodeSwallowsTimeout
  <2>2. printed' \in {printed, printed \cup {w}} /\ shown' \in {shown, shown \cup {w}}
    BY <1>10 DEF CodePrints, CodeShowsValue, CodeBindsName, CodeReturns, CodeRaises,
                 CodeRaisesBase, CodeSwallowsTimeout
  <2> QED
    BY <1>9, <2>1, <2>2
<1>11. ASSUME NEW w \in Req, CodeReadsLine(w) \/ CodeHoldsGIL(w) \/ CodeReleasesGIL(w)
       PROVE  UNCHANGED <<worker, printed, shown>>
  BY <1>11 DEF CodeReadsLine, CodeHoldsGIL, CodeReleasesGIL
<1>12. ASSUME NEW w \in Req, CodeKillsServer(w)
       PROVE  Stop
  BY <1>12 DEF CodeKillsServer
<1> QED
  BY <1>1, <1>2, <1>3, <1>4, <1>5, <1>6, <1>8, <1>10, <1>11, <1>12 DEF MainStep, CodeStep

\* Nothing but a reset unbinds names in a process that goes on.
LEMMA NamesStay ==
  ASSUME MainStep \/ \E w \in Req : WorkerStep(w) \/ CodeStep(w), ~Reset, pc' # "stopped"
  PROVE  pc # "stopped" /\ ns \subseteq ns'
<1>1. CASE MainStep
  BY <1>1 DEF MainStep, DropLine, Ping, UnknownMethod, Shutdown, InstallNothing,
              StartInstall, StartExec, UvDone, WaitDone, WaitTimesOut, JoinDone,
              JoinTimesOut, WriteResponse, WriteLastResponse, WriteFails, Handled,
              MainStepTo, Stop, ReplyTo, ReadLine
<1>2. ASSUME NEW w \in Req, WorkerStep(w)
      PROVE  pc' = pc /\ ns \subseteq ns'
  BY <1>2 DEF WorkerStep, SaveStreams, RedirectStreams, CompileCode, CollectResult,
              RestoreStreams, FinishThread, RaiseTimeoutError, Step, mainVars
<1>3. ASSUME NEW w \in Req, CodeStep(w)
      PROVE  pc' = pc /\ ns \subseteq ns'
  BY <1>3 DEF CodeStep, CodePrints, CodeShowsValue, CodeBindsName, CodeReadsLine, CodeReturns,
              CodeRaises, CodeRaisesBase, CodeSwallowsTimeout, CodeHoldsGIL,
              CodeReleasesGIL, CodeKillsServer, Stop, Step, mainVars
<1> QED
  BY <1>1, <1>2, <1>3

\* A container that is stopped is a process that has ended.
LEMMA StopKept ==
  ASSUME IInv, Stop, UNCHANGED <<resp, replies>>
  PROVE  IInv' /\ Taken \in Nat /\ Taken' \in Nat /\ Taken' >= Taken
<1>1. /\ TypeOK /\ Numbered /\ Fresh /\ sent \in Nat /\ Taken \in Nat /\ Taken <= sent
      /\ Req \subseteq Nat \ {0} /\ resetAt \in Nat
  BY TakenIds, SeenIds DEF IInv, TInv, Fresh
<1>2. Taken' = Taken
  BY DEF Stop, Taken
<1>3. \A w \in Req : ~Alive(w)' /\ (worker'[w] = "none" <=> worker[w] = "none")
  BY <1>1 DEF Stop, Alive
<1>4. TInv'
  BY DEF Stop, IInv, TInv, TypeOK, AnswersHaveKinds, MainPC, WorkerPC
<1>5. Fresh'
  BY <1>1, <1>2, <1>3 DEF Stop, IInv, Fresh, Numbered
<1>6. Untouched'
  BY <1>1, <1>2, <1>3 DEF Stop, IInv, Untouched
<1>7. MainFollows'
  <2>1. \A w \in finished : worker'[w] = "dead"
    BY <1>1 DEF Stop, IInv, MainFollows, TypeOK
  <2> QED
    BY <1>3, <2>1 DEF Stop, IInv, MainFollows
<1>8. RepliedGone' /\ AbandonedReported'
  BY <1>1, <1>3 DEF Stop, IInv, RepliedGone, AbandonedReported
<1>9. Isolated' /\ OutputExact'
  BY <1>3 DEF Stop, IInv, Isolated, OutputExact, Own, Captures, Clean, Exact
<1> QED
  BY <1>1, <1>2, <1>4, <1>5, <1>6, <1>7, <1>8, <1>9 DEF IInv

(***************************************************************************)
(* The process implements RpcServer, abandoned threads or not.  That every *)
(* request is eventually answered is left to TLC.                          *)
(***************************************************************************)
LEMMA AnsweredGrows ==
  ASSUME TypeOK, replies' = Append(replies, resp)
  PROVE  [i \in DOMAIN replies' |-> replies'[i].id]
           = Append([i \in DOMAIN replies |-> replies[i].id], resp.id)
<1> DEFINE ids == [i \in DOMAIN replies |-> replies[i].id]
<1>1. /\ Len(replies) \in Nat /\ DOMAIN replies = 1..Len(replies)
      /\ \A i \in 1..Len(replies) : replies[i].id \in Nat
  BY RepliesType DEF TypeOK
<1>2. ids \in Seq(Nat) /\ Len(ids) = Len(replies)
  BY <1>1
<1>3. /\ Append(ids, resp.id) = [i \in 1..(Len(replies) + 1) |->
            IF i \in 1..Len(replies) THEN ids[i] ELSE resp.id]
  BY <1>1, <1>2
<1>4. DOMAIN replies' = 1..(Len(replies) + 1)
  BY RepliesGrow
<1>5. ASSUME NEW i \in 1..(Len(replies) + 1)
      PROVE  replies'[i].id = IF i \in 1..Len(replies) THEN ids[i] ELSE resp.id
  BY <1>1, <1>5, RepliesGrow
<1> HIDE DEF ids
<1>6. [i \in DOMAIN replies' |-> replies'[i].id] = Append(ids, resp.id)
  BY <1>3, <1>4, <1>5
<1> QED
  BY <1>6 DEF ids

\* Every step is a step or a stutter of the abstract server.
LEMMA StepServes ==
  TInv /\ Fresh /\ MainFollows /\ [Next]_vars => [Protocol!Next]_(Protocol!vars)
<1> SUFFICES ASSUME TInv, Fresh, MainFollows, [Next]_vars
      PROVE [Protocol!Next]_(Protocol!vars)
  OBVIOUS
<1> USE DEF Protocol!Next, Protocol!vars
<1>1. ASSUME NEW m \in Methods, Send(m) PROVE [Protocol!Next]_(Protocol!vars)
  BY <1>1 DEF Send, Protocol!Request
<1>2. CASE DropLine
  <2>1. pc = "read" /\ cur = None /\ shutdown = FALSE
    BY <1>2 DEF DropLine, ReadLine, MainFollows, TInv, TypeOK
  <2>2. UNCHANGED <<cur, shutdown, pc>>
    BY <1>2, <2>1 DEF DropLine, ReadLine
  <2>3. Head(stdin).method = "garbled" /\ stdin # <<>> /\ stdin' = Tail(stdin)
        /\ UNCHANGED <<sent, replies>>
    BY <1>2 DEF DropLine, ReadLine
  <2> QED
    BY <2>1, <2>2, <2>3 DEF Protocol!Take
<1>3. CASE Ping
  <2>1. pc = "read" /\ cur = None /\ shutdown = FALSE
    BY <1>3 DEF Ping, ReplyTo, ReadLine, Answer, MainFollows, TInv, TypeOK
  <2>2. cur' = Head(stdin).id /\ pc' # "stopped" /\ shutdown' = (Head(stdin).method = "shutdown")
    BY <1>3, <2>1 DEF Ping, ReplyTo, ReadLine, Answer
  <2>3. Head(stdin).method # "garbled" /\ stdin # <<>> /\ stdin' = Tail(stdin)
        /\ UNCHANGED <<sent, replies>>
    BY <1>3 DEF Ping, ReplyTo, ReadLine, Answer
  <2> QED
    BY <2>1, <2>2, <2>3 DEF Protocol!Take
<1>4. CASE UnknownMethod
  <2>1. pc = "read" /\ cur = None /\ shutdown = FALSE
    BY <1>4 DEF UnknownMethod, ReplyTo, ReadLine, Answer, MainFollows, TInv, TypeOK
  <2>2. cur' = Head(stdin).id /\ pc' # "stopped" /\ shutdown' = (Head(stdin).method = "shutdown")
    BY <1>4, <2>1 DEF UnknownMethod, ReplyTo, ReadLine, Answer
  <2>3. Head(stdin).method # "garbled" /\ stdin # <<>> /\ stdin' = Tail(stdin)
        /\ UNCHANGED <<sent, replies>>
    BY <1>4 DEF UnknownMethod, ReplyTo, ReadLine, Answer
  <2> QED
    BY <2>1, <2>2, <2>3 DEF Protocol!Take
<1>5. CASE Shutdown
  <2>1. pc = "read" /\ cur = None /\ shutdown = FALSE
    BY <1>5 DEF Shutdown, ReplyTo, ReadLine, Answer, MainFollows, TInv, TypeOK
  <2>2. cur' = Head(stdin).id /\ pc' # "stopped" /\ shutdown' = (Head(stdin).method = "shutdown")
    BY <1>5, <2>1 DEF Shutdown, ReplyTo, ReadLine, Answer
  <2>3. Head(stdin).method # "garbled" /\ stdin # <<>> /\ stdin' = Tail(stdin)
        /\ UNCHANGED <<sent, replies>>
    BY <1>5 DEF Shutdown, ReplyTo, ReadLine, Answer
  <2> QED
    BY <2>1, <2>2, <2>3 DEF Protocol!Take
<1>6. CASE Reset
  <2>1. pc = "read" /\ cur = None /\ shutdown = FALSE
    BY <1>6 DEF Reset, ReplyTo, ReadLine, Answer, MainFollows, TInv, TypeOK
  <2>2. cur' = Head(stdin).id /\ pc' # "stopped" /\ shutdown' = (Head(stdin).method = "shutdown")
    BY <1>6, <2>1 DEF Reset, ReplyTo, ReadLine, Answer
  <2>3. Head(stdin).method # "garbled" /\ stdin # <<>> /\ stdin' = Tail(stdin)
        /\ UNCHANGED <<sent, replies>>
    BY <1>6 DEF Reset, ReplyTo, ReadLine, Answer
  <2> QED
    BY <2>1, <2>2, <2>3 DEF Protocol!Take
<1>7. CASE InstallNothing
  <2>1. pc = "read" /\ cur = None /\ shutdown = FALSE
    BY <1>7 DEF InstallNothing, ReplyTo, ReadLine, Answer, MainFollows, TInv, TypeOK
  <2>2. cur' = Head(stdin).id /\ pc' # "stopped" /\ shutdown' = (Head(stdin).method = "shutdown")
    BY <1>7, <2>1 DEF InstallNothing, ReplyTo, ReadLine, Answer
  <2>3. Head(stdin).method # "garbled" /\ stdin # <<>> /\ stdin' = Tail(stdin)
        /\ UNCHANGED <<sent, replies>>
    BY <1>7 DEF InstallNothing, ReplyTo, ReadLine, Answer
  <2> QED
    BY <2>1, <2>2, <2>3 DEF Protocol!Take
<1>8. CASE StartInstall
  <2>1. pc = "read" /\ cur = None /\ shutdown = FALSE
    BY <1>8 DEF StartInstall, ReadLine, MainFollows, TInv, TypeOK
  <2>2. cur' = Head(stdin).id /\ pc' # "stopped" /\ shutdown' = (Head(stdin).method = "shutdown")
    BY <1>8, <2>1 DEF StartInstall, ReadLine
  <2>3. Head(stdin).method # "garbled" /\ stdin # <<>> /\ stdin' = Tail(stdin)
        /\ UNCHANGED <<sent, replies>>
    BY <1>8 DEF StartInstall, ReadLine
  <2> QED
    BY <2>1, <2>2, <2>3 DEF Protocol!Take
<1>9. CASE StartExec
  <2>1. pc = "read" /\ cur = None /\ shutdown = FALSE
    BY <1>9 DEF StartExec, ReadLine, MainFollows, TInv, TypeOK
  <2>2. cur' = Head(stdin).id /\ pc' # "stopped" /\ shutdown' = (Head(stdin).method = "shutdown")
    BY <1>9, <2>1 DEF StartExec, ReadLine
  <2>3. Head(stdin).method # "garbled" /\ stdin # <<>> /\ stdin' = Tail(stdin)
        /\ UNCHANGED <<sent, replies>>
    BY <1>9 DEF StartExec, ReadLine
  <2> QED
    BY <2>1, <2>2, <2>3 DEF Protocol!Take
<1>10. CASE WaitDone
  BY <1>10 DEF WaitDone, Handled, MainStepTo, Answer
<1>11. CASE WaitTimesOut
  BY <1>11 DEF WaitTimesOut, MainStepTo
<1>12. CASE JoinDone
  BY <1>12 DEF JoinDone, Handled, MainStepTo, Answer
<1>13. CASE JoinTimesOut
  BY <1>13 DEF JoinTimesOut, Handled, MainStepTo, Answer
<1>14. CASE WriteResponse
  <2>1. replies' = Append(replies, resp) /\ pc = "reply" /\ resp.id = cur /\ cur # None
    BY <1>14 DEF WriteResponse, MainStepTo, Fresh, MainFollows, Req
  <2>2. cur' = None /\ (pc' # "stopped") = ~shutdown /\ UNCHANGED <<sent, stdin, shutdown>>
    BY <1>14 DEF WriteResponse, MainStepTo
  <2> QED
    BY <2>1, <2>2, AnsweredGrows DEF Protocol!Respond, TInv
<1>15. CASE WriteLastResponse
  <2>1. replies' = Append(replies, resp) /\ pc = "reply" /\ resp.id = cur /\ cur # None
    BY <1>15 DEF WriteLastResponse, Stop, Fresh, MainFollows, Req
  <2>2. cur' = None /\ (pc' # "stopped") = ~shutdown /\ UNCHANGED <<sent, stdin, shutdown>>
    BY <1>15 DEF WriteLastResponse, Stop
  <2> QED
    BY <2>1, <2>2, AnsweredGrows DEF Protocol!Respond, TInv
<1>16. CASE WriteFails
  BY <1>16 DEF WriteFails, Stop, Protocol!Die, MainFollows, Alive
<1>17. ASSUME NEW k \in {"ok", "error"}, UvDone(k) PROVE [Protocol!Next]_(Protocol!vars)
  BY <1>17 DEF UvDone, Handled, MainStepTo, Answer
<1>18. ASSUME NEW w \in Req, SaveStreams(w) PROVE [Protocol!Next]_(Protocol!vars)
  BY <1>18 DEF SaveStreams, Step
<1>19. ASSUME NEW w \in Req, RedirectStreams(w) PROVE [Protocol!Next]_(Protocol!vars)
  BY <1>19 DEF RedirectStreams, Step
<1>20. ASSUME NEW w \in Req, CompileCode(w) PROVE [Protocol!Next]_(Protocol!vars)
  BY <1>20 DEF CompileCode, Step
<1>21. ASSUME NEW w \in Req, CollectResult(w) PROVE [Protocol!Next]_(Protocol!vars)
  BY <1>21 DEF CollectResult, Step
<1>22. ASSUME NEW w \in Req, RestoreStreams(w) PROVE [Protocol!Next]_(Protocol!vars)
  BY <1>22 DEF RestoreStreams, Step
<1>23. ASSUME NEW w \in Req, FinishThread(w) PROVE [Protocol!Next]_(Protocol!vars)
  BY <1>23 DEF FinishThread, Step
<1>24. ASSUME NEW w \in Req, RaiseTimeoutError(w) PROVE [Protocol!Next]_(Protocol!vars)
  BY <1>24 DEF RaiseTimeoutError, Step
<1>25. ASSUME NEW w \in Req, CodePrints(w) PROVE [Protocol!Next]_(Protocol!vars)
  BY <1>25 DEF CodePrints, Step, WriteOut
<1>26. ASSUME NEW w \in Req, CodeShowsValue(w) PROVE [Protocol!Next]_(Protocol!vars)
  BY <1>26 DEF CodeShowsValue, Step, WriteOut
<1>27. ASSUME NEW w \in Req, CodeBindsName(w) PROVE [Protocol!Next]_(Protocol!vars)
  BY <1>27 DEF CodeBindsName, Step
<1>28. ASSUME NEW w \in Req, CodeReturns(w) PROVE [Protocol!Next]_(Protocol!vars)
  BY <1>28 DEF CodeReturns, Step
<1>29. ASSUME NEW w \in Req, CodeRaises(w) PROVE [Protocol!Next]_(Protocol!vars)
  BY <1>29 DEF CodeRaises, Step
<1>30. ASSUME NEW w \in Req, CodeRaisesBase(w) PROVE [Protocol!Next]_(Protocol!vars)
  BY <1>30 DEF CodeRaisesBase, Step
<1>31. ASSUME NEW w \in Req, CodeSwallowsTimeout(w) PROVE [Protocol!Next]_(Protocol!vars)
  BY <1>31 DEF CodeSwallowsTimeout, Step
<1>32. ASSUME NEW w \in Req, CodeHoldsGIL(w) PROVE [Protocol!Next]_(Protocol!vars)
  BY <1>32 DEF CodeHoldsGIL
<1>36. ASSUME NEW w \in Req, CodeReadsLine(w) PROVE [Protocol!Next]_(Protocol!vars)
  <2>1. pc # "stopped" /\ UNCHANGED pc
    BY <1>36 DEF CodeReadsLine, MainFollows, Alive
  <2> QED
    BY <1>36, <2>1 DEF CodeReadsLine, Protocol!Lose
<1>33. ASSUME NEW w \in Req, CodeReleasesGIL(w) PROVE [Protocol!Next]_(Protocol!vars)
  BY <1>33 DEF CodeReleasesGIL
<1>34. ASSUME NEW w \in Req, CodeKillsServer(w) PROVE [Protocol!Next]_(Protocol!vars)
  BY <1>34 DEF CodeKillsServer, Stop, Protocol!Die, MainFollows, Alive
<1>35. CASE UNCHANGED vars
  BY <1>35 DEF vars
<1> QED
  BY <1>1, <1>2, <1>3, <1>4, <1>5, <1>6, <1>7, <1>8, <1>9, <1>10, <1>11,
     <1>12, <1>13, <1>14, <1>15, <1>16, <1>17, <1>18, <1>19, <1>20, <1>21,
     <1>22, <1>23, <1>24, <1>25, <1>26, <1>27, <1>28, <1>29, <1>30, <1>31,
     <1>32, <1>33, <1>34, <1>35, <1>36
  DEF Next, MainStep, WorkerStep, CodeStep

\* The initial states are those of the abstract server.
LEMMA InitServes == Init => Protocol!Init
  BY DEF Init, Protocol!Init

\* SessionServer.run takes requests in order, answers each of them once before
\* it takes the next, and answers none after a shutdown.
THEOREM ServesSafely == Spec => Protocol!Init /\ [][Protocol!Next]_(Protocol!vars)
<1>1. IInv /\ [Next]_vars => [Protocol!Next]_(Protocol!vars)
  BY StepServes DEF IInv
<1> QED
  BY <1>1, InitServes, Inductive, PTL DEF Spec
=============================================================================
