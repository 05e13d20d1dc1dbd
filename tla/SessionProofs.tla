---------------------------- MODULE SessionProofs ----------------------------
(***************************************************************************)
(* Theorems about module Session, for every number of calls, every set of  *)
(* timeouts and every fault:                                               *)
(*                                                                         *)
(*   TypeCorrect          the type invariant;                              *)
(*   NetworkIsClosed      however an install ends, its network is closed;  *)
(*   ResultsAreDrained    a call that returned a result has left nothing   *)
(*                        behind in the container;                         *)
(*   CallsAreServed       Session implements ToolCalls;                    *)
(*   ShortCallsAreSafe    clients whose timeouts fit into the socket's     *)
(*                        never use a container with an abandoned thread.  *)
(*                                                                         *)
(* ResultsAreDrained rests on the order of the ids: requests queue up in   *)
(* the order of the calls, so the response with the id of the last call    *)
(* is the last thing the container does.  CallsAreServed adds that what is *)
(* in the container has not ended yet, and a response means an end.        *)
(* ShortCallsAreSafe rests on the two clocks, the host's and the           *)
(* container's, running together.                                          *)
(***************************************************************************)
EXTENDS Session, TLAPS

(***************************************************************************)
(* Types                                                                   *)
(***************************************************************************)

TInv ==
    /\ TypeOK
    /\ hpc # "idle" => call \in Request

\* What an execution or an install answers is the request PID 1 handles.
LEMMA BusyIsRequest ==
    ASSUME TypeOK, busy.tool \in AllTools
    PROVE  busy \in Request /\ busy.id \in CallId
  BY DEF TypeOK, Request, NoRequest, AllTools

\* The frames a response arrives as are well-typed.
LEMMA ArrivalsTyped ==
    ASSUME TypeOK, NEW f \in Frame, NEW fs \in Arrivals(f)
    PROVE  fs \in Seq(Frame)
  <1>1. Garbled \in Frame
    BY DEF Garbled, Frame
  <1>2. frames \in Seq(Frame)
    BY DEF TypeOK
  <1>3. CASE fs \in {Append(frames, f), Append(frames, Garbled)}
    BY <1>1, <1>2, <1>3
  <1>4. ASSUME NEW i \in {Len(frames)} \ {0}, fs = [frames EXCEPT ![i] = Garbled]
        PROVE  fs \in Seq(Frame)
    BY <1>1, <1>2, <1>4
  <1> QED
    BY <1>3, <1>4 DEF Arrivals

\* Output that nobody asked for is the response to no call.
LEMMA StraySteps ==
    ASSUME TypeOK, StrayOutput
    PROVE  /\ UNCHANGED <<calls, hpc, call, timer, report, containerVars, network>>
           /\ alive /\ hpc = "recv" /\ frames' \in Seq(Frame)
           /\ \/ "stderr" \in Faults /\ frames' = Append(frames, Stderr)
              \/ "garble" \in Faults /\ frames' = Append(frames, Garbled)
           /\ Stderr.id = 0 /\ Garbled.id = 0
           /\ \A i \in DOMAIN frames' :
                  \/ i \in DOMAIN frames /\ frames'[i] = frames[i]
                  \/ frames'[i].id = 0
  <1>1. Garbled \in Frame /\ Stderr \in Frame /\ Stderr.id = 0 /\ Garbled.id = 0
    BY DEF Garbled, Stderr, Frame
  <1>2. frames \in Seq(Frame)
    BY DEF TypeOK
  <1>3. PICK f \in {Stderr, Garbled} : frames' = Append(frames, f)
    BY DEF StrayOutput
  <1>4. /\ frames' \in Seq(Frame)
        /\ \A i \in DOMAIN frames' :
               \/ i \in DOMAIN frames /\ frames'[i] = frames[i]
               \/ frames'[i] = f
    BY <1>1, <1>2, <1>3
  <1> QED
    BY <1>1, <1>4 DEF StrayOutput

\* A container that was just made, or is gone, is well-typed.
LEMMA BlankContainer ==
    /\ <<>> \in Seq(Request) /\ <<>> \in Seq(Frame)
    /\ NoRequest \in Request \cup {NoRequest}
    /\ 0 \in Nat
  OBVIOUS

\* The type invariant holds at the start.
LEMMA TypesInitially == Init => TInv
  <1> SUFFICES ASSUME Init PROVE TInv
    OBVIOUS
  <1>1. report \in [id: 0..MaxCalls, kind: {"none", "result", "error"}]
    BY SessionAssumption DEF Init
  <1>2. outcome \in [CallId -> {"none", "done", "failed", "abandoned"}]
    BY DEF Init
  <1>3. calls \in 0..MaxCalls /\ timer \in 0..RecvTimeout /\ hpc \in HostPC
    BY SessionAssumption DEF Init, HostPC
  <1>4. frames \in Seq(Frame) /\ queue \in Seq(Request)
    BY BlankContainer DEF Init
  <1>5. call \in Request \cup {NoRequest} /\ busy \in Request \cup {NoRequest}
    BY DEF Init
  <1> QED
    BY <1>1, <1>2, <1>3, <1>4, <1>5 DEF Init, TInv, TypeOK, Network

\* Every step keeps it.
LEMMA TypesKept == TInv /\ [Next]_vars => TInv'
  <1> SUFFICES ASSUME TInv, [Next]_vars
               PROVE  TInv'
    OBVIOUS
  <1> USE SessionAssumption
  <1>facts. TypeOK /\ (hpc # "idle" => call \in Request)
    BY DEF TInv
  <1>1. ASSUME NEW tool \in AllTools, NEW t \in Timeouts \cup {0},
               NEW p \in {"send", "connect"}, Begin(tool, t, p)
        PROVE  TInv'
    BY <1>facts, <1>1 DEF Begin, TInv, TypeOK, HostPC, Request, CallId, containerVars
  <1>2. ASSUME NEW t \in Timeouts, ExecutePython(t)
        PROVE  TInv'
    BY <1>1, <1>2 DEF ExecutePython, AllTools
  <1>3. CASE InstallPackages
    BY <1>1, <1>3 DEF InstallPackages, AllTools
  <1>4. CASE NetworkConnect
    BY <1>facts, <1>4 DEF NetworkConnect, TInv, TypeOK, HostPC, Network, containerVars
  <1>5. ASSUME NEW p \in HostPC, NEW k \in {"result", "error"}, EndRpc(p, k),
               hpc # "idle", UNCHANGED <<containerVars, network>>
        PROVE  TInv'
    BY <1>facts, <1>5 DEF EndRpc, TInv, TypeOK, Request, CallId, containerVars
  <1>6. CASE NetworkConnectFails
    <2>1. network' \in Network
      BY <1>facts, <1>6 DEF NetworkConnectFails, TypeOK, Network
    <2> QED
      BY <1>facts, <1>6, <2>1
      DEF NetworkConnectFails, EndRpc, TInv, TypeOK, HostPC, Request, CallId, containerVars
  <1>7. CASE SendRequest
    <2>1. queue' \in Seq(Request)
      BY <1>facts, <1>7 DEF SendRequest, TypeOK
    <2>2. frames' \in Seq(Frame) /\ torn' \in BOOLEAN
      BY <1>7, BlankContainer DEF SendRequest
    <2> QED
      BY <1>facts, <1>7, <2>1, <2>2 DEF SendRequest, TInv, TypeOK, HostPC
  <1>21. CASE SendFails
    <2>1. torn' \in BOOLEAN /\ frames' \in Seq(Frame) /\ hpc' \in HostPC
      BY <1>facts, <1>21, BlankContainer DEF SendFails, AfterError, EndRpc, TypeOK, HostPC
    <2>2. report' \in [id: 0..MaxCalls, kind: {"none", "result", "error"}]
      BY <1>facts, <1>21 DEF SendFails, EndRpc, Request, CallId
    <2> QED
      BY <1>facts, <1>21, <2>1, <2>2 DEF SendFails, EndRpc, TInv, TypeOK
  <1>8. CASE AttachFails \/ FrameRaises \/ RecvTimesOut \/ ConnectionCloses
    BY <1>5, <1>8
    DEF AttachFails, FrameRaises, RecvTimesOut, ConnectionCloses, AfterError, HostPC
  <1>9. CASE ReadReply
    BY <1>5, <1>9 DEF ReadReply, Accept, HostPC
  <1>10. CASE SkipFrame
    BY <1>facts, <1>10 DEF SkipFrame, TInv, TypeOK, containerVars
  <1>11. CASE NetworkDisconnect
    BY <1>facts, <1>11 DEF NetworkDisconnect, TInv, TypeOK, HostPC, Network, containerVars
  <1>12. CASE NetworkDisconnectFails
    BY <1>facts, <1>12
    DEF NetworkDisconnectFails, EndRpc, TInv, TypeOK, HostPC, Network, Request, CallId,
        containerVars
  <1>13. CASE RestartSession
    BY <1>facts, <1>13, BlankContainer DEF RestartSession, TInv, TypeOK, HostPC, Network
  <1>14. CASE RestartFails
    <2>1. call.id \in 0..MaxCalls
      BY <1>facts, <1>14 DEF RestartFails, Request, CallId
    <2>2. report' \in [id: 0..MaxCalls, kind: {"none", "result", "error"}]
      BY <2>1, <1>14 DEF RestartFails, EndRpc
    <2>3. queue' \in Seq(Request) /\ frames' \in Seq(Frame)
      BY <1>facts, <1>14, BlankContainer DEF RestartFails, EndRpc, TypeOK, containerVars
    <2>4. /\ busy' \in Request \cup {NoRequest} /\ age' \in Nat /\ torn' \in BOOLEAN
          /\ abandoned' \in BOOLEAN /\ alive' \in BOOLEAN
          /\ outcome' \in [CallId -> {"none", "done", "failed", "abandoned"}]
      <3>1. CASE UNCHANGED containerVars
        BY <1>facts, <3>1 DEF TypeOK, containerVars
      <3>2. CASE alive' = FALSE /\ abandoned' = FALSE /\ busy' = NoRequest /\ age' = 0
                 /\ torn' = FALSE
                 /\ outcome' = outcome
        BY <1>facts, <3>2 DEF TypeOK
      <3> QED
        BY <1>14, <3>1, <3>2 DEF RestartFails
    <2>5. hpc' = "idle" /\ calls' = calls /\ call' = call /\ timer' = 0 /\ network' = network
      BY <1>14 DEF RestartFails, EndRpc
    <2> QED
      BY <1>facts, <2>2, <2>3, <2>4, <2>5 DEF TInv, TypeOK, HostPC
  <1>15. CASE TakeRequest
    BY <1>facts, <1>15 DEF TakeRequest, TInv, TypeOK, hostVars
  <1>22. CASE CodeReadsRequest
    BY <1>facts, <1>22 DEF CodeReadsRequest, TInv, TypeOK, hostVars
  <1>16. ASSUME NEW c \in BOOLEAN, NEW how \in {"done", "failed", "abandoned"},
                busy.tool \in AllTools, abandoned' \in BOOLEAN, Respond(c, how)
         PROVE  TInv'
    <2>1. busy.id \in CallId
      BY <1>facts, <1>16, BusyIsRequest
    <2>2. Response(c) \in Frame
      BY <2>1 DEF Frame, Response
    <2>3. frames' \in Seq(Frame)
      BY <1>facts, <1>16, <2>2, ArrivalsTyped DEF Respond, TypeOK
    <2>4. outcome' \in [CallId -> {"none", "done", "failed", "abandoned"}]
      BY <1>facts, <1>16 DEF Respond, TypeOK
    <2> QED
      BY <1>facts, <1>16, <2>3, <2>4 DEF Respond, TInv, TypeOK
  <1>17. CASE ExecEnds \/ ExecAbandoned \/ UvSucceeds \/ UvFails
    BY <1>facts, <1>16, <1>17
    DEF ExecEnds, ExecAbandoned, UvSucceeds, UvFails, TypeOK, AllTools
  <1>18. CASE ContainerDies
    BY <1>facts, <1>18, BlankContainer DEF ContainerDies, TInv, TypeOK, hostVars
  <1>23. CASE StrayOutput
    BY <1>facts, <1>23, StraySteps DEF TInv, TypeOK, containerVars
  <1>19. CASE Tick
    BY <1>facts, <1>19 DEF Tick, HostWaits, TInv, TypeOK
  <1>20. CASE UNCHANGED vars
    BY <1>facts, <1>20 DEF TInv, TypeOK, vars, hostVars, containerVars
  <1> QED
    BY <1>2, <1>3, <1>4, <1>6, <1>7, <1>8, <1>9, <1>10, <1>11, <1>12, <1>13, <1>14,
       <1>15, <1>17, <1>18, <1>19, <1>20, <1>21, <1>22, <1>23
    DEF Next, HostStep, ContainerStep

\* The variables have their types in every reachable state.
THEOREM TypeCorrect == Spec => []TypeOK
  <1>1. TInv => TypeOK
    BY DEF TInv
  <1> QED
    BY <1>1, TypesInitially, TypesKept, PTL DEF Spec

(***************************************************************************)
(* The network of an install                                               *)
(***************************************************************************)

NInv ==
    /\ NetworkClosed
    /\ hpc = "connect" => call.tool = "install"

\* A network that an install opened is closed on every way out of it.
LEMMA NetworkKept == NInv /\ [Next]_vars => NInv'
  <1> SUFFICES ASSUME NInv, [Next]_vars
               PROVE  NInv'
    OBVIOUS
  <1> USE DEF NInv, NetworkClosed
  <1>1. ASSUME NEW t \in Timeouts, ExecutePython(t)
        PROVE  NInv'
    BY <1>1 DEF ExecutePython, Begin
  <1>2. CASE InstallPackages
    BY <1>2 DEF InstallPackages, Begin
  <1>3. CASE NetworkConnect \/ NetworkConnectFails
    BY <1>3 DEF NetworkConnect, NetworkConnectFails, EndRpc
  <1>4. CASE SendRequest
    BY <1>4 DEF SendRequest
  <1>5. CASE AttachFails \/ SendFails \/ FrameRaises \/ RecvTimesOut \/ ConnectionCloses
    BY <1>5
    DEF AttachFails, SendFails, FrameRaises, RecvTimesOut, ConnectionCloses, AfterError, EndRpc
  <1>6. CASE ReadReply
    BY <1>6 DEF ReadReply, Accept, EndRpc
  <1>7. CASE SkipFrame \/ Tick
    BY <1>7 DEF SkipFrame, Tick
  <1>8. CASE NetworkDisconnect \/ NetworkDisconnectFails
    BY <1>8 DEF NetworkDisconnect, NetworkDisconnectFails, EndRpc
  <1>9. CASE RestartSession \/ RestartFails
    BY <1>9 DEF RestartSession, RestartFails, EndRpc
  <1>10. CASE ContainerStep
    BY <1>10 DEF ContainerStep, TakeRequest, ExecEnds, ExecAbandoned, UvSucceeds, UvFails,
                 Respond, CodeReadsRequest, StrayOutput, ContainerDies, hostVars
  <1>11. CASE UNCHANGED vars
    BY <1>11 DEF vars, hostVars
  <1> QED
    BY <1>1, <1>2, <1>3, <1>4, <1>5, <1>6, <1>7, <1>8, <1>9, <1>10, <1>11
    DEF Next, HostStep

\* However an install ends, by success, by an error or by a lost connection,
\* the network it connected is disconnected before the next tool call.
THEOREM NetworkIsClosed == Spec => []NetworkClosed
  <1>1. Init => NInv
    BY DEF Init, NInv, NetworkClosed
  <1>2. NInv => NetworkClosed
    BY DEF NInv
  <1> QED
    BY <1>1, <1>2, NetworkKept, PTL DEF Spec

(***************************************************************************)
(* The order of the ids                                                    *)
(***************************************************************************)

\* A container that has nothing to do.
Drained == queue = <<>> /\ busy = NoRequest

\* The host waits: its request is the last one, wherever it is; once it is
\* answered nothing is left.
OwnIsLast ==
    hpc = "recv" =>
        /\ \A i \in DOMAIN queue : queue[i].id = call.id => i = Len(queue)
        /\ busy.id = call.id => queue = <<>>
        /\ \A i \in DOMAIN frames : frames[i].id = call.id => Drained

\* It has not sent its request yet: the container knows only older ones.
NotYetSent ==
    hpc \in {"connect", "send"} =>
        /\ \A i \in DOMAIN queue : queue[i].id # call.id
        /\ busy.id # call.id

DInv ==
    /\ TInv
    /\ call.id = calls
    /\ \A i \in DOMAIN queue : queue[i].id <= calls
    /\ busy.id <= calls
    /\ NotYetSent
    /\ OwnIsLast
    /\ hpc = "recv" => ~torn
    /\ DrainedOnReturn

\* No id is out of order at the start.
LEMMA DrainedInitially == Init => DInv
  <1> SUFFICES ASSUME Init PROVE DInv
    OBVIOUS
  <1> QED
    BY TypesInitially
    DEF Init, DInv, NotYetSent, OwnIsLast, DrainedOnReturn, Drained, NoRequest

\* Every step keeps the order of the ids.
LEMMA DrainedKept == DInv /\ [Next]_vars => DInv'
  <1> SUFFICES ASSUME DInv, [Next]_vars
               PROVE  DInv'
    OBVIOUS
  <1> USE SessionAssumption
  <1>types. TypeOK /\ (hpc # "idle" => call \in Request) /\ TInv'
    BY TypesKept DEF DInv, TInv
  <1>ids. /\ calls \in Nat /\ call.id = calls /\ busy.id \in 0..calls
          /\ queue \in Seq(Request)
          /\ \A i \in DOMAIN queue : queue[i].id \in 1..calls
    <2>1. calls \in Nat /\ call.id = calls /\ queue \in Seq(Request)
      BY <1>types DEF DInv, TypeOK
    <2>2. busy.id \in Nat
      BY <1>types DEF TypeOK, Request, CallId, NoRequest
    <2>3. ASSUME NEW i \in DOMAIN queue
          PROVE  queue[i].id \in Nat \ {0}
      <3>1. queue[i] \in Request
        BY <2>1
      <3> QED
        BY <3>1 DEF Request, CallId
    <2> QED
      BY <2>1, <2>2, <2>3 DEF DInv
  <1> USE DEF DInv, NotYetSent, OwnIsLast, DrainedOnReturn, Drained
  <1>1. ASSUME NEW tool, NEW t, NEW p \in {"send", "connect"}, Begin(tool, t, p)
        PROVE  DInv'
    <2>1. /\ calls' = calls + 1 /\ call'.id = calls + 1 /\ hpc' = p
          /\ UNCHANGED <<queue, busy, frames, report>>
      BY <1>1 DEF Begin, containerVars
    <2> QED
      BY <1>types, <1>ids, <2>1
  <1>2. ASSUME NEW t \in Timeouts, ExecutePython(t)
        PROVE  DInv'
    BY <1>1, <1>2 DEF ExecutePython
  <1>3. CASE InstallPackages
    BY <1>1, <1>3 DEF InstallPackages
  <1>4. CASE NetworkConnect
    BY <1>types, <1>4 DEF NetworkConnect, containerVars
  <1>5. ASSUME NEW p \in {"idle", "disconnect"}, EndRpc(p, "error"),
               UNCHANGED <<queue, busy>>
        PROVE  DInv'
    BY <1>types, <1>5 DEF EndRpc
  <1>6. CASE NetworkConnectFails \/ NetworkDisconnectFails
    BY <1>5, <1>6 DEF NetworkConnectFails, NetworkDisconnectFails, containerVars
  <1>7. CASE SendRequest
    <2>1. UNCHANGED <<calls, call, busy, report>>
      BY <1>7 DEF SendRequest
    <2>2. hpc' = "recv" /\ frames' = <<>> /\ torn' = FALSE
      BY <1>7 DEF SendRequest
    <2>3. /\ \A i \in DOMAIN queue : queue[i].id # call.id
          /\ busy.id # call.id
      BY <1>7 DEF SendRequest
    <2>4. CASE queue' = queue
      BY <1>types, <1>ids, <2>1, <2>2, <2>3, <2>4
    <2>5. CASE queue' = Append(queue, call)
      <3>1. /\ Len(queue') = Len(queue) + 1
            /\ \A i \in DOMAIN queue' :
                   \/ i \in DOMAIN queue /\ queue'[i] = queue[i]
                   \/ i = Len(queue') /\ queue'[i] = call
        BY <1>7, <1>types, <1>ids, <2>5 DEF SendRequest
      <3> QED
        BY <1>types, <1>ids, <2>1, <2>2, <2>3, <3>1
    <2> QED
      BY <1>7, <2>4, <2>5 DEF SendRequest
  <1>8. CASE AttachFails \/ SendFails \/ FrameRaises \/ RecvTimesOut \/ ConnectionCloses
    BY <1>5, <1>8
    DEF AttachFails, SendFails, FrameRaises, RecvTimesOut, ConnectionCloses, AfterError,
        containerVars
  <1>9. CASE ReadReply
    <2>1. queue = <<>> /\ busy = NoRequest /\ ~torn
      <3>1. 1 \in DOMAIN frames /\ frames[1].id = call.id
        BY <1>9, <1>types DEF ReadReply, TypeOK
      <3> QED
        BY <1>9, <3>1 DEF ReadReply
    <2>2. hpc' # "recv" /\ hpc' \notin {"connect", "send"}
      BY <1>9 DEF ReadReply, Accept, EndRpc
    <2>3. UNCHANGED <<calls, call, queue, busy, torn>>
      BY <1>9 DEF ReadReply, Accept, EndRpc, containerVars
    <2> QED
      BY <1>types, <2>1, <2>2, <2>3
  <1>10. CASE SkipFrame
    <2>1. UNCHANGED <<calls, hpc, call, report, queue, busy, torn>>
      BY <1>10 DEF SkipFrame, containerVars
    <2>2. \A i \in DOMAIN frames' : i + 1 \in DOMAIN frames /\ frames'[i] = frames[i + 1]
      BY <1>10, <1>types DEF SkipFrame, TypeOK
    <2> QED
      BY <1>types, <2>1, <2>2
  <1>11. CASE NetworkDisconnect
    BY <1>types, <1>11 DEF NetworkDisconnect, containerVars
  <1>12. ASSUME queue' = <<>>, busy' = NoRequest, torn' = FALSE, call' = call,
                calls' = calls
         PROVE  DInv'
    <2>1. hpc' # "idle" => call'.id # 0
      BY <1>types DEF TInv, Request, CallId
    <2> QED
      BY <1>types, <1>ids, <1>12, <2>1 DEF NoRequest
  <1>13. CASE RestartSession \/ ContainerDies
    BY <1>12, <1>13 DEF RestartSession, ContainerDies, hostVars
  <1>14. CASE RestartFails
    BY <1>5, <1>12, <1>14 DEF RestartFails, EndRpc, containerVars
  <1>15. CASE TakeRequest
    <2>1. busy' = queue[1] /\ queue' = Tail(queue) /\ queue # <<>>
      BY <1>15, <1>ids DEF TakeRequest
    <2>2. UNCHANGED <<calls, hpc, call, report, frames, torn>>
      BY <1>15 DEF TakeRequest, hostVars
    <2>3. /\ 1 \in DOMAIN queue /\ Len(queue') = Len(queue) - 1
          /\ \A i \in DOMAIN queue' : i + 1 \in DOMAIN queue /\ queue'[i] = queue[i + 1]
          /\ Len(queue) = 1 => queue' = <<>>
      BY <1>ids, <2>1
    <2> QED
      BY <1>types, <1>ids, <2>1, <2>2, <2>3
  <1>20. CASE CodeReadsRequest
    <2>1. UNCHANGED <<calls, hpc, call, report, frames, busy, torn>>
      BY <1>20 DEF CodeReadsRequest, hostVars
    <2>2. queue # <<>> /\ queue' = Tail(queue)
      BY <1>20 DEF CodeReadsRequest
    <2>3. /\ 1 \in DOMAIN queue /\ Len(queue') = Len(queue) - 1
          /\ \A i \in DOMAIN queue' : i + 1 \in DOMAIN queue /\ queue'[i] = queue[i + 1]
          /\ Len(queue) = 1 => queue' = <<>>
      BY <1>ids, <2>2
    <2> QED
      BY <1>types, <1>ids, <2>1, <2>2, <2>3
  <1>16. ASSUME NEW c \in BOOLEAN, NEW how, busy.tool \in AllTools, Respond(c, how)
         PROVE  DInv'
    <2> DEFINE f == Response(c)
    <2>0. f.id = busy.id
      BY DEF Response
    <2>1. UNCHANGED <<calls, hpc, call, report, queue, torn>> /\ busy' = NoRequest
      BY <1>16 DEF Respond
    <2>2. busy.id \in CallId /\ busy # NoRequest
      BY <1>16, <1>types, BusyIsRequest DEF NoRequest, AllTools
    <2>3. ASSUME NEW i \in DOMAIN frames', hpc = "recv", frames'[i].id = call.id
          PROVE  queue = <<>>
      <3>1. frames' \in Arrivals(f)
        BY <1>16, <2>3 DEF Respond
      <3>2. call.id # 0
        BY <1>types, <2>3 DEF Request, CallId
      <3>3. frames'[i] # Garbled
        BY <2>3, <3>2 DEF Garbled
      <3>4. CASE frames' = Append(frames, f)
        BY <1>types, <2>0, <2>3, <3>4 DEF TypeOK
      <3>5. CASE frames' = Append(frames, Garbled)
        BY <1>types, <2>3, <3>3, <3>5 DEF TypeOK
      <3>6. ASSUME NEW j \in {Len(frames)} \ {0}, frames' = [frames EXCEPT ![j] = Garbled]
            PROVE  queue = <<>>
        BY <1>types, <2>3, <3>3, <3>6 DEF TypeOK
      <3> QED
        BY <3>1, <3>4, <3>5, <3>6 DEF Arrivals
    <2> QED
      BY <1>types, <1>ids, <2>1, <2>2, <2>3 DEF NoRequest
  <1>17. CASE ExecEnds \/ ExecAbandoned \/ UvSucceeds \/ UvFails
    <2>1. busy.tool \in AllTools
      BY <1>17 DEF ExecEnds, ExecAbandoned, UvSucceeds, UvFails, AllTools
    <2>2. \E c \in BOOLEAN, how \in {"done", "failed", "abandoned"} : Respond(c, how)
      BY <1>17 DEF ExecEnds, ExecAbandoned, UvSucceeds, UvFails
    <2> QED
      BY <1>16, <2>1, <2>2
  <1>18. CASE Tick
    BY <1>types, <1>18 DEF Tick
  <1>21. CASE StrayOutput
    <2>1. /\ UNCHANGED <<calls, hpc, call, report, queue, busy, torn>>
          /\ hpc = "recv"
          /\ \A i \in DOMAIN frames' :
                 \/ i \in DOMAIN frames /\ frames'[i] = frames[i]
                 \/ frames'[i].id = 0
      BY <1>types, <1>21, StraySteps DEF containerVars
    <2>2. call.id # 0
      BY <1>types, <2>1 DEF Request, CallId
    <2> QED
      BY <1>types, <2>1, <2>2
  <1>19. CASE UNCHANGED vars
    BY <1>types, <1>19 DEF vars, hostVars, containerVars
  <1> QED
    BY <1>2, <1>3, <1>4, <1>6, <1>7, <1>8, <1>9, <1>10, <1>11, <1>13, <1>14, <1>15,
       <1>17, <1>18, <1>19, <1>20, <1>21
    DEF Next, HostStep, ContainerStep

\* When a tool call returns a result the container has finished with it, and
\* with every call the host gave up on before it: its state is as the client
\* believes it to be.
THEOREM ResultsAreDrained == Spec => []DrainedOnReturn
  <1>1. DInv => DrainedOnReturn
    BY DEF DInv
  <1> QED
    BY <1>1, DrainedInitially, DrainedKept, PTL DEF Spec

(***************************************************************************)
(* What becomes of the requests                                            *)
(***************************************************************************)

\* Requests wait in the order of the calls, behind the one PID 1 handles.
InOrder ==
    /\ \A i, j \in DOMAIN queue : i < j => queue[i].id < queue[j].id
    /\ \A i \in DOMAIN queue : busy.id < queue[i].id

\* What was carried out is older than all that is with the container, or has
\* yet to be sent to it: it is not carried out again.
RunOnce ==
    \A c \in CallId : outcome[c] # "none" =>
        /\ c <= calls
        /\ busy # NoRequest => c < busy.id
        /\ \A i \in DOMAIN queue : c < queue[i].id
        /\ hpc \in {"connect", "send"} => c # call.id

\* A call with a result, or with the frame that will be its result, has been
\* carried out.
ResultRan ==
    /\ hpc = "recv" => \A i \in DOMAIN frames :
                           frames[i].id = call.id => outcome[call.id] # "none"
    /\ hpc \in {"disconnect", "restart"} =>
           /\ report.kind \in {"result", "error"}
           /\ report.kind = "result" => outcome[call.id] # "none"
    /\ hpc = "restart" => report.kind = "result"

RInv == DInv /\ InOrder /\ RunOnce /\ ResultRan

\* What is in the container, by type.
LEMMA IdsTyped ==
    ASSUME DInv
    PROVE  /\ TypeOK /\ (hpc # "idle" => call \in Request /\ calls \in CallId)
           /\ calls \in Nat /\ call.id = calls /\ busy.id \in 0..calls
           /\ busy.id = 0 <=> busy = NoRequest
           /\ queue \in Seq(Request)
           /\ \A i \in DOMAIN queue : queue[i].id \in 1..calls
  <1>1. TypeOK /\ (hpc # "idle" => call \in Request)
    BY DEF DInv, TInv
  <1>2. calls \in Nat /\ call.id = calls /\ queue \in Seq(Request)
    BY <1>1, SessionAssumption DEF DInv, TypeOK
  <1>3. busy.id \in Nat /\ (busy.id = 0 <=> busy = NoRequest)
    BY <1>1, SessionAssumption DEF TypeOK, Request, CallId, NoRequest
  <1>4. ASSUME NEW i \in DOMAIN queue
        PROVE  queue[i].id \in Nat \ {0}
    <2>1. queue[i] \in Request
      BY <1>2
    <2> QED
      BY <2>1, SessionAssumption DEF Request, CallId
  <1>5. hpc # "idle" => calls \in CallId
    BY <1>1, <1>2 DEF Request
  <1> QED
    BY <1>1, <1>2, <1>3, <1>4, <1>5 DEF DInv

\* Adding at the end, and taking from the front, of a queue of requests.
LEMMA QueueGrows ==
    ASSUME NEW q \in Seq(Request), NEW r \in Request
    PROVE  /\ Len(Append(q, r)) = Len(q) + 1
           /\ \A i \in DOMAIN Append(q, r) :
                  \/ i \in DOMAIN q /\ Append(q, r)[i] = q[i]
                  \/ i = Len(q) + 1 /\ Append(q, r)[i] = r
           /\ \A i \in DOMAIN q : i \in DOMAIN Append(q, r) /\ Append(q, r)[i] = q[i]
           /\ Len(q) + 1 \in DOMAIN Append(q, r) /\ Append(q, r)[Len(q) + 1] = r
  OBVIOUS

LEMMA QueueShrinks ==
    ASSUME NEW q \in Seq(Request), q # <<>>
    PROVE  /\ 1 \in DOMAIN q /\ Head(q) = q[1] /\ Tail(q) \in Seq(Request)
           /\ Len(Tail(q)) = Len(q) - 1
           /\ \A i \in DOMAIN Tail(q) : i + 1 \in DOMAIN q /\ Tail(q)[i] = q[i + 1]
           /\ \A i \in DOMAIN q : i = 1 \/ i - 1 \in DOMAIN Tail(q)
  OBVIOUS

\* No request is out of its order at the start.
LEMMA RunInitially == Init => RInv
  <1> SUFFICES ASSUME Init PROVE RInv
    OBVIOUS
  <1> QED
    BY DrainedInitially DEF Init, RInv, InOrder, RunOnce, ResultRan

\* The steps that put nothing into the container's queue, and take nothing out.
LEMMA QuietSteps ==
    ASSUME \/ NetworkConnect \/ NetworkConnectFails \/ AttachFails \/ SendFails
           \/ ReadReply \/ SkipFrame \/ FrameRaises \/ RecvTimesOut \/ ConnectionCloses
           \/ NetworkDisconnect \/ NetworkDisconnectFails \/ StrayOutput
           \/ Tick \/ UNCHANGED vars
    PROVE  /\ UNCHANGED <<calls, call, queue, busy, outcome>>
           /\ hpc' \in {"connect", "send"} => hpc \in {"connect", "send"}
  BY DEF NetworkConnect, NetworkConnectFails, AttachFails, SendFails, ReadReply, Accept,
         SkipFrame, FrameRaises, RecvTimesOut, ConnectionCloses, NetworkDisconnect,
         NetworkDisconnectFails, StrayOutput, Tick, EndRpc, AfterError, vars, hostVars, containerVars

\* The steps after which the container is a new one, or none.
LEMMA BlankSteps ==
    ASSUME DInv, RestartSession \/ RestartFails \/ ContainerDies
    PROVE  /\ UNCHANGED <<calls, call, outcome>>
           /\ \/ queue' = <<>> /\ busy' = NoRequest
              \/ UNCHANGED <<queue, busy>>
           /\ hpc' = "idle" \/ hpc' = hpc
  BY DEF RestartSession, RestartFails, ContainerDies, EndRpc, hostVars, containerVars

\* The response of PID 1.
LEMMA AnswerSteps ==
    ASSUME DInv, ExecEnds \/ ExecAbandoned \/ UvSucceeds \/ UvFails
    PROVE  /\ busy.id \in CallId /\ busy # NoRequest
           /\ busy' = NoRequest
           /\ UNCHANGED <<calls, hpc, call, report, queue, torn, alive, network>>
           /\ \E how \in {"done", "failed", "abandoned"} :
                  outcome' = [outcome EXCEPT ![busy.id] = how]
           /\ \E c \in BOOLEAN :
                  frames' \in IF hpc = "recv"
                              THEN Arrivals(Response(c))
                              ELSE {frames}
  <1>1. busy.tool \in AllTools
    BY DEF ExecEnds, ExecAbandoned, UvSucceeds, UvFails, AllTools
  <1>2. busy.id \in CallId /\ busy # NoRequest
    BY <1>1, BusyIsRequest DEF DInv, TInv, NoRequest, AllTools
  <1>3. \E c \in BOOLEAN, how \in {"done", "failed", "abandoned"} : Respond(c, how)
    BY DEF ExecEnds, ExecAbandoned, UvSucceeds, UvFails
  <1> QED
    BY <1>2, <1>3 DEF Respond

\* Every step keeps the queue in the order of the calls.
LEMMA InOrderKept == DInv /\ InOrder /\ [Next]_vars => InOrder'
  <1> SUFFICES ASSUME DInv, InOrder, [Next]_vars
               PROVE  InOrder'
    OBVIOUS
  <1> USE DEF InOrder
  <1>0. /\ calls \in Nat /\ call.id = calls /\ busy.id \in 0..calls
        /\ queue \in Seq(Request)
        /\ \A i \in DOMAIN queue : queue[i].id \in 1..calls
    BY IdsTyped
  <1>1. ASSUME UNCHANGED <<queue, busy>>
        PROVE  InOrder'
    BY <1>1
  <1>2. CASE (\E t \in Timeouts : ExecutePython(t)) \/ InstallPackages
    BY <1>1, <1>2 DEF ExecutePython, InstallPackages, Begin, containerVars
  <1>3. ASSUME queue' = <<>>
        PROVE  InOrder'
    BY <1>3
  <1>4. CASE RestartSession \/ RestartFails \/ ContainerDies
    BY <1>1, <1>3, <1>4, BlankSteps
  <1>5. CASE SendRequest
    <2>1. call \in Request /\ busy' = busy
      BY <1>5, IdsTyped DEF SendRequest
    <2>2. /\ \A i \in DOMAIN queue : queue[i].id < call.id
          /\ busy.id < call.id
      BY <1>0, <1>5 DEF SendRequest, DInv, NotYetSent
    <2>3. CASE queue' = queue
      BY <1>1, <2>1, <2>3
    <2>4. CASE queue' = Append(queue, call)
      <3>1. /\ Len(queue') = Len(queue) + 1
            /\ \A i \in DOMAIN queue' :
                   \/ i \in DOMAIN queue /\ queue'[i] = queue[i]
                   \/ i = Len(queue) + 1 /\ queue'[i] = call
        BY <1>0, <2>1, <2>4, QueueGrows
      <3>2. ASSUME NEW i \in DOMAIN queue', NEW j \in DOMAIN queue', i < j
            PROVE  queue'[i].id < queue'[j].id
        BY <1>0, <2>2, <3>1, <3>2
      <3>3. ASSUME NEW i \in DOMAIN queue'
            PROVE  busy'.id < queue'[i].id
        BY <2>1, <2>2, <3>1, <3>3
      <3> QED
        BY <3>2, <3>3
    <2> QED
      BY <1>5, <2>3, <2>4 DEF SendRequest
  <1>6. ASSUME queue # <<>>, queue' = Tail(queue), busy' \in {busy, queue[1]}
        PROVE  InOrder'
    <2>1. /\ 1 \in DOMAIN queue /\ Len(queue') = Len(queue) - 1
          /\ \A i \in DOMAIN queue' : i + 1 \in DOMAIN queue /\ queue'[i] = queue[i + 1]
          /\ queue' \in Seq(Request)
      BY <1>0, <1>6, QueueShrinks
    <2>2. ASSUME NEW i \in DOMAIN queue', NEW j \in DOMAIN queue', i < j
          PROVE  queue'[i].id < queue'[j].id
      <3>1. i + 1 \in DOMAIN queue /\ j + 1 \in DOMAIN queue /\ i + 1 < j + 1
        BY <2>1, <2>2
      <3>2. queue[i + 1].id < queue[j + 1].id
        BY <3>1
      <3> QED
        BY <2>1, <3>2
    <2>3. ASSUME NEW i \in DOMAIN queue'
          PROVE  queue[1].id < queue'[i].id /\ busy.id < queue'[i].id
      <3>1. i + 1 \in DOMAIN queue /\ 1 < i + 1
        BY <2>1
      <3>2. queue[1].id < queue[i + 1].id /\ busy.id < queue[i + 1].id
        BY <2>1, <3>1
      <3> QED
        BY <2>1, <3>2
    <2> QED
      BY <1>6, <2>2, <2>3
  <1>7. CASE TakeRequest \/ CodeReadsRequest
    BY <1>0, <1>6, <1>7 DEF TakeRequest, CodeReadsRequest
  <1>8. CASE ExecEnds \/ ExecAbandoned \/ UvSucceeds \/ UvFails
    <2>1. queue' = queue /\ busy'.id = 0
      BY <1>8, AnswerSteps DEF NoRequest
    <2> QED
      BY <1>0, <2>1
  <1> QED
    BY <1>1, <1>2, <1>4, <1>5, <1>7, <1>8, QuietSteps DEF Next, HostStep, ContainerStep

\* Every step keeps what was carried out from being carried out again.
LEMMA RunOnceKept == DInv /\ InOrder /\ RunOnce /\ [Next]_vars => RunOnce'
  <1> SUFFICES ASSUME DInv, InOrder, RunOnce, [Next]_vars
               PROVE  RunOnce'
    OBVIOUS
  <1>0. /\ calls \in Nat /\ call.id = calls /\ busy.id \in 0..calls
        /\ busy.id = 0 <=> busy = NoRequest
        /\ queue \in Seq(Request)
        /\ \A i \in DOMAIN queue : queue[i].id \in 1..calls
    BY IdsTyped
  <1> SUFFICES ASSUME NEW c \in CallId, outcome'[c] # "none"
               PROVE  /\ c <= calls'
                      /\ busy' # NoRequest => c < busy'.id
                      /\ \A i \in DOMAIN queue' : c < queue'[i].id
                      /\ hpc' \in {"connect", "send"} => c # call'.id
    BY DEF RunOnce
  <1>ran. outcome[c] # "none" =>
              /\ c <= calls
              /\ busy # NoRequest => c < busy.id
              /\ \A i \in DOMAIN queue : c < queue[i].id
              /\ hpc \in {"connect", "send"} => c # call.id
    BY DEF RunOnce
  <1>1. CASE /\ UNCHANGED <<calls, call, queue, busy, outcome>>
             /\ hpc' \in {"connect", "send"} => hpc \in {"connect", "send"}
    BY <1>1, <1>ran
  <1>2. CASE (\E t \in Timeouts : ExecutePython(t)) \/ InstallPackages
    <2>1. /\ UNCHANGED <<queue, busy, outcome>>
          /\ calls' = calls + 1 /\ call'.id = calls + 1
      BY <1>2 DEF ExecutePython, InstallPackages, Begin, containerVars
    <2> QED
      BY <1>0, <1>ran, <2>1, SessionAssumption DEF CallId
  <1>3. CASE RestartSession \/ RestartFails \/ ContainerDies
    BY <1>3, <1>ran, BlankSteps
  <1>4. CASE SendRequest
    <2>1. call \in Request /\ UNCHANGED <<calls, call, busy, outcome>> /\ hpc' = "recv"
      BY <1>4, IdsTyped DEF SendRequest
    <2>2. c < call.id
      BY <1>0, <1>4, <1>ran, <2>1, SessionAssumption DEF SendRequest, CallId
    <2>3. ASSUME NEW i \in DOMAIN queue'
          PROVE  c < queue'[i].id
      <3>1. CASE queue' = queue
        BY <1>ran, <2>1, <3>1
      <3>2. CASE queue' = Append(queue, call)
        <4>1. \/ i \in DOMAIN queue /\ queue'[i] = queue[i]
              \/ queue'[i] = call
          BY <1>0, <2>1, <3>2, QueueGrows
        <4> QED
          BY <1>ran, <2>1, <2>2, <4>1
      <3> QED
        BY <1>4, <3>1, <3>2 DEF SendRequest
    <2> QED
      BY <1>ran, <2>1, <2>3
  <1>5. CASE TakeRequest \/ CodeReadsRequest
    <2>1. /\ queue # <<>> /\ queue' = Tail(queue) /\ busy' \in {busy, Head(queue)}
          /\ UNCHANGED <<calls, call, hpc, outcome>>
      BY <1>5 DEF TakeRequest, CodeReadsRequest, hostVars
    <2>2. /\ 1 \in DOMAIN queue /\ Head(queue) = queue[1]
          /\ \A i \in DOMAIN queue' : i + 1 \in DOMAIN queue /\ queue'[i] = queue[i + 1]
      BY <1>0, <2>1, QueueShrinks
    <2> QED
      BY <1>ran, <2>1, <2>2
  <1>6. CASE ExecEnds \/ ExecAbandoned \/ UvSucceeds \/ UvFails
    <2>1. /\ busy.id \in CallId /\ busy # NoRequest /\ busy' = NoRequest
          /\ UNCHANGED <<calls, hpc, call, queue>>
      BY <1>6, AnswerSteps
    <2>2. CASE c = busy.id
      <3>1. c <= calls /\ \A i \in DOMAIN queue : c < queue[i].id
        BY <1>0, <2>2 DEF InOrder
      <3>2. hpc \in {"connect", "send"} => c # call.id
        BY <2>2 DEF DInv, NotYetSent
      <3> QED
        BY <2>1, <3>1, <3>2
    <2>3. CASE c # busy.id
      <3>1. PICK how \in {"done", "failed", "abandoned"} :
                outcome' = [outcome EXCEPT ![busy.id] = how]
        BY <1>6, AnswerSteps
      <3>2. outcome \in [CallId -> {"none", "done", "failed", "abandoned"}]
        BY IdsTyped DEF TypeOK
      <3>3. outcome'[c] = outcome[c]
        BY <2>3, <3>1, <3>2
      <3> QED
        BY <1>ran, <2>1, <3>3
    <2> QED
      BY <2>2, <2>3
  <1> QED
    BY <1>1, <1>2, <1>3, <1>4, <1>5, <1>6, QuietSteps DEF Next, HostStep, ContainerStep

\* What a step does to the frames of a host that waits.
LEMMA FramesArrive ==
    ASSUME DInv, ResultRan, NEW f, f.id # 0, NEW fs \in Arrivals(f), hpc = "recv",
           NEW i \in DOMAIN fs, fs[i].id = call.id
    PROVE  f.id = call.id \/ outcome[call.id] # "none"
  <1>1. frames \in Seq(Frame) /\ call.id # 0
    BY IdsTyped, SessionAssumption DEF TypeOK, CallId
  <1>2. \A j \in DOMAIN frames : frames[j].id = call.id => outcome[call.id] # "none"
    BY DEF ResultRan
  <1>3. fs[i] # Garbled
    BY <1>1 DEF Garbled
  <1>4. CASE fs = Append(frames, f)
    BY <1>1, <1>2, <1>4
  <1>5. CASE fs = Append(frames, Garbled)
    BY <1>1, <1>2, <1>3, <1>5
  <1>6. ASSUME NEW j \in {Len(frames)} \ {0}, fs = [frames EXCEPT ![j] = Garbled]
        PROVE  outcome[call.id] # "none"
    BY <1>1, <1>2, <1>3, <1>6
  <1> QED
    BY <1>4, <1>5, <1>6 DEF Arrivals

\* Every step keeps a call with a result one that was carried out.
LEMMA ResultRanKept == DInv /\ ResultRan /\ [Next]_vars => ResultRan'
  <1> SUFFICES ASSUME DInv, ResultRan, [Next]_vars
               PROVE  ResultRan'
    OBVIOUS
  <1> USE DEF ResultRan
  <1>0. frames \in Seq(Frame) /\ call.id = calls
    BY IdsTyped DEF TypeOK
  <1>1. CASE (\E t \in Timeouts : ExecutePython(t)) \/ InstallPackages
    BY <1>1 DEF ExecutePython, InstallPackages, Begin
  <1>2. ASSUME NEW p \in {"idle", "disconnect"}, EndRpc(p, "error")
        PROVE  ResultRan'
    BY <1>2 DEF EndRpc
  <1>3. CASE \/ NetworkConnectFails \/ AttachFails \/ SendFails \/ FrameRaises
             \/ RecvTimesOut \/ ConnectionCloses \/ NetworkDisconnectFails \/ RestartFails
    BY <1>2, <1>3
    DEF NetworkConnectFails, AttachFails, SendFails, FrameRaises, RecvTimesOut,
        ConnectionCloses, NetworkDisconnectFails, RestartFails, AfterError
  <1>4. CASE NetworkConnect \/ SendRequest \/ NetworkDisconnect \/ RestartSession
    BY <1>4 DEF NetworkConnect, SendRequest, NetworkDisconnect, RestartSession
  <1>5. CASE ReadReply
    <2>1. 1 \in DOMAIN frames /\ frames[1].id = call.id /\ hpc = "recv"
      BY <1>0, <1>5 DEF ReadReply
    <2>2. /\ report'.kind = "result" /\ hpc' # "recv"
          /\ UNCHANGED <<call, outcome>>
      BY <1>5 DEF ReadReply, Accept, EndRpc, containerVars
    <2> QED
      BY <2>1, <2>2
  <1>6. CASE SkipFrame
    <2>1. \A i \in DOMAIN frames' : i + 1 \in DOMAIN frames /\ frames'[i] = frames[i + 1]
      BY <1>0, <1>6 DEF SkipFrame
    <2>2. UNCHANGED <<hpc, call, outcome, report>>
      BY <1>6 DEF SkipFrame, containerVars
    <2> QED
      BY <2>1, <2>2
  <1>7. CASE TakeRequest \/ CodeReadsRequest \/ ContainerDies \/ Tick \/ UNCHANGED vars
    BY <1>7 DEF TakeRequest, CodeReadsRequest, ContainerDies, Tick, vars, hostVars,
                containerVars
  <1>9. CASE StrayOutput
    <2>1. /\ UNCHANGED <<hpc, call, report, outcome>> /\ hpc = "recv"
          /\ \A i \in DOMAIN frames' :
                 \/ i \in DOMAIN frames /\ frames'[i] = frames[i]
                 \/ frames'[i].id = 0
      BY <1>9, IdsTyped, StraySteps DEF containerVars
    <2>2. call.id # 0
      BY <2>1, IdsTyped, SessionAssumption DEF CallId
    <2> QED
      BY <2>1, <2>2
  <1>8. CASE ExecEnds \/ ExecAbandoned \/ UvSucceeds \/ UvFails
    <2>1. busy.id \in CallId /\ UNCHANGED <<hpc, call, report>>
      BY <1>8, AnswerSteps
    <2>2. PICK how \in {"done", "failed", "abandoned"} :
              outcome' = [outcome EXCEPT ![busy.id] = how]
      BY <1>8, AnswerSteps
    <2>3. outcome \in [CallId -> {"none", "done", "failed", "abandoned"}]
      BY IdsTyped DEF TypeOK
    <2>4. ASSUME NEW c \in CallId, c = busy.id \/ outcome[c] # "none"
          PROVE  outcome'[c] # "none"
      BY <2>2, <2>3, <2>4
    <2>5. hpc # "idle" => call.id \in CallId
      BY <1>0, IdsTyped
    <2>6. CASE hpc = "recv"
      <3>1. PICK corrupted \in BOOLEAN :
                frames' \in Arrivals(Response(corrupted))
        BY <1>8, <2>6, AnswerSteps
      <3>2. ASSUME NEW i \in DOMAIN frames', frames'[i].id = call.id
            PROVE  outcome'[call.id] # "none"
        <4> DEFINE f == Response(corrupted)
        <4>1. f.id = busy.id /\ f.id # 0
          BY <2>1, SessionAssumption DEF CallId, Response
        <4>2. busy.id = call.id \/ outcome[call.id] # "none"
          BY <2>6, <3>1, <3>2, <4>1, FramesArrive
        <4> QED
          BY <2>4, <2>5, <2>6, <4>2
      <3> QED
        BY <2>1, <2>6, <3>2
    <2>7. CASE hpc # "recv"
      BY <2>1, <2>4, <2>5, <2>7
    <2> QED
      BY <2>6, <2>7
  <1> QED
    BY <1>1, <1>3, <1>4, <1>5, <1>6, <1>7, <1>8, <1>9 DEF Next, HostStep, ContainerStep

\* Every step keeps all of this.
LEMMA RunKept == RInv /\ [Next]_vars => RInv'
  BY DrainedKept, InOrderKept, RunOnceKept, ResultRanKept DEF RInv

\* The requests with the container are those of calls that were made, and none
\* of them has been carried out.
LEMMA HeldIds ==
    ASSUME RInv
    PROVE  \A c \in CallId : c \in Held => c <= calls /\ outcome[c] = "none"
  <1>0. /\ calls \in Nat /\ busy.id \in 0..calls
        /\ busy.id = 0 <=> busy = NoRequest
        /\ \A i \in DOMAIN queue : queue[i].id \in 1..calls
    BY IdsTyped DEF RInv
  <1> SUFFICES ASSUME NEW c \in CallId, c \in Held
               PROVE  c <= calls /\ outcome[c] = "none"
    OBVIOUS
  <1>1. c \in 1..calls
    BY <1>0, SessionAssumption DEF Held, CallId
  <1>2. CASE c = busy.id
    <2>1. busy # NoRequest /\ ~(c < busy.id)
      BY <1>0, <1>1, <1>2
    <2> QED
      BY <1>1, <2>1 DEF RInv, RunOnce
  <1>3. ASSUME NEW i \in DOMAIN queue, c = queue[i].id
        PROVE  c <= calls /\ outcome[c] = "none"
    <2>1. ~(c < queue[i].id)
      BY <1>1, <1>3
    <2> QED
      BY <1>1, <2>1 DEF RInv, RunOnce
  <1> QED
    BY <1>2, <1>3 DEF Held

(***************************************************************************)
(* Every step is one of ToolCalls                                          *)
(***************************************************************************)

\* Variables of ToolCalls that a step may leave as they are.
Open == IF hpc = "idle" THEN 0 ELSE call.id
Reported == IF hpc = "idle" THEN report.kind ELSE "none"

\* A step in which nothing happens to a request.
LEMMA StepStutters ==
    ASSUME UNCHANGED <<calls, Open, Reported>>,
           \A c \in CallId : Fate(c)' = Fate(c)
    PROVE  UNCHANGED Client!vars
  BY DEF Client!vars, Open, Reported

\* A step in which some are lost.
LEMMA StepLoses ==
    ASSUME UNCHANGED <<calls, Open, Reported>>,
           \A c \in CallId : \/ Fate(c)' = Fate(c)
                             \/ Fate(c)' = "lost" /\ Fate(c) \in {"new", "sent"}
    PROVE  Client!Lose
  <1> DEFINE fate == [c \in CallId |-> Fate(c)]
             next == [c \in CallId |-> Fate(c)']
             S == {c \in CallId : Fate(c)' # Fate(c)}
  <1>1. S \in SUBSET {c \in CallId : fate[c] \in {"new", "sent"}}
    OBVIOUS
  <1>2. next = [c \in CallId |-> IF c \in S THEN "lost" ELSE fate[c]]
    OBVIOUS
  <1> QED
    BY <1>1, <1>2 DEF Client!Lose, Client!Id, CallId, Open, Reported

\* A step in which the call fails.
LEMMA StepFails ==
    ASSUME UNCHANGED calls, Open # 0, Open' = 0, Reported' = "error",
           \A c \in CallId : Fate(c)' = IF Fate(c) = "new" THEN "lost" ELSE Fate(c)
    PROVE  Client!Fail
  BY DEF Client!Fail, Client!Id, CallId, Open, Reported

\* A step in which it returns its result.
LEMMA StepReturns ==
    ASSUME UNCHANGED calls, Open \in CallId, Open' = 0, Reported' = "result",
           Fate(call.id) = "ran",
           \A c \in CallId : Fate(c)' = Fate(c) /\ Fate(c) # "sent"
    PROVE  Client!Return
  <1>1. Open = call.id /\ 0 \notin CallId
    BY SessionAssumption DEF Open, CallId
  <1> QED
    BY <1>1 DEF Client!Return, Client!Id, CallId, Open, Reported

\* What Fate tells, with the requests in the container.
LEMMA Fates ==
    ASSUME RInv, NEW c \in CallId
    PROVE  /\ c > calls => Fate(c) = "none"
           /\ c \in Held => Fate(c) = "sent"
           /\ outcome[c] # "none" => Fate(c) = "ran"
           /\ c <= calls /\ c \notin Held /\ outcome[c] = "none" =>
                  Fate(c) = IF c = call.id /\ hpc \in {"connect", "send"}
                            THEN "new" ELSE "lost"
  <1>1. c \in Nat /\ calls \in Nat
    BY IdsTyped, SessionAssumption DEF CallId, RInv
  <1>2. c \in Held => c <= calls /\ outcome[c] = "none"
    BY HeldIds
  <1>3. outcome[c] # "none" => c <= calls
    BY DEF RInv, RunOnce
  <1> QED
    BY <1>1, <1>2, <1>3 DEF Fate

\* A container without requests.
LEMMA DrainedHolds ==
    ASSUME Drained, NEW c \in CallId
    PROVE  c \notin Held
  <1>1. c # 0
    BY SessionAssumption DEF CallId
  <1> QED
    BY <1>1 DEF Drained, Held, NoRequest

\* Where nothing changes in the container, fates change with the handler only.
LEMMA SameFates ==
    ASSUME RInv, UNCHANGED <<calls, call, queue, busy, outcome>>,
           NEW c \in CallId
    PROVE  /\ (hpc \in {"connect", "send"} <=> hpc' \in {"connect", "send"}) =>
                  Fate(c)' = Fate(c)
           /\ hpc' \notin {"connect", "send"} =>
                  Fate(c)' = IF Fate(c) = "new" THEN "lost" ELSE Fate(c)
  BY DEF Fate, Held

\* The handler ends with an error, at once or after it disconnected.
LEMMA ErrorSteps ==
    ASSUME RInv, NEW p \in {"idle", "disconnect"}, EndRpc(p, "error"), hpc # "idle",
           UNCHANGED <<queue, busy, outcome>>
    PROVE  Client!Fail \/ Client!Lose
  <1>1. /\ UNCHANGED <<calls, call>> /\ hpc' = p /\ report'.kind = "error"
    BY DEF EndRpc
  <1>2. \A c \in CallId : Fate(c)' = IF Fate(c) = "new" THEN "lost" ELSE Fate(c)
    BY <1>1, SameFates
  <1>3. call.id # 0
    BY IdsTyped, SessionAssumption DEF RInv, CallId
  <1>4. CASE p = "idle"
    BY <1>1, <1>2, <1>3, <1>4, StepFails DEF Open, Reported
  <1>5. CASE p = "disconnect"
    <2>1. \A c \in CallId : \/ Fate(c)' = Fate(c)
                            \/ Fate(c)' = "lost" /\ Fate(c) \in {"new", "sent"}
      BY <1>2
    <2> QED
      BY <1>1, <1>5, <2>1, StepLoses DEF Open, Reported
  <1> QED
    BY <1>4, <1>5

\* It ends as a session in which nothing is left to do.
LEMMA EndSteps ==
    ASSUME RInv, hpc \in {"recv", "disconnect", "restart"}, hpc' = "idle",
           UNCHANGED <<calls, call, outcome>>,
           \/ Drained /\ Drained'
           \/ UNCHANGED <<queue, busy>>,
           \/ report'.kind = "error"
           \/ report'.kind = "result" /\ Drained /\ outcome[call.id] # "none"
    PROVE  Client!Fail \/ Client!Return
  <1>1. \A c \in CallId : Fate(c)' = Fate(c) /\ Fate(c) # "new"
    <2>1. CASE UNCHANGED <<queue, busy>>
      BY <2>1 DEF Fate, Held
    <2>2. CASE Drained /\ Drained'
      <3>1. UNCHANGED <<queue, busy>>
        BY <2>2 DEF Drained
      <3> QED
        BY <3>1, <2>1
    <2> QED
      BY <2>1, <2>2
  <1>2. call.id \in CallId /\ call.id # 0 /\ Open = call.id
    BY IdsTyped, SessionAssumption DEF RInv, CallId, Open
  <1>3. CASE report'.kind = "error"
    BY <1>1, <1>2, <1>3, StepFails DEF Open, Reported
  <1>4. CASE report'.kind = "result" /\ Drained /\ outcome[call.id] # "none"
    <2>1. Fate(call.id) = "ran"
      BY <1>2, <1>4, Fates
    <2>2. \A c \in CallId : Fate(c) # "sent"
      <3> TAKE c \in CallId
      <3>1. c \notin Held
        BY <1>4, DrainedHolds
      <3> QED
        BY <3>1 DEF Fate
    <2> QED
      BY <1>1, <1>2, <1>4, <2>1, <2>2, StepReturns DEF Open, Reported
  <1> QED
    BY <1>3, <1>4

\* A tool call.
LEMMA BeginSteps ==
    ASSUME RInv, NEW tool, NEW t, NEW p \in {"send", "connect"}, Begin(tool, t, p)
    PROVE  Client!Call
  <1> DEFINE fate == [c \in CallId |-> Fate(c)]
  <1>0. calls \in Nat /\ call.id = calls
    BY IdsTyped DEF RInv
  <1>1. /\ hpc = "idle" /\ calls < MaxCalls /\ hpc' = p
        /\ calls' = calls + 1 /\ call'.id = calls + 1
        /\ UNCHANGED <<queue, busy, outcome>>
    BY DEF Begin, containerVars
  <1>2. Held' = Held
    BY <1>1 DEF Held
  <1>3. ASSUME NEW c \in CallId
        PROVE  Fate(c)' = IF c = calls + 1 THEN "new" ELSE Fate(c)
    <2>1. c \in Nat
      BY SessionAssumption DEF CallId
    <2>2. CASE c = calls + 1
      <3>1. c \notin Held' /\ outcome'[c] = "none" /\ ~(c > calls')
        <4>1. ~(c <= calls) /\ ~(c > calls')
          BY <1>0, <1>1, <2>2
        <4>2. c \notin Held /\ outcome[c] = "none"
          BY <4>1, HeldIds DEF RInv, RunOnce
        <4> QED
          BY <1>1, <1>2, <4>1, <4>2
      <3> QED
        BY <1>1, <2>2, <3>1 DEF Fate
    <2>3. CASE c # calls + 1
      <3>1. c > calls' <=> c > calls
        BY <1>0, <1>1, <2>1, <2>3
      <3> QED
        BY <1>1, <1>2, <2>3, <3>1 DEF Fate
    <2> QED
      BY <2>2, <2>3
  <1>4. [c \in CallId |-> Fate(c)'] = [fate EXCEPT ![calls + 1] = "new"]
    BY <1>3
  <1>5. calls + 1 # 0
    BY <1>0
  <1> QED
    BY <1>1, <1>4, <1>5 DEF Client!Call, CallId

\* The request is sent, or lost behind a part of a line.
LEMMA SendSteps ==
    ASSUME RInv, SendRequest
    PROVE  Client!Send \/ Client!Lose
  <1> DEFINE fate == [c \in CallId |-> Fate(c)]
  <1>0. /\ call \in Request /\ call.id \in CallId /\ call.id <= calls /\ call.id # 0
        /\ queue \in Seq(Request) /\ calls \in Nat
    BY IdsTyped, SessionAssumption DEF RInv, SendRequest, CallId
  <1>1. /\ hpc = "send" /\ hpc' = "recv"
        /\ UNCHANGED <<calls, call, busy, outcome, report>>
    BY DEF SendRequest
  <1>2. call.id \notin Held /\ outcome[call.id] = "none"
    <2>1. busy.id # call.id /\ \A i \in DOMAIN queue : queue[i].id # call.id
      BY <1>1 DEF RInv, DInv, NotYetSent
    <2> QED
      BY <1>0, <1>1, <2>1 DEF Held, RInv, RunOnce
  <1>3. Fate(call.id) = "new"
    BY <1>0, <1>1, <1>2, Fates
  <1>4. CASE queue' = queue
    <2>1. \A c \in CallId : Fate(c)' = IF Fate(c) = "new" THEN "lost" ELSE Fate(c)
      BY <1>1, <1>4, SameFates
    <2>2. \A c \in CallId : \/ Fate(c)' = Fate(c)
                            \/ Fate(c)' = "lost" /\ Fate(c) \in {"new", "sent"}
      BY <2>1
    <2> QED
      BY <1>1, <2>2, StepLoses DEF Open, Reported
  <1>5. CASE queue' = Append(queue, call)
    <2>1. /\ \A i \in DOMAIN queue' :
                  \/ i \in DOMAIN queue /\ queue'[i] = queue[i]
                  \/ queue'[i] = call
          /\ \A i \in DOMAIN queue : i \in DOMAIN queue' /\ queue'[i] = queue[i]
          /\ Len(queue) + 1 \in DOMAIN queue' /\ queue'[Len(queue) + 1] = call
      BY <1>0, <1>5, QueueGrows
    <2>2. \A c \in CallId : c \in Held' <=> c \in Held \/ c = call.id
      BY <1>1, <2>1 DEF Held
    <2>3. ASSUME NEW c \in CallId
          PROVE  Fate(c)' = IF c = call.id THEN "sent" ELSE Fate(c)
      <3>1. CASE c = call.id
        <4>1. c \in Held'
          BY <2>2, <3>1
        <4>2. ~(c > calls')
          <5>1. c = calls /\ calls' = calls
            BY <1>1, <3>1, IdsTyped DEF RInv
          <5> QED
            BY <1>0, <5>1
        <4> QED
          BY <3>1, <4>1, <4>2 DEF Fate
      <3>2. CASE c # call.id
        <4>1. c \in Held' <=> c \in Held
          BY <2>2, <3>2
        <4>2. ~(c = call.id /\ hpc \in {"connect", "send"}) /\ call' = call
          BY <1>1, <3>2
        <4> QED
          BY <1>1, <3>2, <4>1, <4>2 DEF Fate
      <3> QED
        BY <3>1, <3>2
    <2>4. [c \in CallId |-> Fate(c)'] = [fate EXCEPT ![call.id] = "sent"]
      BY <2>3
    <2> QED
      BY <1>0, <1>1, <1>3, <2>4 DEF Client!Send
  <1> QED
    BY <1>4, <1>5 DEF SendRequest

\* PID 1, or the code it runs, takes a line.
LEMMA TakeSteps ==
    ASSUME RInv, TakeRequest \/ CodeReadsRequest
    PROVE  UNCHANGED Client!vars \/ Client!Lose
  <1>0. /\ queue \in Seq(Request) /\ (busy.id = 0 <=> busy = NoRequest)
    BY IdsTyped DEF RInv
  <1>1. /\ queue # <<>> /\ queue' = Tail(queue)
        /\ UNCHANGED <<calls, call, hpc, outcome, report>>
    BY DEF TakeRequest, CodeReadsRequest, hostVars
  <1>2. /\ 1 \in DOMAIN queue /\ Head(queue) = queue[1]
        /\ \A i \in DOMAIN queue' : i + 1 \in DOMAIN queue /\ queue'[i] = queue[i + 1]
        /\ \A i \in DOMAIN queue : i = 1 \/ i - 1 \in DOMAIN queue'
    BY <1>0, <1>1, QueueShrinks
  <1>3. \A i \in DOMAIN queue : i = 1 \/ \E j \in DOMAIN queue' : queue'[j] = queue[i]
    <2> TAKE i \in DOMAIN queue
    <2>1. CASE i # 1
      <3>1. i - 1 \in DOMAIN queue' /\ queue'[i - 1] = queue[(i - 1) + 1] /\ i \in Nat
        BY <1>0, <1>2, <2>1
      <3>2. (i - 1) + 1 = i
        BY <3>1
      <3> QED
        BY <3>1, <3>2
    <2> QED
      BY <2>1
  <1>4. CASE TakeRequest
    <2>1. busy = NoRequest /\ busy' = queue[1]
      BY <1>2, <1>4 DEF TakeRequest
    <2>2. \A c \in CallId : c \in Held' <=> c \in Held
      <3> TAKE c \in CallId
      <3>1. c # 0
        BY SessionAssumption DEF CallId
      <3> QED
        BY <1>2, <1>3, <2>1, <3>1 DEF Held, NoRequest
    <2>3. \A c \in CallId : Fate(c)' = Fate(c)
      BY <1>1, <2>2 DEF Fate
    <2> QED
      BY <1>1, <2>3, StepStutters DEF Open, Reported
  <1>5. CASE CodeReadsRequest
    <2>1. busy' = busy
      BY <1>5 DEF CodeReadsRequest
    <2>2. \A c \in CallId : c \in Held' => c \in Held
      BY <1>2, <2>1 DEF Held
    <2>3. \A c \in CallId : \/ Fate(c)' = Fate(c)
                            \/ Fate(c)' = "lost" /\ Fate(c) \in {"new", "sent"}
      <3> TAKE c \in CallId
      <3>1. CASE c \in Held
        <4>1. /\ c <= calls /\ outcome[c] = "none" /\ Fate(c) = "sent"
              /\ hpc \in {"connect", "send"} => c # call.id
          BY <3>1, HeldIds, Fates DEF Held, RInv, DInv, NotYetSent
        <4>2. ~(c > calls)
          BY <4>1, IdsTyped, SessionAssumption DEF CallId, RInv
        <4> QED
          BY <1>1, <4>1, <4>2 DEF Fate
      <3>2. CASE c \notin Held
        BY <1>1, <2>2, <3>2 DEF Fate
      <3> QED
        BY <3>1, <3>2
    <2> QED
      BY <1>1, <2>3, StepLoses DEF Open, Reported
  <1> QED
    BY <1>4, <1>5

\* The response of PID 1 is the end of the oldest request it has.
LEMMA RunSteps ==
    ASSUME RInv, ExecEnds \/ ExecAbandoned \/ UvSucceeds \/ UvFails
    PROVE  \E c \in CallId : Client!Run(c)
  <1> DEFINE fate == [c \in CallId |-> Fate(c)]
  <1>0. /\ calls \in Nat /\ \A i \in DOMAIN queue : queue[i].id \in 1..calls
        /\ busy.id \in 0..calls
    BY IdsTyped DEF RInv
  <1>1. /\ busy.id \in CallId /\ busy # NoRequest /\ busy' = NoRequest
        /\ UNCHANGED <<calls, hpc, call, report, queue>>
    BY AnswerSteps DEF RInv
  <1>2. PICK how \in {"done", "failed", "abandoned"} :
            outcome' = [outcome EXCEPT ![busy.id] = how]
    BY AnswerSteps DEF RInv
  <1>3. outcome \in [CallId -> {"none", "done", "failed", "abandoned"}]
    BY IdsTyped DEF RInv, TypeOK
  <1>4. \A i \in DOMAIN queue : busy.id < queue[i].id
    BY DEF RInv, InOrder
  <1>5. ASSUME NEW b \in CallId, b \in Held
        PROVE  ~(b < busy.id)
    <2>1. CASE b = busy.id
      BY <1>0, <2>1
    <2>2. ASSUME NEW i \in DOMAIN queue, b = queue[i].id
          PROVE  ~(b < busy.id)
      BY <1>0, <1>4, <2>2
    <2> QED
      BY <1>5, <2>1, <2>2 DEF Held
  <1>6. \A b \in 1..(busy.id - 1) : b \in CallId /\ b < busy.id
    BY <1>1, SessionAssumption DEF CallId
  <1>7. \A b \in 1..(busy.id - 1) : fate[b] # "sent"
    BY <1>5, <1>6 DEF Fate
  <1>8. fate[busy.id] = "sent"
    <2>1. busy.id \in Held
      BY DEF Held
    <2> QED
      BY <1>1, <2>1, Fates
  <1>9. ASSUME NEW c \in CallId
        PROVE  Fate(c)' = IF c = busy.id THEN "ran" ELSE Fate(c)
    <2>0. c # 0
      BY SessionAssumption DEF CallId
    <2>1. CASE c = busy.id
      <3>1. ~(c > calls') /\ outcome'[c] # "none"
        BY <1>0, <1>1, <1>2, <1>3, <2>1
      <3>2. c \notin Held'
        BY <1>0, <1>1, <1>4, <2>0, <2>1 DEF Held, NoRequest
      <3> QED
        BY <2>1, <3>1, <3>2 DEF Fate
    <2>2. CASE c # busy.id
      <3>1. outcome'[c] = outcome[c]
        BY <1>2, <1>3, <2>2
      <3>2. c \in Held' <=> c \in Held
        BY <1>1, <2>0, <2>2 DEF Held, NoRequest
      <3> QED
        BY <1>1, <2>2, <3>1, <3>2 DEF Fate
    <2> QED
      BY <2>1, <2>2
  <1>10. [c \in CallId |-> Fate(c)'] = [fate EXCEPT ![busy.id] = "ran"]
    BY <1>9
  <1>11. Client!Run(busy.id)
    BY <1>1, <1>7, <1>8, <1>10 DEF Client!Run
  <1> QED
    BY <1>1, <1>11

\* PID 1 dies, with all it was sent.
LEMMA DeathSteps ==
    ASSUME RInv, ContainerDies
    PROVE  Client!Lose
  <1>1. /\ UNCHANGED <<calls, hpc, call, report, outcome>>
        /\ Drained'
    BY DEF ContainerDies, hostVars, Drained
  <1>2. \A c \in CallId : c \notin Held'
    <2> TAKE c \in CallId
    <2>1. c # 0
      BY SessionAssumption DEF CallId
    <2> QED
      BY <1>1, <2>1 DEF Drained, Held, NoRequest
  <1>3. \A c \in CallId : \/ Fate(c)' = Fate(c)
                          \/ Fate(c)' = "lost" /\ Fate(c) \in {"new", "sent"}
    <2> TAKE c \in CallId
    <2>1. CASE c \in Held
      <3>1. /\ c <= calls /\ outcome[c] = "none" /\ Fate(c) = "sent"
            /\ hpc \in {"connect", "send"} => c # call.id
        BY <2>1, HeldIds, Fates DEF Held, RInv, DInv, NotYetSent
      <3>2. ~(c > calls)
        BY <3>1, IdsTyped, SessionAssumption DEF CallId, RInv
      <3> QED
        BY <1>1, <1>2, <3>1, <3>2 DEF Fate
    <2>2. CASE c \notin Held
      BY <1>1, <1>2, <2>2 DEF Fate
    <2> QED
      BY <2>1, <2>2
  <1> QED
    BY <1>1, <1>3, StepLoses DEF Open, Reported

\* Every step of the session is one of ToolCalls, or none.
LEMMA StepServesCalls == RInv /\ [Next]_vars => [Client!Next]_(Client!vars)
  <1> SUFFICES ASSUME RInv, [Next]_vars
               PROVE  Client!Next \/ UNCHANGED Client!vars
    BY DEF Client!vars
  <1> USE DEF Client!Next
  <1>1. ASSUME NEW t \in Timeouts, ExecutePython(t)
        PROVE  Client!Next
    BY <1>1, BeginSteps DEF ExecutePython
  <1>2. CASE InstallPackages
    BY <1>2, BeginSteps DEF InstallPackages
  <1>3. CASE SendRequest
    BY <1>3, SendSteps
  <1>4. CASE \/ NetworkConnectFails \/ AttachFails \/ SendFails \/ FrameRaises
             \/ RecvTimesOut \/ ConnectionCloses \/ NetworkDisconnectFails
    <2>1. hpc # "idle" /\ \E p \in {"idle", "disconnect"} : EndRpc(p, "error")
      BY <1>4 DEF NetworkConnectFails, AttachFails, SendFails, FrameRaises, RecvTimesOut,
                  ConnectionCloses, NetworkDisconnectFails, AfterError
    <2>2. UNCHANGED <<queue, busy, outcome>>
      BY <1>4, QuietSteps
    <2> QED
      BY <2>1, <2>2, ErrorSteps
  <1>5. CASE \/ NetworkConnect \/ SkipFrame \/ StrayOutput \/ Tick \/ UNCHANGED vars
             \/ ReadReply /\ hpc' # "idle"
    <2>1. UNCHANGED <<calls, call, queue, busy, outcome>>
      BY <1>5, QuietSteps
    <2>2. /\ hpc \in {"connect", "send"} <=> hpc' \in {"connect", "send"}
          /\ UNCHANGED <<Open, Reported>>
      BY <1>5 DEF NetworkConnect, SkipFrame, StrayOutput, Tick, ReadReply, Accept, EndRpc, vars, hostVars,
                  Open, Reported
    <2> QED
      BY <2>1, <2>2, SameFates, StepStutters
  <1>6. CASE ReadReply /\ hpc' = "idle"
    <2>1. 1 \in DOMAIN frames /\ frames[1].id = call.id /\ hpc = "recv"
      BY <1>6, IdsTyped DEF ReadReply, RInv, TypeOK
    <2>2. Drained /\ outcome[call.id] # "none"
      BY <2>1 DEF RInv, DInv, OwnIsLast, ResultRan
    <2>3. report'.kind = "result"
      BY <1>6 DEF ReadReply, Accept, EndRpc
    <2> QED
      BY <1>6, <2>1, <2>2, <2>3, QuietSteps, EndSteps
  <1>7. CASE NetworkDisconnect
    <2>1. hpc = "disconnect" /\ hpc' = "idle" /\ report' = report
      BY <1>7 DEF NetworkDisconnect
    <2>2. \/ report.kind = "error"
          \/ report.kind = "result" /\ Drained /\ outcome[call.id] # "none"
      BY <2>1 DEF RInv, DInv, DrainedOnReturn, Drained, ResultRan
    <2> QED
      BY <1>7, <2>1, <2>2, QuietSteps, EndSteps
  <1>8. CASE RestartSession \/ RestartFails
    <2>1. /\ hpc = "restart" /\ hpc' = "idle"
          /\ report' = report \/ report'.kind = "error"
      BY <1>8 DEF RestartSession, RestartFails, EndRpc
    <2>2. report.kind = "result" /\ Drained /\ outcome[call.id] # "none"
      BY <2>1 DEF RInv, DInv, DrainedOnReturn, Drained, ResultRan
    <2>3. /\ UNCHANGED <<calls, call, outcome>>
          /\ Drained' \/ UNCHANGED <<queue, busy>>
      BY <1>8, BlankSteps DEF RInv, Drained
    <2> QED
      BY <2>1, <2>2, <2>3, EndSteps
  <1>9. CASE TakeRequest \/ CodeReadsRequest
    BY <1>9, TakeSteps
  <1>10. CASE ExecEnds \/ ExecAbandoned \/ UvSucceeds \/ UvFails
    BY <1>10, RunSteps DEF CallId, Client!Id
  <1>11. CASE ContainerDies
    BY <1>11, DeathSteps
  <1> QED
    BY <1>1, <1>2, <1>3, <1>4, <1>5, <1>6, <1>7, <1>8, <1>9, <1>10, <1>11
    DEF Next, HostStep, ContainerStep

\* Whatever fails, the requests of a session are carried out at most once, in
\* the order of the calls, and not after a later call has returned a result.
THEOREM CallsAreServed == Spec => ServesCalls
  <1>1. Init => Client!Init
    <2> SUFFICES ASSUME Init PROVE Client!Init
      OBVIOUS
    <2>1. ASSUME NEW c \in CallId
          PROVE  Fate(c) = "none"
      <3>1. c > calls
        BY SessionAssumption DEF Init, CallId
      <3> QED
        BY <3>1 DEF Fate
    <2> QED
      BY <2>1 DEF Init, Client!Init, Client!Id, CallId
  <1>2. RInv /\ [Next]_vars => [Client!Next]_(Client!vars)
    BY StepServesCalls
  <1> QED
    BY <1>1, <1>2, RunInitially, RunKept, PTL DEF Spec, ServesCalls, Client!Spec

(***************************************************************************)
(* The two clocks                                                          *)
(***************************************************************************)

\* What a waiting host finds in its socket: nothing but stderr, or besides that
\* the response to its request, which tells of an abandoned thread.
Noise == \A i \in DOMAIN frames : frames[i] = Stderr
Own(f) == f.id = call.id /\ (abandoned => f.corrupted)

\* Where the request of a waiting host can be: not taken yet, running for at
\* least as long as the socket has been silent, answered, or lost with the
\* container.
Queued ==
    /\ alive /\ queue = <<call>> /\ busy = NoRequest /\ Noise
    /\ timer = 0 /\ ~abandoned
Running ==
    /\ alive /\ queue = <<>> /\ busy = call /\ Noise
    /\ timer <= age /\ age <= Deadline(call) /\ ~abandoned
Answered ==
    /\ Drained
    /\ \A i \in DOMAIN frames : frames[i] = Stderr \/ Own(frames[i])
    /\ \E i \in DOMAIN frames : Own(frames[i])
Gone ==
    /\ Drained /\ Noise
    /\ ~alive /\ ~abandoned

SInv ==
    /\ TInv
    /\ hpc \in {"idle", "send", "recv", "restart"}
    /\ hpc \in {"send", "recv"} => call.tool = "exec" /\ call.timeout \in Timeouts
    /\ hpc = "recv" => Queued \/ Running \/ Answered \/ Gone
    /\ hpc # "recv" => Drained
    /\ abandoned => hpc \in {"recv", "restart"}
    /\ ~torn

\* The host waits longer than the request of a short call can run.
LEMMA DeadlineFits ==
    ASSUME ShortCalls, call.tool = "exec", call.timeout \in Timeouts
    PROVE  Deadline(call) \in Nat /\ Deadline(call) < RecvTimeout
  <1>1. Deadline(call) = call.timeout + HardTimeout
    BY DEF Deadline
  <1>2. call.timeout + HardTimeout < RecvTimeout
    BY DEF ShortCalls
  <1>3. call.timeout \in Nat /\ HardTimeout \in Nat
    BY SessionAssumption
  <1> QED
    BY <1>1, <1>2, <1>3

\* Every step keeps short calls within the deadline of the host.
LEMMA ShortKept ==
    ASSUME ShortCalls
    PROVE  SInv /\ [Next]_vars => SInv'
  <1> SUFFICES ASSUME SInv, [Next]_vars
               PROVE  SInv'
    OBVIOUS
  <1> USE SessionAssumption
  <1>types. TypeOK /\ (hpc # "idle" => call \in Request) /\ TInv'
    BY TypesKept DEF SInv, TInv
  <1>own. hpc # "idle" => call # NoRequest /\ call.id # 0
    BY <1>types DEF Request, CallId, NoRequest, AllTools
  <1> USE DEF SInv, Drained
  <1>1. ASSUME NEW t \in Timeouts, ExecutePython(t)
        PROVE  SInv'
    BY <1>types, <1>1 DEF ExecutePython, Begin, containerVars
  <1>2. CASE InstallPackages
    BY <1>2 DEF InstallPackages, Begin, ShortCalls
  <1>3. CASE NetworkConnect \/ NetworkConnectFails \/ NetworkDisconnect
             \/ NetworkDisconnectFails
    BY <1>3 DEF NetworkConnect, NetworkConnectFails, NetworkDisconnect, NetworkDisconnectFails
  <1>4. CASE SendRequest
    <2>1. Queued'
      BY <1>4, <1>types DEF SendRequest, Queued, Noise, TypeOK
    <2> QED
      BY <1>4, <1>types, <2>1 DEF SendRequest
  <1>5. CASE AttachFails
    BY <1>5, <1>types DEF AttachFails, AfterError, EndRpc, containerVars
  <1>18. CASE SendFails
    BY <1>18 DEF SendFails, ShortCalls
  <1>head. ASSUME hpc = "recv", frames # <<>>
           PROVE  /\ Stderr # Garbled /\ Stderr.id # call.id /\ Garbled.id # call.id
                  /\ Head(frames) = Stderr \/ (Answered /\ Own(Head(frames)))
    <2>1. 1 \in DOMAIN frames /\ Head(frames) = frames[1]
      BY <1>types, <1>head DEF TypeOK
    <2>2. frames[1] = Stderr \/ (Answered /\ Own(frames[1]))
      BY <1>head, <2>1 DEF Queued, Running, Answered, Gone, Noise
    <2> QED
      BY <1>own, <1>head, <2>1, <2>2 DEF Stderr, Garbled
  <1>19. CASE FrameRaises
    BY <1>19, <1>head DEF FrameRaises, Own
  <1>6. CASE ReadReply
    <2>1. Answered /\ Own(Head(frames))
      BY <1>6, <1>head DEF ReadReply
    <2>2. abandoned => hpc' = "restart"
      BY <1>6, <2>1 DEF ReadReply, Accept, EndRpc, Own
    <2>3. hpc' \in {"idle", "restart"}
      BY <1>6 DEF ReadReply, Accept, EndRpc
    <2> QED
      BY <1>6, <1>types, <2>1, <2>2, <2>3 DEF ReadReply, Accept, EndRpc, containerVars, Answered
  <1>7. CASE SkipFrame
    <2>1. /\ hpc = "recv" /\ frames' = Tail(frames) /\ timer' = 0 /\ Head(frames) = Stderr
          /\ UNCHANGED <<hpc, call, queue, busy, age, alive, abandoned, torn>>
      BY <1>7, <1>head DEF SkipFrame, Own, containerVars
    <2>2. /\ \A i \in DOMAIN frames' : i + 1 \in DOMAIN frames /\ frames'[i] = frames[i + 1]
          /\ \A i \in DOMAIN frames \ {1} :
                 i - 1 \in DOMAIN frames' /\ frames'[i - 1] = frames[i]
          /\ frames[1] = Stderr
      BY <1>7, <1>types, <2>1 DEF SkipFrame, TypeOK
    <2>3. Noise => Noise'
      BY <2>2 DEF Noise
    <2>4. age \in Nat /\ Deadline(call)' = Deadline(call)
      BY <1>types, <2>1 DEF TypeOK, Deadline
    <2>5. Queued => Queued'
      BY <2>1, <2>3 DEF Queued
    <2>6. Running => Running'
      BY <2>1, <2>3, <2>4 DEF Running
    <2>7. Gone => Gone'
      BY <2>1, <2>3 DEF Gone
    <2>8. ASSUME Answered PROVE Answered'
      <3>1. PICK i \in DOMAIN frames : Own(frames[i])
        BY <2>8 DEF Answered
      <3>2. i # 1
        BY <1>head, <2>1, <2>2, <3>1, <1>7 DEF Own, SkipFrame
      <3>3. i - 1 \in DOMAIN frames' /\ frames'[i - 1] = frames[i]
        BY <2>2, <3>1, <3>2
      <3>4. \E j \in DOMAIN frames' : Own(frames[j])'
        BY <2>1, <3>1, <3>3 DEF Own
      <3>5. ASSUME NEW j \in DOMAIN frames'
            PROVE  frames'[j] = Stderr \/ Own(frames[j])'
        <4>1. frames'[j] = Stderr \/ Own(frames'[j])
          BY <2>2, <2>8 DEF Answered
        <4> QED
          BY <2>1, <4>1 DEF Own
      <3> QED
        BY <2>1, <2>8, <3>4, <3>5 DEF Answered
    <2> QED
      BY <1>types, <2>1, <2>5, <2>6, <2>7, <2>8
  <1>21. CASE StrayOutput
    <2>1. /\ UNCHANGED <<hpc, call, timer, queue, busy, age, alive, abandoned, torn>>
          /\ hpc = "recv" /\ alive /\ frames' = Append(frames, Stderr)
      BY <1>types, <1>21, StraySteps DEF containerVars, ShortCalls
    <2>2. /\ \A i \in DOMAIN frames' :
                 \/ i \in DOMAIN frames /\ frames'[i] = frames[i]
                 \/ frames'[i] = Stderr
          /\ \A i \in DOMAIN frames : i \in DOMAIN frames' /\ frames'[i] = frames[i]
      BY <1>types, <2>1 DEF TypeOK
    <2>3. Noise => Noise'
      BY <2>2 DEF Noise
    <2>4. Deadline(call)' = Deadline(call)
      BY <2>1 DEF Deadline
    <2>5. Queued => Queued'
      BY <2>1, <2>3 DEF Queued
    <2>6. Running => Running'
      BY <2>1, <2>3, <2>4 DEF Running
    <2>7. Answered => Answered'
      BY <2>1, <2>2 DEF Answered, Own, Stderr
    <2> QED
      BY <1>types, <2>1, <2>5, <2>6, <2>7 DEF Gone
  <1>8. CASE RecvTimesOut
    <2>1. call.tool = "exec" /\ call.timeout \in Timeouts
      BY <1>8 DEF RecvTimesOut
    <2>2. timer = RecvTimeout /\ frames = <<>>
      BY <1>8 DEF RecvTimesOut
    <2>3. Gone
      BY <1>8, <1>types, <2>1, <2>2, DeadlineFits
      DEF RecvTimesOut, Queued, Running, Answered, TypeOK
    <2> QED
      BY <1>8, <1>types, <2>3 DEF RecvTimesOut, EndRpc, AfterError, containerVars, Gone
  <1>9. CASE ConnectionCloses
    <2>1. Gone
      BY <1>9 DEF ConnectionCloses, Queued, Running, Answered
    <2> QED
      BY <1>9, <1>types, <2>1 DEF ConnectionCloses, EndRpc, AfterError, containerVars, Gone
  <1>10. CASE RestartSession
    BY <1>10, <1>types DEF RestartSession
  <1>11. CASE RestartFails
    BY <1>11 DEF RestartFails, ShortCalls
  <1>12. CASE TakeRequest
    <2>1. Queued /\ hpc = "recv"
      BY <1>12 DEF TakeRequest, Running, Answered, Gone
    <2>2. busy' = call /\ queue' = <<>> /\ age' = 0
      BY <1>12, <2>1, <1>types DEF TakeRequest, Queued
    <2>3. Running'
      BY <1>12, <2>1, <2>2, DeadlineFits DEF TakeRequest, Queued, Running, Noise, hostVars, Deadline
    <2> QED
      BY <1>12, <1>types, <2>1, <2>3 DEF TakeRequest, hostVars
  <1>13. ASSUME NEW c \in BOOLEAN, NEW how, busy.tool \in AllTools, Respond(c, how),
                abandoned' => c
         PROVE  SInv'
    <2>1. Running /\ hpc = "recv"
      BY <1>13 DEF Queued, Answered, Gone, NoRequest, AllTools
    <2>2. frames' = Append(frames, Response(c))
      BY <1>13, <2>1 DEF Respond, Arrivals, ShortCalls
    <2>3. Len(frames) + 1 \in DOMAIN frames' /\ frames'[Len(frames) + 1] = Response(c)
      BY <1>types, <2>2 DEF TypeOK
    <2>4. \A i \in DOMAIN frames' : frames'[i] = Stderr \/ frames'[i] = Response(c)
      BY <1>types, <2>1, <2>2 DEF TypeOK, Running, Noise
    <2>5. Response(c).id = call'.id /\ (abandoned' => Response(c).corrupted)
      BY <1>13, <2>1 DEF Response, Respond, Running
    <2>6. Answered'
      BY <1>13, <2>1, <2>3, <2>4, <2>5 DEF Answered, Own, Respond, Running, Stderr
    <2> QED
      BY <1>13, <1>types, <2>1, <2>6 DEF Respond
  <1>14. CASE ExecEnds \/ ExecAbandoned \/ UvSucceeds \/ UvFails
    <2>1. busy.tool \in AllTools
      BY <1>14 DEF ExecEnds, ExecAbandoned, UvSucceeds, UvFails, AllTools
    <2>2. Running
      BY <2>1 DEF Queued, Answered, Gone, NoRequest, AllTools
    <2>3. \E c \in BOOLEAN, how \in {"done", "failed", "abandoned"} :
             Respond(c, how) /\ (abandoned' => c)
      <3>1. CASE ExecAbandoned
        BY <3>1 DEF ExecAbandoned
      <3>2. CASE ExecEnds
        BY <3>2, <2>2 DEF ExecEnds, Running
      <3>3. CASE UvSucceeds
        BY <3>3, <2>2 DEF UvSucceeds, Running
      <3>4. CASE UvFails
        BY <3>4, <2>2 DEF UvFails, Running
      <3> QED
        BY <1>14, <3>1, <3>2, <3>3, <3>4
    <2> QED
      BY <1>13, <2>1, <2>3
  <1>20. CASE CodeReadsRequest
    BY <1>20 DEF CodeReadsRequest, Queued, Running, Answered, Gone, NoRequest
  <1>15. CASE ContainerDies
    <2>1. CASE hpc = "recv"
      <3>1. Gone' \/ Answered'
        BY <1>15, <2>1 DEF ContainerDies, Queued, Running, Answered, Gone, Noise, Own, hostVars
      <3> QED
        BY <1>15, <1>types, <2>1, <3>1 DEF ContainerDies, hostVars
    <2>2. CASE hpc # "recv"
      BY <1>15, <1>types, <2>2 DEF ContainerDies, hostVars
    <2> QED
      BY <2>1, <2>2
  <1>16. CASE Tick
    <2>1. hpc = "recv" /\ frames = <<>> /\ alive
      BY <1>16 DEF Tick, HostWaits
    <2>2. Running /\ age < Deadline(call)
      BY <1>16, <1>own, <2>1 DEF Tick, ContainerWaits, ShortCalls, Queued, Running, Answered, Gone
    <2>3. timer' = timer + 1 /\ age' = age + 1
      BY <1>16, <1>own, <2>1, <2>2 DEF Tick, Running
    <2>4. Running'
      BY <1>16, <1>types, <2>1, <2>2, <2>3, DeadlineFits DEF Tick, Running, Noise, TypeOK, Deadline
    <2> QED
      BY <1>16, <1>types, <2>1, <2>4 DEF Tick
  <1>17. CASE UNCHANGED vars
    BY <1>17, <1>types
    DEF vars, hostVars, containerVars, Queued, Running, Answered, Gone, Noise, Own, Deadline
  <1> QED
    BY <1>1, <1>2, <1>3, <1>4, <1>5, <1>6, <1>7, <1>8, <1>9, <1>10, <1>11, <1>12, <1>14,
       <1>15, <1>16, <1>17, <1>18, <1>19, <1>20, <1>21
    DEF Next, HostStep, ContainerStep

\* A client whose executions, with the hard timeout, fit into the socket's
\* timeout never has code run in a container that holds an abandoned thread:
\* the corrupted session is always noticed and restarted in time.
THEOREM ShortCallsAreSafe ==
    ASSUME ShortCalls
    PROVE  Spec => []NoUseAfterAbandon
  <1>1. Init => SInv
    BY TypesInitially DEF Init, SInv, Drained
  <1>2. SInv => NoUseAfterAbandon
    BY DEF SInv, NoUseAfterAbandon, Drained, Queued, Running, Answered, Gone
  <1> QED
    BY <1>1, <1>2, ShortKept, PTL DEF Spec
=============================================================================
