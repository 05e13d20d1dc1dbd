--------------------------- MODULE ToolCallsProofs ---------------------------
(***************************************************************************)
(* What implementing ToolCalls is worth to a client: theorems about the    *)
(* abstract module, which hold of Session and Sandbox because each of      *)
(* them implements it.                                                     *)
(***************************************************************************)
EXTENDS ToolCalls, TLAPS

TypeOK ==
    /\ calls \in 0..MaxCalls
    /\ open \in {0, calls}
    /\ fate \in [Id -> {"none", "new", "sent", "ran", "lost"}]
    /\ report \in {"none", "result", "error"}

\* Calls are made in the order of their numbers; only the open one can have a
\* request that is not sent.
Numbered ==
    /\ \A c \in Id : fate[c] = "none" <=> c > calls
    /\ \A c \in Id : fate[c] = "new" => c = open

\* After a call has returned a result nothing the client asked for is under way,
\* or ever will be, and the call has been carried out.
NothingUnderWay ==
    report = "result" =>
        /\ open = 0
        /\ calls \in Id /\ fate[calls] = "ran"
        /\ \A c \in 1..calls : fate[c] \in {"ran", "lost"}

TInv == TypeOK /\ Numbered /\ NothingUnderWay

\* A request is carried out at most once, and one that is lost never is; it is
\* carried out when all before it have been, or never will be.
OnceInOrder ==
    \A c \in Id :
        /\ fate[c] \in {"ran", "lost"} => fate'[c] = fate[c]
        /\ fate[c] # "ran" /\ fate'[c] = "ran" =>
               \A b \in Id : b < c => fate[b] \in {"ran", "lost"}

\* The first call is to come.
LEMMA InitTInv == ASSUME MaxCalls \in Nat, Init PROVE TInv
  BY DEF Init, TInv, TypeOK, Numbered, NothingUnderWay, Id

\* Every step keeps the invariant.
LEMMA StepTInv ==
  ASSUME MaxCalls \in Nat, TInv, [Next]_vars
  PROVE  TInv'
<1>0. /\ calls \in Nat /\ calls <= MaxCalls /\ open \in {0, calls} /\ Id \subseteq Nat \ {0}
      /\ \A c \in 1..calls : c \in Id
      /\ fate \in [Id -> {"none", "new", "sent", "ran", "lost"}]
  BY DEF TInv, TypeOK, Id
<1>1. CASE Call
  <2>1. /\ calls + 1 \in Id /\ calls' = calls + 1 /\ open' = calls + 1 /\ report' = "none"
        /\ fate' = [fate EXCEPT ![calls + 1] = "new"] /\ open = 0
    BY <1>0, <1>1 DEF Call, Id
  <2>2. TypeOK' /\ NothingUnderWay'
    BY <1>0, <2>1 DEF TypeOK, NothingUnderWay, Id
  <2>3. ASSUME NEW c \in Id
        PROVE  (fate'[c] = "none" <=> c > calls') /\ (fate'[c] = "new" => c = open')
    <3>1. CASE c = calls + 1
      BY <1>0, <2>1, <3>1
    <3>2. CASE c # calls + 1
      BY <1>0, <2>1, <3>2 DEF TInv, Numbered
    <3> QED
      BY <3>1, <3>2
  <2> QED
    BY <2>2, <2>3 DEF TInv, Numbered
<1>2. ASSUME NEW c \in Id, NEW f \in {"sent", "ran"}, fate[c] \in {"new", "sent"},
             fate' = [fate EXCEPT ![c] = f], UNCHANGED <<calls, open, report>>,
             open # 0 \/ fate[c] = "sent"
      PROVE  TInv'
  <2>1. report # "result"
    <3>1. fate[c] # "none" /\ c \in 1..calls
      BY <1>0, <1>2 DEF TInv, Numbered, Id
    <3> QED
      BY <1>2, <3>1 DEF TInv, NothingUnderWay
  <2>2. TypeOK'
    BY <1>2 DEF TInv, TypeOK
  <2>3. Numbered'
    BY <1>0, <1>2 DEF TInv, Numbered
  <2> QED
    BY <1>2, <2>1, <2>2, <2>3 DEF TInv, NothingUnderWay
<1>3. CASE Send
  <2>1. open \in Id
    BY <1>0, <1>3 DEF Send, Id
  <2>2. PICK c \in Id : c = open
    BY <2>1
  <2> QED
    BY <1>2, <1>3, <2>2 DEF Send
<1>4. ASSUME NEW c \in Id, Run(c)
      PROVE  TInv'
  BY <1>2, <1>4 DEF Run
<1>5. CASE Lose
  <2>1. UNCHANGED <<calls, open, report>>
    BY <1>5 DEF Lose
  <2>2. /\ fate' \in [Id -> {"none", "new", "sent", "ran", "lost"}]
        /\ \A c \in Id : \/ fate'[c] = fate[c]
                         \/ fate'[c] = "lost" /\ fate[c] \in {"new", "sent"}
    BY <1>0, <1>5 DEF Lose
  <2>3. TypeOK' /\ Numbered'
    BY <2>1, <2>2 DEF TInv, TypeOK, Numbered
  <2>4. NothingUnderWay'
    BY <1>0, <2>1, <2>2 DEF TInv, NothingUnderWay
  <2> QED
    BY <2>3, <2>4 DEF TInv
<1>6. CASE Return
  <2>1. /\ open # 0 /\ open = calls /\ calls \in Id /\ fate[calls] = "ran"
        /\ open' = 0 /\ report' = "result" /\ UNCHANGED <<calls, fate>>
        /\ \A c \in Id : fate[c] # "sent"
    BY <1>0, <1>6 DEF Return, Id
  <2>2. \A c \in Id : fate[c] # "new"
    BY <2>1 DEF TInv, Numbered
  <2>3. ASSUME NEW c \in 1..calls
        PROVE  fate[c] \in {"ran", "lost"}
    <3>1. c \in Id /\ ~(c > calls)
      BY <1>0
    <3>2. fate[c] # "none"
      BY <3>1 DEF TInv, Numbered
    <3> QED
      BY <1>0, <2>1, <2>2, <3>1, <3>2
  <2> QED
    BY <2>1, <2>2, <2>3 DEF TInv, TypeOK, Numbered, NothingUnderWay
<1>7. CASE Fail
  BY <1>0, <1>7 DEF Fail, TInv, TypeOK, Numbered, NothingUnderWay
<1>8. CASE UNCHANGED vars
  BY <1>8 DEF vars, TInv, TypeOK, Numbered, NothingUnderWay
<1> QED
  BY <1>1, <1>3, <1>4, <1>5, <1>6, <1>7, <1>8 DEF Next

\* Every step carries requests out in their order.
LEMMA StepOnceInOrder ==
  ASSUME MaxCalls \in Nat, TInv, [Next]_vars
  PROVE  OnceInOrder
<1>0. /\ calls \in Nat /\ open \in {0, calls} /\ Id \subseteq Nat \ {0}
      /\ fate \in [Id -> {"none", "new", "sent", "ran", "lost"}]
      /\ \A c \in Id : fate[c] = "none" <=> c > calls
      /\ \A c \in Id : fate[c] = "new" => c = open
  BY DEF TInv, TypeOK, Numbered, Id
<1>1. CASE Call
  <2>1. fate' = [fate EXCEPT ![calls + 1] = "new"]
    BY <1>1 DEF Call
  <2>2. \A c \in Id : c = calls + 1 => fate[c] = "none"
    BY <1>0
  <2> QED
    BY <1>0, <2>1, <2>2 DEF OnceInOrder
<1>2. CASE Send
  BY <1>0, <1>2 DEF Send, OnceInOrder
<1>3. ASSUME NEW r \in Id, Run(r)
      PROVE  OnceInOrder
  <2>1. fate[r] = "sent" /\ fate' = [fate EXCEPT ![r] = "ran"]
    BY <1>3 DEF Run
  <2>2. ASSUME NEW b \in Id, b < r
        PROVE  fate[b] \in {"ran", "lost"}
    <3>1. b \in 1..(r - 1)
      BY <1>0, <2>2
    <3>2. fate[b] # "sent"
      BY <1>3, <3>1 DEF Run
    <3>3. ~(r > calls)
      BY <1>0, <2>1
    <3>4. ~(b > calls) /\ b # open
      BY <1>0, <2>2, <3>3
    <3> QED
      BY <1>0, <3>2, <3>4
  <2> QED
    BY <1>0, <2>1, <2>2 DEF OnceInOrder
<1>4. CASE Lose \/ Fail
  <2>1. \A c \in Id : \/ fate'[c] = fate[c]
                      \/ fate'[c] = "lost" /\ fate[c] \in {"new", "sent"}
    BY <1>0, <1>4 DEF Lose, Fail
  <2> QED
    BY <2>1 DEF OnceInOrder
<1>5. CASE Return \/ UNCHANGED vars
  BY <1>5 DEF Return, vars, OnceInOrder
<1> QED
  BY <1>1, <1>2, <1>3, <1>4, <1>5 DEF Next

\* When a tool call has returned a result, its request has been carried out and
\* no earlier one is still with the container, whatever failed before.
THEOREM ResultsAreLast ==
  ASSUME MaxCalls \in Nat
  PROVE  Init /\ [][Next]_vars => []NothingUnderWay
<1>1. TInv => NothingUnderWay
  BY DEF TInv
<1> QED
  BY <1>1, InitTInv, StepTInv, PTL

\* No request is carried out twice, none after it was lost, and none before an
\* older one.
THEOREM RunsOnceInOrder ==
  ASSUME MaxCalls \in Nat
  PROVE  Init /\ [][Next]_vars => [][OnceInOrder]_vars
<1>1. TInv /\ [Next]_vars => [OnceInOrder]_vars
  BY StepOnceInOrder
<1> QED
  BY <1>1, InitTInv, StepTInv, PTL
=============================================================================
