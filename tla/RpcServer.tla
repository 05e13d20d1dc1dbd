------------------------------ MODULE RpcServer ------------------------------
(***************************************************************************)
(* What a client of the session process may rely on, however the requests  *)
(* are carried out: a queue of requests is served one at a time in order,  *)
(* each request that can be parsed gets exactly one response before the    *)
(* next one is taken, and after the response to a shutdown there is none.  *)
(* The server may die at any time if MayDie, and requests may get lost     *)
(* before they are taken if MayLose.                                       *)
(***************************************************************************)
EXTENDS Naturals, Sequences

CONSTANTS MaxRequests, Methods, MayDie, MayLose

VARIABLES
    sent,      \* requests sent so far
    queue,     \* requests not taken yet
    busy,      \* the request being served, 0 for none
    last,      \* it is a shutdown: the last to be served
    answered,  \* the requests answered, in order
    up         \* the server runs

vars == <<sent, queue, busy, last, answered, up>>

Init ==
    /\ sent = 0 /\ queue = <<>> /\ busy = 0 /\ last = FALSE
    /\ answered = <<>> /\ up = TRUE

Request(m) ==
    /\ sent < MaxRequests
    /\ sent' = sent + 1
    /\ queue' = Append(queue, [id |-> sent + 1, method |-> m])
    /\ UNCHANGED <<busy, last, answered, up>>

Take ==
    /\ up /\ busy = 0 /\ queue # <<>>
    /\ queue' = Tail(queue)
    /\ IF Head(queue).method = "garbled"
       THEN UNCHANGED <<busy, last>>
       ELSE /\ busy' = Head(queue).id
            /\ last' = (Head(queue).method = "shutdown")
    /\ UNCHANGED <<sent, answered, up>>

Lose ==
    /\ MayLose
    /\ up /\ queue # <<>> /\ queue' = Tail(queue)
    /\ UNCHANGED <<sent, busy, last, answered, up>>

Respond ==
    /\ up /\ busy # 0
    /\ answered' = Append(answered, busy)
    /\ busy' = 0
    /\ up' = ~last
    /\ UNCHANGED <<sent, queue, last>>

Die ==
    /\ MayDie
    /\ up /\ busy' = 0 /\ up' = FALSE
    /\ UNCHANGED <<sent, queue, last, answered>>

Next ==
    \/ \E m \in Methods : Request(m)
    \/ Take \/ Lose
    \/ Respond
    \/ Die

\* A request is taken, and a response is written, before long.
Fairness == WF_vars(Take) /\ WF_vars(Respond)

Spec == Init /\ [][Next]_vars /\ Fairness
=============================================================================
