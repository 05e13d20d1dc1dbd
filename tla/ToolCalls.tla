------------------------------ MODULE ToolCalls ------------------------------
(***************************************************************************)
(* What a client of one session may rely on, whatever the socket, the      *)
(* network and the container do.  It makes one tool call at a time.  A     *)
(* call that returns a result has been carried out, once, and nothing the  *)
(* client asked for before is still under way.  A call that fails may have *)
(* been carried out, may never be, or may be later, before the next call   *)
(* that returns a result.  That a call returns at all is not promised.     *)
(***************************************************************************)
EXTENDS Naturals

CONSTANT MaxCalls

Id == 1..MaxCalls

VARIABLES
    calls,     \* calls made so far
    open,      \* the call that has not returned, 0 for none
    fate,      \* what became of the request of each call: not made, not sent
               \* ("new"), with the container ("sent"), carried out ("ran"), or
               \* never to be carried out ("lost")
    report     \* how the last call returned

vars == <<calls, open, fate, report>>

Init ==
    /\ calls = 0 /\ open = 0 /\ report = "none"
    /\ fate = [c \in Id |-> "none"]

Call ==
    /\ open = 0 /\ calls < MaxCalls
    /\ calls' = calls + 1 /\ open' = calls + 1 /\ report' = "none"
    /\ fate' = [fate EXCEPT ![calls + 1] = "new"]

Send ==
    /\ open # 0 /\ fate[open] = "new"
    /\ fate' = [fate EXCEPT ![open] = "sent"]
    /\ UNCHANGED <<calls, open, report>>

\* Requests are carried out in the order of the calls.
Run(c) ==
    /\ fate[c] = "sent"
    /\ \A b \in 1..(c - 1) : fate[b] # "sent"
    /\ fate' = [fate EXCEPT ![c] = "ran"]
    /\ UNCHANGED <<calls, open, report>>

Lose ==
    /\ \E S \in SUBSET {c \in Id : fate[c] \in {"new", "sent"}} :
           fate' = [c \in Id |-> IF c \in S THEN "lost" ELSE fate[c]]
    /\ UNCHANGED <<calls, open, report>>

Return ==
    /\ open # 0 /\ fate[open] = "ran"
    /\ \A c \in Id : fate[c] # "sent"
    /\ open' = 0 /\ report' = "result"
    /\ UNCHANGED <<calls, fate>>

Fail ==
    /\ open # 0
    /\ open' = 0 /\ report' = "error"
    /\ fate' = [c \in Id |-> IF fate[c] = "new" THEN "lost" ELSE fate[c]]
    /\ UNCHANGED calls

Next ==
    \/ Call \/ Send \/ Lose \/ Return \/ Fail
    \/ \E c \in Id : Run(c)

Spec == Init /\ [][Next]_vars
=============================================================================
