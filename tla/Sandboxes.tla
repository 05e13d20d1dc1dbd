----------------------------- MODULE Sandboxes -----------------------------
(***************************************************************************)
(* What the clients of the server may rely on, whatever the Docker daemon  *)
(* does.  A session comes to life once, keeps the files written to it      *)
(* until it is restarted, and is gone for good when it is ended or when    *)
(* the server is.  Nothing that is done for one session, and no failure of *)
(* it, changes another one.                                                *)
(***************************************************************************)
CONSTANTS Sid, File, Nobody

VARIABLES
    stage,       \* of each session: "new", "live" or "gone"
    files,       \* the files a live session holds
    restarting   \* the session that is being restarted, or Nobody

vars == <<stage, files, restarting>>

Live(s) == stage[s] = "live"

Init ==
    /\ stage = [s \in Sid |-> "new"]
    /\ files = [s \in Sid |-> {}]
    /\ restarting = Nobody

Create(s) ==
    /\ stage[s] = "new"
    /\ stage' = [stage EXCEPT ![s] = "live"]
    /\ UNCHANGED <<files, restarting>>

\* A session that cannot be created, or that is ended.
Leave(s) ==
    /\ stage[s] # "gone"
    /\ stage' = [stage EXCEPT ![s] = "gone"]
    /\ files' = [files EXCEPT ![s] = {}]
    /\ UNCHANGED restarting

Write(s, f) ==
    /\ Live(s)
    /\ files' = [files EXCEPT ![s] = @ \cup {f}]
    /\ UNCHANGED <<stage, restarting>>

Restart(s) ==
    /\ Live(s) /\ restarting = Nobody
    /\ restarting' = s
    /\ UNCHANGED <<stage, files>>

\* In the course of a restart the session loses its files, not its name.
Wipe ==
    /\ restarting # Nobody
    /\ files' = [files EXCEPT ![restarting] = {}]
    /\ restarting' \in {restarting, Nobody}
    /\ UNCHANGED stage

\* The restart failed before it came to that.
GiveUp ==
    /\ restarting' = Nobody
    /\ UNCHANGED <<stage, files>>

\* The server is gone, and with it all sessions.
Crash ==
    /\ stage' \in {t \in [Sid -> {"new", "gone"}] :
                       \A s \in Sid : t[s] = "new" => stage[s] = "new"}
    /\ files' = [s \in Sid |-> {}]
    /\ restarting' = Nobody

Next ==
    \/ \E s \in Sid : Create(s) \/ Leave(s) \/ Restart(s)
    \/ \E s \in Sid, f \in File : Write(s, f)
    \/ Wipe \/ GiveUp \/ Crash

Spec == Init /\ [][Next]_vars
=============================================================================
