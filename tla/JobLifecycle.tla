----------------------------- MODULE JobLifecycle -----------------------------
(***************************************************************************)
(* What the job interface (application/interfaces/jobs.py) promises of a   *)
(* queued import: a row is created pending, handed out once, settled once, *)
(* and only a settled row may disappear.  Who performs the steps, and how  *)
(* many database statements each takes, is left to the modules that        *)
(* implement this one.                                                     *)
(***************************************************************************)
CONSTANT Jobs

VARIABLE state

JobStates == {"absent", "pending", "running", "succeeded", "failed"}

TerminalStates == {"succeeded", "failed"}

TypeOK == state \in [Jobs -> JobStates]

Init == state = [j \in Jobs |-> "absent"]

-----------------------------------------------------------------------------

Create(j) ==
    /\ state[j] = "absent"
    /\ state' = [state EXCEPT ![j] = "pending"]

HandOut(j) ==
    /\ state[j] = "pending"
    /\ state' = [state EXCEPT ![j] = "running"]

Settle(j) ==
    /\ state[j] = "running"
    /\ \E s \in TerminalStates : state' = [state EXCEPT ![j] = s]

(* A new worker disowns everything its predecessor left running. *)
Disown ==
    state' = [j \in Jobs |-> IF state[j] = "running" THEN "failed" ELSE state[j]]

(* Retention: any set of settled rows may be dropped. *)
Evict ==
    \E E \in SUBSET {j \in Jobs : state[j] \in TerminalStates} :
        state' = [j \in Jobs |-> IF j \in E THEN "absent" ELSE state[j]]

Next ==
    \/ \E j \in Jobs : Create(j) \/ HandOut(j) \/ Settle(j)
    \/ Disown
    \/ Evict

Spec == Init /\ [][Next]_state

=============================================================================
