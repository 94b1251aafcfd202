------------------------------- MODULE JobTable -------------------------------
(***************************************************************************)
(* The jobs table and the statements that                                  *)
(* infrastructure/jobs/repository.py commits against it.  Every action     *)
(* here is one committed transaction; the modules that extend this one add *)
(* the processes that issue them, and what those processes remember        *)
(* between two transactions.                                               *)
(*                                                                         *)
(* Time is counted in ticks of the clock the repository writes with        *)
(* (whole seconds, _iso): two rows created in the same tick carry the same *)
(* created_at and are ordered by id.  A new row is stamped before its      *)
(* transaction, which may commit at a later time; the other statements are *)
(* taken to commit in the tick of their stamp.                             *)
(***************************************************************************)
EXTENDS Integers, FiniteSets

CONSTANTS
    Jobs,           \* job ids; naturals stand for the order of the id column
    Fingerprints,   \* digests of the submitted payloads
    ClaimAttempts,  \* _CLAIM_ATTEMPTS: rows a claim pass reads
    TTL,            \* job_ttl_seconds, in ticks
    MaxTime         \* bound: the clock stops here

ASSUME TableAssumption ==
    /\ Jobs \subseteq Nat
    /\ IsFiniteSet(Jobs)
    /\ ClaimAttempts \in Nat \ {0}
    /\ TTL \in Nat
    /\ MaxTime \in Nat

VARIABLES
    rows,       \* rows[j]: the row with primary key j
    now,        \* the wall clock, read by _now()
    born        \* auxiliary: how many rows with primary key j were ever inserted

tableVars == <<rows, now, born>>

Settled == {"succeeded", "failed"}

Outcomes == {"none", "DeferMove", "RenameRequested"}

NoRow == [state |-> "absent"]

Row == [state   : {"pending", "running"} \cup Settled,
        fp      : Fingerprints,
        created : Nat,
        updated : Nat,
        outcome : Outcomes,
        error   : BOOLEAN]

TableTypeOK ==
    /\ rows \in [Jobs -> {NoRow} \cup Row]
    /\ now \in Nat
    /\ born \in [Jobs -> Nat]

TableInit ==
    /\ rows = [j \in Jobs |-> NoRow]
    /\ now = 0
    /\ born = [j \in Jobs |-> 0]

-----------------------------------------------------------------------------
(* Queries. *)

InState(s) == {j \in Jobs : rows[j].state = s}

(* Mutant: candidates ordered by id alone. *)
BeforeById(c, d) == c[2] < d[2]

(* ORDER BY created_at, id, over <<created_at, id>> pairs. *)
Before(c, d) == c[1] < d[1] \/ (c[1] = d[1] /\ c[2] < d[2])

PendingKeys == {<<rows[j].created, j>> : j \in InState("pending")}

(* The SELECT that opens a claim pass: the oldest pending rows, limited. *)
Candidates ==
    {c \in PendingKeys :
        Cardinality({d \in PendingKeys : Before(d, c)}) < ClaimAttempts}

-----------------------------------------------------------------------------
(* Statements. *)

(* INSERT of a pending row that was stamped at an earlier time, or just    *)
(* now; the primary key refuses a second one.                              *)
InsertRow(j, f, stamp) ==
    /\ rows[j].state = "absent"
    /\ rows' = [rows EXCEPT ![j] =
                  [state |-> "pending", fp |-> f, created |-> stamp,
                   updated |-> stamp, outcome |-> "none", error |-> FALSE]]
    /\ born' = [born EXCEPT ![j] = @ + 1]
    /\ UNCHANGED now

(* Mutant: the claiming UPDATE no longer asks that the row be pending. *)
ClaimRowUnguarded(j) ==
    /\ rows[j] # NoRow
    /\ rows' = [rows EXCEPT ![j] =
                  [@ EXCEPT !.state = "running", !.updated = now]]
    /\ UNCHANGED <<now, born>>

(* UPDATE ... WHERE id = j AND state = 'pending', rowcount 1. *)
ClaimRow(j) ==
    /\ rows[j].state = "pending"
    /\ rows' = [rows EXCEPT ![j] =
                  [@ EXCEPT !.state = "running", !.updated = now]]
    /\ UNCHANGED <<now, born>>

(* Mutant: finishing a row forgets its updated_at. *)
FinishedRowUnstamped(row, s, o) ==
    [row EXCEPT !.state = s,
                !.outcome = IF o = "none" THEN row.outcome ELSE o,
                !.error = (row.error \/ s = "failed")]

(* _finish: UPDATE ... WHERE id = j.  It asks nothing of the row's state,  *)
(* leaves the columns it was given no value for, and matches nothing when  *)
(* the row is gone.                                                        *)
FinishedRow(row, s, o) ==
    [row EXCEPT !.state = s,
                !.updated = now,
                !.outcome = IF o = "none" THEN row.outcome ELSE o,
                !.error = (row.error \/ s = "failed")]

FinishRow(j, s, o) ==
    /\ rows' = IF rows[j] = NoRow THEN rows
               ELSE [rows EXCEPT ![j] = FinishedRow(rows[j], s, o)]
    /\ UNCHANGED <<now, born>>

SucceedRow(j, o) == FinishRow(j, "succeeded", o)

FailRow(j) == FinishRow(j, "failed", "none")

(* Mutant: what was running is queued again instead of failed. *)
RequeueRunning ==
    /\ rows' = [j \in Jobs |->
                  IF rows[j].state = "running"
                  THEN [rows[j] EXCEPT !.state = "pending"]
                  ELSE rows[j]]
    /\ UNCHANGED <<now, born>>

(* fail_running: one UPDATE over every running row. *)
FailRunning ==
    /\ rows' = [j \in Jobs |->
                  IF rows[j].state = "running"
                  THEN FinishedRow(rows[j], "failed", "none")
                  ELSE rows[j]]
    /\ UNCHANGED <<now, born>>

(* Mutant: the DELETE looks at the age alone. *)
ExpiredAnyState(j) ==
    /\ rows[j] # NoRow
    /\ rows[j].updated < now - TTL

(* prune: DELETE settled rows last updated before the cutoff. *)
Expired(j) ==
    /\ rows[j].state \in Settled
    /\ rows[j].updated < now - TTL

PruneRows ==
    /\ rows' = [j \in Jobs |-> IF Expired(j) THEN NoRow ELSE rows[j]]
    /\ UNCHANGED <<now, born>>

AdvanceClock ==
    /\ now < MaxTime
    /\ now' = now + 1
    /\ UNCHANGED <<rows, born>>

-----------------------------------------------------------------------------

Lifecycle == INSTANCE JobLifecycle WITH state <- [j \in Jobs |-> rows[j].state]

(* Whoever issues the statements, and in whatever order, the rows live as  *)
(* the job interface promises: created pending, handed out once, settled   *)
(* once, and dropped only when settled.                                    *)
LifecycleSpec == Lifecycle!Spec

=============================================================================
