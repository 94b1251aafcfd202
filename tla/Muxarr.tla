-------------------------------- MODULE Muxarr --------------------------------
(***************************************************************************)
(* One import from end to end: the shim *arr runs, the HTTP API, the jobs  *)
(* table and the worker.  Import j is driven by a shim of its own, which   *)
(* draws j as its job id.                                                  *)
(*                                                                         *)
(* The shim and the API share nothing but requests, and a request may be   *)
(* lost, its reply may be lost, and a POST may be served after the shim    *)
(* stopped waiting for it.  The shim's exit is what *arr acts on: "defer"  *)
(* and a printed DeferMove make *arr move the file itself, a printed       *)
(* RenameRequested makes it adopt the muxed file, a non-zero exit fails    *)
(* the import.                                                             *)
(*                                                                         *)
(* A tick is one request at its longest: the client's timeout plus the     *)
(* pause before the next attempt, or one hold of a long poll.              *)
(***************************************************************************)
EXTENDS JobTable

CONSTANTS
    Deadline,       \* MUXARR_TIMEOUT, in ticks
    MaxRetries,     \* MUXARR_MAX_RETRIES
    PostLife,       \* bound: how long a POST can be under way, in ticks
    MaxMuxes,       \* max_concurrent_muxes
    MaxCrashes      \* bound: how often the worker dies

ASSUME ShimAssumption ==
    /\ Deadline \in Nat
    /\ MaxRetries \in Nat \ {0}
    /\ PostLife \in Nat \ {0}
    /\ MaxMuxes \in Nat \ {0}
    /\ MaxCrashes \in Nat

VARIABLES
    shim,       \* shim[j]: where the script is, or how it exited
    started,    \* started[j]: when the script started
    sent,       \* sent[j]: when its outstanding request was sent
    failures,   \* failures[j]: ATTEMPTS while submitting, FAILURES while polling
    posts,      \* POSTs under way, served or not yet
    alive,      \* whether the worker process is up and reconciled
    stage,      \* stage[j]: what the worker's task for j is doing
    placed,     \* placed[j]: how often a muxed file replaced j's destination
    crashes     \* how often the worker died so far

shimVars == <<shim, started, sent, failures>>
workVars == <<alive, stage, placed, crashes>>
vars == <<rows, now, born, shim, started, sent, failures, posts,
          alive, stage, placed, crashes>>

(* How the script can exit: defer(); the protocol lines of the job; fail() *)
(* for each of its reasons.                                                *)
Printed == {"DeferMove", "RenameRequested"}
Gaveup == {"timeout", "error", "unknown", "lost"}
Exits == {"defer"} \cup Printed \cup Gaveup

ShimStates == {"idle", "submit", "posted", "poll", "asked"} \cup Exits

TypeOK ==
    /\ TableTypeOK
    /\ shim \in [Jobs -> ShimStates]
    /\ started \in [Jobs -> Nat]
    /\ sent \in [Jobs -> Nat]
    /\ failures \in [Jobs -> 0..MaxRetries]
    /\ posts \subseteq [job : Jobs, attempt : 1..MaxRetries, at : Nat]
    /\ alive \in BOOLEAN
    /\ stage \in [Jobs -> {"none", "importing", "placed"}]
    /\ placed \in [Jobs -> Nat]
    /\ crashes \in Nat

Init ==
    /\ TableInit
    /\ shim = [j \in Jobs |-> "idle"]
    /\ started = [j \in Jobs |-> 0]
    /\ sent = [j \in Jobs |-> 0]
    /\ failures = [j \in Jobs |-> 0]
    /\ posts = {}
    /\ alive = FALSE
    /\ stage = [j \in Jobs |-> "none"]
    /\ placed = [j \in Jobs |-> 0]
    /\ crashes = 0

Goto(j, s) == shim' = [shim EXCEPT ![j] = s]

-----------------------------------------------------------------------------
(* The submit loop. *)

(* Bound: a script starts only while the clock has time left to finish it. *)
TimeToRun == now + Deadline + MaxRetries < MaxTime

(* *arr runs the script, which draws its job id and sets its deadline. *)
Begin(j) ==
    /\ shim[j] = "idle"
    /\ TimeToRun
    /\ Goto(j, "submit")
    /\ started' = [started EXCEPT ![j] = now]
    /\ UNCHANGED <<rows, now, born, sent, failures, posts, workVars>>

SendPost(j) ==
    /\ shim[j] = "submit"
    /\ failures[j] < MaxRetries
    /\ failures' = [failures EXCEPT ![j] = @ + 1]
    /\ sent' = [sent EXCEPT ![j] = now]
    /\ posts' = posts \cup {[job |-> j, attempt |-> failures[j] + 1, at |-> now]}
    /\ Goto(j, "posted")
    /\ UNCHANGED <<rows, now, born, started, workVars>>

(* The attempt failed: no connection, the timeout, or a reply without the  *)
(* job id.  The POST itself may still be under way.                        *)
PostFailed(j) ==
    /\ shim[j] = "posted"
    /\ Goto(j, "submit")
    /\ UNCHANGED <<rows, now, born, started, sent, failures, posts, workVars>>

(* Attempts used up without an echo of the job id. *)
Defer(j) ==
    /\ shim[j] = "submit"
    /\ failures[j] = MaxRetries
    /\ Goto(j, "defer")
    /\ UNCHANGED <<rows, now, born, started, sent, failures, posts, workVars>>

(* The POST never reaches the API, or the API refuses it. *)
DropPost(m) ==
    /\ posts' = posts \ {m}
    /\ UNCHANGED <<rows, now, born, shimVars, workVars>>

(* The API serves a POST: create_or_get queues the job, stamped with some  *)
(* time since it was sent, or finds it queued.                             *)
Enqueue(m) ==
    IF rows[m.job] = NoRow
    THEN \E f \in Fingerprints, stamp \in m.at .. now : InsertRow(m.job, f, stamp)
    ELSE UNCHANGED tableVars

(* The reply is lost, or nobody waits for it any more. *)
ServePost(m) ==
    /\ Enqueue(m)
    /\ posts' = posts \ {m}
    /\ UNCHANGED <<shimVars, workVars>>

(* The reply echoes the job id to the attempt still waiting for it. *)
ServePostEchoed(m) ==
    /\ shim[m.job] = "posted"
    /\ failures[m.job] = m.attempt
    /\ Enqueue(m)
    /\ posts' = posts \ {m}
    /\ Goto(m.job, "poll")
    /\ failures' = [failures EXCEPT ![m.job] = 0]
    /\ UNCHANGED <<started, sent, workVars>>

-----------------------------------------------------------------------------
(* The poll loop. *)

(* Mutant: the deadline is never reached. *)
NeverPastDeadline(j) == FALSE

PastDeadline(j) == now >= started[j] + Deadline

GiveUp(j) ==
    /\ shim[j] = "poll"
    /\ PastDeadline(j)
    /\ Goto(j, "timeout")
    /\ UNCHANGED <<rows, now, born, started, sent, failures, posts, workVars>>

SendPoll(j) ==
    /\ shim[j] = "poll"
    /\ ~ PastDeadline(j)
    /\ sent' = [sent EXCEPT ![j] = now]
    /\ Goto(j, "asked")
    /\ UNCHANGED <<rows, now, born, started, failures, posts, workVars>>

(* get_job_protocol, rendered for the shim: what a poll says of row j. *)
PollState(j) ==
    CASE rows[j] = NoRow -> "unknown"
      [] rows[j] # NoRow /\ rows[j].state = "succeeded" /\ rows[j].outcome # "none"
            -> "done"
      [] rows[j] # NoRow /\ rows[j].state = "failed" -> "error"
      [] OTHER -> "running"

(* The answer settles the script: the job's own lines, or a failure. *)
Settle(j) ==
    /\ shim[j] = "asked"
    /\ PollState(j) # "running"
    /\ Goto(j, IF PollState(j) = "done" THEN rows[j].outcome ELSE PollState(j))
    /\ UNCHANGED <<rows, now, born, started, sent, failures, posts, workVars>>

(* AwaitJob held the poll to the end and the job still is not done. *)
StillRunning(j) ==
    /\ shim[j] = "asked"
    /\ PollState(j) = "running"
    /\ now > sent[j]
    /\ Goto(j, "poll")
    /\ failures' = [failures EXCEPT ![j] = 0]
    /\ UNCHANGED <<rows, now, born, started, sent, posts, workVars>>

(* No state line in what came back, if anything came back. *)
PollFailed(j) ==
    /\ shim[j] = "asked"
    /\ failures' = [failures EXCEPT ![j] = @ + 1]
    /\ Goto(j, IF failures[j] + 1 >= MaxRetries THEN "lost" ELSE "poll")
    /\ UNCHANGED <<rows, now, born, started, sent, posts, workVars>>

-----------------------------------------------------------------------------
(* The worker; JobQueue and Worker describe it in full. *)

Busy == {j \in Jobs : stage[j] # "none"}

Claim(j) ==
    /\ alive
    /\ Cardinality(Busy) < MaxMuxes
    /\ rows[j].state = "pending"
    /\ \A c \in PendingKeys : c = <<rows[j].created, j>> \/ Before(<<rows[j].created, j>>, c)
    /\ ClaimRow(j)
    /\ stage' = [stage EXCEPT ![j] = "importing"]
    /\ UNCHANGED <<shimVars, posts, alive, placed, crashes>>

(* finalise: the muxed file takes the destination's place. *)
Place(j) ==
    /\ stage[j] = "importing"
    /\ stage' = [stage EXCEPT ![j] = "placed"]
    /\ placed' = [placed EXCEPT ![j] = @ + 1]
    /\ UNCHANGED <<rows, now, born, shimVars, posts, alive, crashes>>

(* Mutant: an error after the file was put in place still defers. *)
ReportDeferAfterPlace(j) ==
    /\ stage[j] # "none"
    /\ SucceedRow(j, "DeferMove")
    /\ stage' = [stage EXCEPT ![j] = "none"]
    /\ UNCHANGED <<shimVars, posts, alive, placed, crashes>>

(* The import ended in DeferMove: nothing was written. *)
ReportDefer(j) ==
    /\ stage[j] = "importing"
    /\ SucceedRow(j, "DeferMove")
    /\ stage' = [stage EXCEPT ![j] = "none"]
    /\ UNCHANGED <<shimVars, posts, alive, placed, crashes>>

ReportRename(j) ==
    /\ stage[j] = "placed"
    /\ SucceedRow(j, "RenameRequested")
    /\ stage' = [stage EXCEPT ![j] = "none"]
    /\ UNCHANGED <<shimVars, posts, alive, placed, crashes>>

(* The import raised, or storing its result did. *)
ReportError(j) ==
    /\ stage[j] # "none"
    /\ FailRow(j)
    /\ stage' = [stage EXCEPT ![j] = "none"]
    /\ UNCHANGED <<shimVars, posts, alive, placed, crashes>>

Sweep ==
    /\ alive
    /\ Busy = {}
    /\ PruneRows
    /\ UNCHANGED <<shimVars, posts, workVars>>

Crash ==
    /\ alive
    /\ crashes < MaxCrashes
    /\ crashes' = crashes + 1
    /\ alive' = FALSE
    /\ stage' = [j \in Jobs |-> "none"]
    /\ UNCHANGED <<rows, now, born, shimVars, posts, placed>>

Restart ==
    /\ ~ alive
    /\ alive' = TRUE
    /\ FailRunning
    /\ UNCHANGED <<shimVars, posts, stage, placed, crashes>>

-----------------------------------------------------------------------------

(* The script never rests but in a request, and no request outlives its    *)
(* limit: the clock waits for both.                                        *)
ShimsOnTime ==
    \A j \in Jobs :
        /\ shim[j] \notin {"submit", "poll"}
        /\ shim[j] \in {"posted", "asked"} => now <= sent[j]

PostsOnTime == \A m \in posts : now < m.at + PostLife

Tick ==
    /\ ShimsOnTime
    /\ PostsOnTime
    /\ AdvanceClock
    /\ UNCHANGED <<shimVars, posts, workVars>>

ShimStep(j) ==
    \/ Begin(j) \/ SendPost(j) \/ PostFailed(j) \/ Defer(j)
    \/ GiveUp(j) \/ SendPoll(j) \/ Settle(j) \/ StillRunning(j) \/ PollFailed(j)

PostStep(m) == DropPost(m) \/ ServePost(m) \/ ServePostEchoed(m)

TaskStep(j) ==
    Place(j) \/ ReportDefer(j) \/ ReportRename(j) \/ ReportError(j)

Next ==
    \/ \E j \in Jobs : ShimStep(j) \/ Claim(j) \/ TaskStep(j)
    \/ \E m \in posts : PostStep(m)
    \/ Sweep \/ Crash \/ Restart
    \/ Tick

Spec == Init /\ [][Next]_vars

(* What the script and the API owe each other: the script runs on, a POST  *)
(* nobody answers times out, a poll is answered at the end of its hold at  *)
(* the latest, and time passes.  The worker owes nothing: it may be stuck  *)
(* in a mux, or not be there at all.                                       *)
ShimProgress(j) ==
    \/ SendPost(j) \/ Defer(j) \/ GiveUp(j) \/ SendPoll(j) \/ Settle(j) \/ StillRunning(j)
    \/ now > sent[j] /\ PostFailed(j)

Fairness ==
    /\ \A j \in Jobs : WF_vars(ShimProgress(j))
    /\ WF_vars(\E m \in posts : PostStep(m))
    /\ SF_vars(Tick)

FairSpec == Spec /\ Fairness

-----------------------------------------------------------------------------
(* Safety. *)

Live(j) == stage[j] # "none" \/ (rows[j] # NoRow /\ rows[j].state \in {"pending", "running"})

(* A DeferMove printed from the job hands *arr a destination muxarr has    *)
(* not written and will not write: no mux of the import is running,        *)
(* queued, or behind it (routes/imports.py, protocol.py, the shim's "done" *)
(* branch).                                                                *)
DeferMoveIsExclusive ==
    \A j \in Jobs : shim[j] = "DeferMove" => placed[j] = 0 /\ ~ Live(j)

(* A RenameRequested printed from the job names a file that is there: it   *)
(* replaced the destination exactly once and nothing is still writing.     *)
RenameIsPlaced ==
    \A j \in Jobs : shim[j] = "RenameRequested" => placed[j] = 1 /\ ~ Live(j)

AnswerIsTrue == DeferMoveIsExclusive /\ RenameIsPlaced

(* Retried, delayed and duplicated submissions of one job id queue one     *)
(* mux (routes/imports.py: "without queueing the mux twice").              *)
QueuedOnce == \A j \in Jobs : born[j] <= 1

(* A shim that was told the job is queued is never told it is unknown:     *)
(* the row outlives the longest silence between two polls.                 *)
NeverForgotten == \A j \in Jobs : shim[j] # "unknown"

RowOutlivesRetries == QueuedOnce /\ NeverForgotten

(* The exit-code contract in the shim's header: deferring because nothing  *)
(* was queued leaves muxarr out of the import, so that *arr's own move     *)
(* races no mux.                                                           *)
DeferMeansUntouched ==
    \A j \in Jobs : shim[j] = "defer" => ~ Live(j) /\ placed[j] = 0

-----------------------------------------------------------------------------
(* Liveness. *)

(* Every script exits, whatever becomes of the network and the worker. *)
ShimExits == \A j \in Jobs : shim[j] # "idle" ~> shim[j] \in Exits

=============================================================================
