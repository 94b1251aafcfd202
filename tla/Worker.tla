-------------------------------- MODULE Worker --------------------------------
(***************************************************************************)
(* The worker process (worker/service.py) and the tasks it spawns          *)
(* (use_cases/imports/run_job.py): start-up reconciliation, the loop that  *)
(* fills slots, sweeps and drains, and for each claimed job the mux thread *)
(* followed by its bookkeeping.                                            *)
(*                                                                         *)
(* Every database statement may fail, in which case it changed nothing and *)
(* its caller sees an exception; the process may be killed between any two *)
(* steps.  Reloads, heartbeats and health checks change none of the state  *)
(* below and are left out.                                                 *)
(***************************************************************************)
EXTENDS JobTable, Sequences

CONSTANTS
    Limit,          \* max_concurrent_muxes
    PageSize,       \* MAX_JOB_PAGE_SIZE
    HistoryMax,     \* history_max_records; 0 keeps everything
    InsertLag,      \* bound: ticks from the stamp of a new row to its commit
    MaxEvents       \* bound: kills and failing database statements, together

ASSUME WorkerAssumption ==
    /\ Limit \in Nat \ {0}
    /\ PageSize \in Nat \ {0}
    /\ HistoryMax \in Nat
    /\ InsertLag \in Nat
    /\ MaxEvents \in Nat

VARIABLES
    pc,         \* where run() is; "off" before start-up and after a kill
    stop,       \* the _stop event: SIGTERM or SIGINT was received
    listed,     \* reconcile: interrupted jobs whose staging is still to go
    task,       \* task[j]: where the task executing job j is
    outcome,    \* outcome[j]: what handle_import returned to that task
    staging,    \* staging[j]: that task has a staging file on disk
    history,    \* the operations table, oldest first, as <<id, born>>
    left,       \* jobs of killed tasks whose staging files are still on disk
    missed,     \* auxiliary: of left, those whose row no longer says so
    clean,      \* auxiliary: no statement failed since the process started
    crashes, faults

loopVars == <<pc, stop, listed>>
taskVars == <<task, outcome, staging, history>>
diskVars == <<left, missed>>
eventVars == <<clean, crashes, faults>>
vars == <<tableVars, loopVars, taskVars, diskVars, eventVars>>

StartUp == {"reconcile", "failrun", "discard"}
Serving == {"loop", "fill", "claiming", "wait", "idle", "sweep", "trim", "drain"}
Gone == {"off", "exited"}

TypeOK ==
    /\ TableTypeOK
    /\ pc \in StartUp \cup Serving \cup Gone
    /\ stop \in BOOLEAN
    /\ listed \subseteq Jobs
    /\ task \in [Jobs -> {"none", "mux", "record", "succeed", "fail", "rescue"}]
    /\ outcome \in [Jobs -> Outcomes]
    /\ staging \in [Jobs -> BOOLEAN]
    /\ history \in Seq(Jobs \X Nat)
    /\ missed \subseteq left /\ left \subseteq Jobs
    /\ clean \in BOOLEAN
    /\ crashes \in Nat /\ faults \in Nat

Init ==
    /\ TableInit
    /\ pc = "off"
    /\ stop = FALSE
    /\ listed = {}
    /\ task = [j \in Jobs |-> "none"]
    /\ outcome = [j \in Jobs |-> "none"]
    /\ staging = [j \in Jobs |-> FALSE]
    /\ history = <<>>
    /\ left = {}
    /\ missed = {}
    /\ clean = TRUE
    /\ crashes = 0 /\ faults = 0

Running == {j \in Jobs : task[j] # "none"}

At(here) == pc = here

Goto(there) == pc' = there

(* One more statement fails. *)
Event == crashes + faults < MaxEvents

Fault ==
    /\ Event
    /\ faults' = faults + 1
    /\ clean' = FALSE
    /\ UNCHANGED <<crashes, diskVars>>

-----------------------------------------------------------------------------
(* Start-up: reconcile the jobs a previous process left running. *)

Boot ==
    /\ pc \in Gone
    /\ Goto("reconcile")
    /\ stop' = FALSE
    /\ clean' = TRUE
    /\ UNCHANGED <<tableVars, listed, taskVars, diskVars, crashes, faults>>

(* The page is ordered newest first. *)
NewestRunning ==
    {j \in InState("running") :
        Cardinality({k \in InState("running") :
            Before(<<rows[j].created, j>>, <<rows[k].created, k>>)}) < PageSize}

ListRunning ==
    /\ At("reconcile")
    /\ listed' = NewestRunning
    /\ Goto("failrun")
    /\ UNCHANGED <<tableVars, stop, taskVars, diskVars, eventVars>>

(* Mutant: the stale rows are left as they are. *)
FailStaleSkipped ==
    /\ At("failrun")
    /\ Goto("discard")
    /\ UNCHANGED <<tableVars, stop, listed, taskVars, diskVars, eventVars>>

(* Every running row, the ones beyond the page as well. *)
FailStale ==
    /\ At("failrun")
    /\ FailRunning
    /\ missed' = missed \cup ((left \cap InState("running")) \ listed)
    /\ Goto("discard")
    /\ UNCHANGED <<stop, listed, taskVars, left, eventVars>>

(* discard_staging, one interrupted job at a time, off the event loop. *)
Discard(j) ==
    /\ At("discard")
    /\ j \in listed
    /\ listed' = listed \ {j}
    /\ left' = left \ {j}
    /\ missed' = missed \ {j}
    /\ UNCHANGED <<tableVars, pc, stop, taskVars, eventVars>>

Reconciled ==
    /\ At("discard")
    /\ listed = {}
    /\ Goto("loop")
    /\ UNCHANGED <<tableVars, stop, listed, taskVars, diskVars, eventVars>>

(* An exception is logged, and the worker starts serving all the same. *)
ReconcileFails ==
    /\ pc \in {"reconcile", "failrun"}
    /\ Fault
    /\ listed' = {}
    /\ Goto("loop")
    /\ UNCHANGED <<tableVars, stop, taskVars>>

-----------------------------------------------------------------------------
(* The loop. *)

(* Mutant: the stop event is not looked at. *)
LoopTopDeaf ==
    /\ At("loop")
    /\ Goto("fill")
    /\ UNCHANGED <<tableVars, stop, listed, taskVars, diskVars, eventVars>>

LoopTop ==
    /\ At("loop")
    /\ Goto(IF stop THEN "drain" ELSE "fill")
    /\ UNCHANGED <<tableVars, stop, listed, taskVars, diskVars, eventVars>>

(* _fill: a free slot, no stop yet; the claim itself is awaited. *)
AskForJob ==
    /\ At("fill")
    /\ ~ stop
    /\ Cardinality(Running) < Limit
    /\ Goto("claiming")
    /\ UNCHANGED <<tableVars, stop, listed, taskVars, diskVars, eventVars>>

(* _fill is done: on to waiting for a task, or to the idle pause. *)
AfterFill == Goto(IF Running = {} THEN "idle" ELSE "wait")

SlotsFull ==
    /\ At("fill")
    /\ stop \/ Cardinality(Running) >= Limit
    /\ AfterFill
    /\ UNCHANGED <<tableVars, stop, listed, taskVars, diskVars, eventVars>>

OldestPending(j) ==
    /\ rows[j].state = "pending"
    /\ \A c \in PendingKeys :
          c = <<rows[j].created, j>> \/ Before(<<rows[j].created, j>>, c)

Claim(j) ==
    /\ At("claiming")
    /\ OldestPending(j)
    /\ ClaimRow(j)
    /\ task' = [task EXCEPT ![j] = "mux"]
    /\ Goto("fill")
    /\ UNCHANGED <<stop, listed, outcome, staging, history, diskVars, eventVars>>

NothingPending ==
    /\ At("claiming")
    /\ PendingKeys = {}
    /\ AfterFill
    /\ UNCHANGED <<tableVars, stop, listed, taskVars, diskVars, eventVars>>

(* claim_next raises before its UPDATE is committed. *)
ClaimFails ==
    /\ At("claiming")
    /\ Fault
    /\ AfterFill
    /\ UNCHANGED <<tableVars, stop, listed, taskVars>>

(* claim_next commits, then fails to read the claimed row back: _claim     *)
(* swallows the exception and no task is started.                          *)
ClaimReadBackFails(j) ==
    /\ At("claiming")
    /\ OldestPending(j)
    /\ Fault
    /\ ClaimRow(j)
    /\ AfterFill
    /\ UNCHANGED <<stop, listed, taskVars>>

(* asyncio.wait returns: a task finished, or the poll interval is over. *)
Wake ==
    /\ At("wait")
    /\ Goto("loop")
    /\ UNCHANGED <<tableVars, stop, listed, taskVars, diskVars, eventVars>>

(* The idle pause ends; the sweep is due, or it is not. *)
IdleOver ==
    /\ At("idle")
    /\ \E there \in {"sweep", "loop"} : Goto(there)
    /\ UNCHANGED <<tableVars, stop, listed, taskVars, diskVars, eventVars>>

SweepJobs ==
    /\ At("sweep")
    /\ PruneRows
    /\ Goto("trim")
    /\ UNCHANGED <<stop, listed, taskVars, diskVars, eventVars>>

(* history.prune: the newest HistoryMax operations stay. *)
Trimmed(h) ==
    IF HistoryMax = 0 \/ Len(h) <= HistoryMax
    THEN h
    ELSE SubSeq(h, Len(h) - HistoryMax + 1, Len(h))

SweepHistory ==
    /\ At("trim")
    /\ history' = Trimmed(history)
    /\ Goto("loop")
    /\ UNCHANGED <<tableVars, stop, listed, task, outcome, staging, diskVars, eventVars>>

(* Either half of the sweep may fail without affecting the other. *)
SweepFails ==
    /\ pc \in {"sweep", "trim"}
    /\ Fault
    /\ Goto(IF pc = "sweep" THEN "trim" ELSE "loop")
    /\ UNCHANGED <<tableVars, stop, listed, taskVars>>

(* gather: the process ends when the last task has. *)
Drained ==
    /\ At("drain")
    /\ Running = {}
    /\ Goto("exited")
    /\ UNCHANGED <<tableVars, stop, listed, taskVars, diskVars, eventVars>>

-----------------------------------------------------------------------------
(* A task: the mux thread, then the bookkeeping. *)

Advance(j, s) == task' = [task EXCEPT ![j] = s]

(* staged_output opens the staging file ... *)
Stage(j) ==
    /\ task[j] = "mux"
    /\ ~ staging[j]
    /\ staging' = [staging EXCEPT ![j] = TRUE]
    /\ UNCHANGED <<tableVars, loopVars, task, outcome, history, diskVars, eventVars>>

(* ... and has removed it again by the time handle_import returns ... *)
MuxReturns(j, o) ==
    /\ task[j] = "mux"
    /\ staging' = [staging EXCEPT ![j] = FALSE]
    /\ outcome' = [outcome EXCEPT ![j] = o]
    /\ Advance(j, "record")
    /\ UNCHANGED <<tableVars, loopVars, history, diskVars, eventVars>>

(* ... or raises. *)
MuxRaises(j) ==
    /\ task[j] = "mux"
    /\ staging' = [staging EXCEPT ![j] = FALSE]
    /\ Advance(j, "fail")
    /\ UNCHANGED <<tableVars, loopVars, outcome, history, diskVars, eventVars>>

(* _record inserts the operation row; losing it is not an error. *)
Record(j) ==
    /\ task[j] = "record"
    /\ \/ history' = Append(history, <<j, born[j]>>) /\ UNCHANGED <<diskVars, eventVars>>
       \/ Fault /\ UNCHANGED history
    /\ Advance(j, "succeed")
    /\ UNCHANGED <<tableVars, loopVars, outcome, staging>>

(* The task is over, and its slot free. *)
Ends(j) ==
    /\ Advance(j, "none")
    /\ outcome' = [outcome EXCEPT ![j] = "none"]

StoreSuccess(j) ==
    /\ task[j] = "succeed"
    /\ SucceedRow(j, outcome[j])
    /\ Ends(j)
    /\ UNCHANGED <<loopVars, staging, history, diskVars, eventVars>>

StoreFailure(j) ==
    /\ task[j] = "fail"
    /\ FailRow(j)
    /\ Ends(j)
    /\ UNCHANGED <<loopVars, staging, history, diskVars, eventVars>>

(* Mutant: the exception is dropped with the task. *)
StoreFailsSilently(j) ==
    /\ task[j] \in {"succeed", "fail"}
    /\ Fault
    /\ Ends(j)
    /\ UNCHANGED <<tableVars, loopVars, staging, history>>

(* The final statement of run_job raises; _execute catches it. *)
StoreFails(j) ==
    /\ task[j] \in {"succeed", "fail"}
    /\ Fault
    /\ Advance(j, "rescue")
    /\ UNCHANGED <<tableVars, loopVars, outcome, staging, history>>

Rescue(j) ==
    /\ task[j] = "rescue"
    /\ FailRow(j)
    /\ Ends(j)
    /\ UNCHANGED <<loopVars, staging, history, diskVars, eventVars>>

(* The rescue raises too: the task dies with it. *)
RescueFails(j) ==
    /\ task[j] = "rescue"
    /\ Fault
    /\ Ends(j)
    /\ UNCHANGED <<tableVars, loopVars, staging, history>>

-----------------------------------------------------------------------------
(* The surroundings. *)

Submit(j) ==
    /\ \E f \in Fingerprints, stamp \in 0..now :
          stamp >= now - InsertLag /\ InsertRow(j, f, stamp)
    /\ UNCHANGED <<loopVars, taskVars, diskVars, eventVars>>

Signal ==
    /\ pc \notin Gone
    /\ ~ stop
    /\ stop' = TRUE
    /\ UNCHANGED <<tableVars, pc, listed, taskVars, diskVars, eventVars>>

(* SIGKILL, or the machine: tasks and memory go, files and rows stay.  The *)
(* interrupted jobs that reconciliation has failed and not yet discarded   *)
(* are not running any more, and the next start will not find them.        *)
Kill ==
    /\ pc \notin Gone
    /\ Event
    /\ crashes' = crashes + 1
    /\ Goto("off")
    /\ stop' = FALSE
    /\ listed' = {}
    /\ task' = [j \in Jobs |-> "none"]
    /\ outcome' = [j \in Jobs |-> "none"]
    /\ staging' = [j \in Jobs |-> FALSE]
    /\ left' = left \cup {j \in Jobs : staging[j]}
    /\ missed' = IF At("discard") THEN missed \cup (listed \cap left) ELSE missed
    /\ clean' = TRUE
    /\ UNCHANGED <<tableVars, history, faults>>

Tick ==
    /\ AdvanceClock
    /\ UNCHANGED <<loopVars, taskVars, diskVars, eventVars>>

LoopStep ==
    \/ ListRunning \/ FailStale \/ (\E j \in Jobs : Discard(j)) \/ Reconciled
    \/ ReconcileFails
    \/ LoopTop \/ AskForJob \/ SlotsFull
    \/ (\E j \in Jobs : Claim(j) \/ ClaimReadBackFails(j)) \/ NothingPending \/ ClaimFails
    \/ Wake \/ IdleOver \/ SweepJobs \/ SweepHistory \/ SweepFails
    \/ Drained

MuxEnds(j) ==
    MuxRaises(j) \/ \E o \in Outcomes \ {"none"} : MuxReturns(j, o)

TaskStep(j) ==
    \/ Stage(j) \/ MuxEnds(j)
    \/ Record(j) \/ StoreSuccess(j) \/ StoreFailure(j)
    \/ StoreFails(j) \/ Rescue(j) \/ RescueFails(j)

Next ==
    \/ Boot \/ LoopStep
    \/ \E j \in Jobs : TaskStep(j) \/ Submit(j)
    \/ Signal \/ Kill \/ Tick

Spec == Init /\ [][Next]_vars

(* The loop and the tasks run on, a mux ends (mkvmerge exits or is timed   *)
(* out), and a supervisor restarts the process.                            *)
Fairness ==
    /\ WF_vars(Boot \/ LoopStep)
    /\ \A j \in Jobs :
          WF_vars(MuxEnds(j) \/ Record(j) \/ StoreSuccess(j) \/ StoreFailure(j) \/ Rescue(j))

FairSpec == Spec /\ Fairness

-----------------------------------------------------------------------------
(* Safety. *)

(* Since the process started and while the database answered, the worker   *)
(* leaves nothing behind.  While it serves, every running row has a task   *)
(* (no shim polls for ever on behalf of nobody), and no staging file of a  *)
(* killed one, gigabytes and hidden, is still there, but for those of jobs *)
(* beyond the page or cut off by a second kill while they were discarded.  *)
(* A graceful stop waits for what is in flight, so the next start has      *)
(* nothing to reconcile.                                                   *)
NothingLeftBehind ==
    clean =>
        /\ pc \in Serving => InState("running") \subseteq Running /\ left \subseteq missed
        /\ pc = "exited" => InState("running") = {} /\ \A j \in Jobs : ~ staging[j]

(* An import is executed at most once per submission, kills and restarts   *)
(* included: no submission leaves two operations in the history.           *)
RecordedOnce ==
    \A m, n \in 1..Len(history) : history[m] = history[n] => m = n

-----------------------------------------------------------------------------
(* What a step may never do. *)

(* One failing statement, wherever it strikes, never ends a task with its  *)
(* row still running (_execute: "the job must not stay running").          *)
TaskEndSettles ==
    [][\A j \in Jobs :
          faults' <= 1 /\ task[j] # "none" /\ task'[j] = "none" /\ pc' # "off" =>
              rows'[j].state \in Settled]_vars

-----------------------------------------------------------------------------
(* Liveness. *)

(* A signalled worker ends, whatever fails on the way, and a running job   *)
(* settles, across kills and restarts, unless a statement failed.          *)
StopExits == stop ~> pc \in Gone

RunningSettles ==
    \A j \in Jobs :
        rows[j].state = "running" ~> rows[j].state # "running" \/ faults > 0

WorkerProgresses == StopExits /\ RunningSettles

=============================================================================
