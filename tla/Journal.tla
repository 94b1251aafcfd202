------------------------------- MODULE Journal -------------------------------
(***************************************************************************)
(* What an import tells about itself: core/logging.py captures the records *)
(* it emits, use_cases/imports/run_job.py stores them with the job while   *)
(* it runs and with the operation it ends up as.                           *)
(*                                                                         *)
(* Each import has a buffer of at most Limit entries and a log handler of  *)
(* its own; every handler is given every record.  A second coroutine, the  *)
(* follower, stores the buffer whenever it has grown.  An entry is the     *)
(* import that emitted it and its number among that import's records.      *)
(***************************************************************************)
EXTENDS History, SequencesExt

CONSTANTS
    Imports,        \* jobs the worker runs at the same time
    Limit,          \* operation_log_max_entries; 0 captures nothing
    MaxSaid,        \* bound: records an import emits before it ends
    MaxUpsets       \* bound: failing statements, changes of the log level and
                    \* clearings of the history, together

ASSUME JournalAssumption ==
    /\ Imports \subseteq Nat \ {0}
    /\ \A op \in Earlier : op.import \notin Imports
    /\ Limit \in Nat
    /\ MaxSaid \in Nat
    /\ MaxUpsets \in Nat

VARIABLES
    task,       \* task[i]: where RunImportJobUseCase.execute is
    failed,     \* failed[i]: the handler raised
    heard,      \* heard[i]: the handler of import i is installed
    entries,    \* entries[i]: the buffer that capture_log yielded
    said,       \* auxiliary: said[i] records were emitted for import i
    follower,   \* follower[i]: "off", "asleep" or "saving"
    written,    \* written[i]: length of the buffer when it last saved
    inflight,   \* inflight[i]: what it is saving
    log,        \* log[i]: the log column of job i
    faults, reloads

captureVars == <<heard, entries, said>>
followVars == <<follower, written, inflight>>
journalVars == <<task, failed, captureVars, followVars, log, faults, reloads, historyVars>>

Past == {"record", "settle", "done"}

JournalTypeOK ==
    /\ HistoryTypeOK
    /\ task \in [Imports -> {"none", "mux", "stop", "flush"} \cup Past]
    /\ failed \in [Imports -> BOOLEAN]
    /\ heard \in [Imports -> BOOLEAN]
    /\ said \in [Imports -> Nat]
    /\ follower \in [Imports -> {"off", "asleep", "saving"}]
    /\ \A i \in Imports : written[i] \in 0..Limit
    /\ faults \in Nat /\ reloads \in Nat

JournalInit ==
    /\ HistoryInit
    /\ task = [i \in Imports |-> "none"]
    /\ failed = [i \in Imports |-> FALSE]
    /\ heard = [i \in Imports |-> FALSE]
    /\ entries = [i \in Imports |-> <<>>]
    /\ said = [i \in Imports |-> 0]
    /\ follower = [i \in Imports |-> "off"]
    /\ written = [i \in Imports |-> 0]
    /\ inflight = [i \in Imports |-> <<>>]
    /\ log = [i \in Imports |-> <<>>]
    /\ faults = 0
    /\ reloads = 0

Quiet == faults + reloads + clears < MaxUpsets

Fault == Quiet /\ faults' = faults + 1

On(i, here) == task[i] = here

GoesOn(i, there) == task' = [task EXCEPT ![i] = there]

-----------------------------------------------------------------------------
(* capture_log *)

(* "log truncated after Limit entries" *)
Truncation == <<0, 0>>

(* sink: the last entry that fits says that it is the last. *)
Sunk(buffer, entry) ==
    CASE Len(buffer) >= Limit    -> buffer
      [] Len(buffer) = Limit - 1 -> Append(buffer, Truncation)
      [] OTHER                   -> Append(buffer, entry)

(* Mutant: every import keeps what it hears. *)
ForAnyone(k, i) == k \in Imports

(* The context variable is copied into the thread and the follower of      *)
(* import i, and holds the buffer of import i alone.                       *)
ForMe(k, i) == k = i

(* A record emitted in the context of import i reaches the handlers of     *)
(* "installed".                                                            *)
Say(i, installed) ==
    /\ said' = [said EXCEPT ![i] = @ + 1]
    /\ entries' = [k \in Imports |->
                      IF installed[k] /\ ForMe(k, i)
                      THEN Sunk(entries[k], <<i, said[i] + 1>>)
                      ELSE entries[k]]

(* A settings change with another log level: configure_logging removes     *)
(* every handler of the process.                                           *)
Reconfigure ==
    /\ Quiet
    /\ reloads' = reloads + 1
    /\ heard' = [i \in Imports |-> FALSE]
    /\ UNCHANGED <<task, failed, entries, said, followVars, log, faults, historyVars>>

-----------------------------------------------------------------------------
(* execute *)

Begin(i) ==
    /\ On(i, "none")
    /\ heard' = [heard EXCEPT ![i] = Limit > 0]
    /\ Say(i, heard')
    /\ follower' = [follower EXCEPT ![i] = "asleep"]
    /\ GoesOn(i, "mux")
    /\ UNCHANGED <<failed, written, inflight, log, faults, reloads, historyVars>>

(* The handler, on its thread. *)
MuxSays(i) ==
    /\ On(i, "mux")
    /\ said[i] < MaxSaid
    /\ Say(i, heard)
    /\ UNCHANGED <<task, failed, heard, followVars, log, faults, reloads, historyVars>>

(* It returns or raises, and either is logged. *)
MuxEnds(i) ==
    /\ On(i, "mux")
    /\ \E raised \in BOOLEAN : failed' = [failed EXCEPT ![i] = raised]
    /\ Say(i, heard)
    /\ GoesOn(i, "stop")
    /\ UNCHANGED <<heard, followVars, log, faults, reloads, historyVars>>

(* Mutant: the follower is cancelled and not awaited. *)
StopUnawaited(i) ==
    /\ On(i, "stop")
    /\ GoesOn(i, "flush")
    /\ UNCHANGED <<failed, captureVars, followVars, log, faults, reloads, historyVars>>

(* _stop awaits the cancelled follower; the save it may have been in was   *)
(* committed or was not.                                                   *)
Stop(i) ==
    /\ On(i, "stop")
    /\ \/ UNCHANGED log
       \/ follower[i] = "saving" /\ log' = [log EXCEPT ![i] = inflight[i]]
    /\ follower' = [follower EXCEPT ![i] = "off"]
    /\ written' = [written EXCEPT ![i] = 0]
    /\ inflight' = [inflight EXCEPT ![i] = <<>>]
    /\ GoesOn(i, "flush")
    /\ UNCHANGED <<failed, captureVars, faults, reloads, historyVars>>

AfterFlush(i) == GoesOn(i, IF failed[i] THEN "settle" ELSE "record")

Flush(i) ==
    /\ On(i, "flush")
    /\ log' = [log EXCEPT ![i] = entries[i]]
    /\ AfterFlush(i)
    /\ UNCHANGED <<failed, captureVars, followVars, faults, reloads, historyVars>>

(* _flush logs that it failed, in the import's own context. *)
FlushFails(i) ==
    /\ On(i, "flush")
    /\ Fault
    /\ Say(i, heard)
    /\ AfterFlush(i)
    /\ UNCHANGED <<failed, heard, followVars, log, reloads, historyVars>>

Record(i) ==
    /\ On(i, "record")
    /\ InsertOperation(i, entries[i])
    /\ GoesOn(i, "settle")
    /\ UNCHANGED <<failed, captureVars, followVars, log, faults, reloads>>

(* Losing the operation is logged where nobody will read it. *)
RecordFails(i) ==
    /\ On(i, "record")
    /\ Fault
    /\ Say(i, heard)
    /\ GoesOn(i, "settle")
    /\ UNCHANGED <<failed, heard, followVars, log, reloads, historyVars>>

(* succeed or fail, around which the handler is removed. *)
Settle(i) ==
    /\ On(i, "settle")
    /\ heard' = [heard EXCEPT ![i] = FALSE]
    /\ failed' = [failed EXCEPT ![i] = FALSE]
    /\ GoesOn(i, "done")
    /\ UNCHANGED <<entries, said, followVars, log, faults, reloads, historyVars>>

-----------------------------------------------------------------------------
(* _follow *)

FollowerWakes(i) ==
    /\ follower[i] = "asleep"
    /\ Len(entries[i]) # written[i]
    /\ written' = [written EXCEPT ![i] = Len(entries[i])]
    /\ inflight' = [inflight EXCEPT ![i] = entries[i]]
    /\ follower' = [follower EXCEPT ![i] = "saving"]
    /\ UNCHANGED <<task, failed, captureVars, log, faults, reloads, historyVars>>

FollowerSaves(i) ==
    /\ follower[i] = "saving"
    /\ log' = [log EXCEPT ![i] = inflight[i]]
    /\ inflight' = [inflight EXCEPT ![i] = <<>>]
    /\ follower' = [follower EXCEPT ![i] = "asleep"]
    /\ UNCHANGED <<task, failed, captureVars, written, faults, reloads, historyVars>>

(* Mutant: the exception ends the follower. *)
FollowerDies(i) ==
    /\ follower[i] = "saving"
    /\ Fault
    /\ follower' = [follower EXCEPT ![i] = "off"]
    /\ UNCHANGED <<task, failed, captureVars, written, inflight, log, reloads, historyVars>>

(* The failure is one more record, and so a reason to try again. *)
FollowerFails(i) ==
    /\ follower[i] = "saving"
    /\ Fault
    /\ Say(i, heard)
    /\ inflight' = [inflight EXCEPT ![i] = <<>>]
    /\ follower' = [follower EXCEPT ![i] = "asleep"]
    /\ UNCHANGED <<task, failed, heard, written, log, reloads, historyVars>>

-----------------------------------------------------------------------------

(* _sweep runs between imports. *)
Sweep ==
    /\ \A i \in Imports : task[i] \in {"none", "done"}
    /\ Prune
    /\ UNCHANGED <<task, failed, captureVars, followVars, log, faults, reloads>>

Web ==
    /\ Walk \/ (Quiet /\ ClearHistory)
    /\ UNCHANGED <<task, failed, captureVars, followVars, log, faults, reloads>>

FollowerStep(i) == FollowerWakes(i) \/ FollowerSaves(i) \/ FollowerFails(i)

TaskStep(i) ==
    \/ Begin(i) \/ MuxSays(i) \/ MuxEnds(i) \/ Stop(i) \/ Flush(i) \/ FlushFails(i)
    \/ Record(i) \/ RecordFails(i) \/ Settle(i)

JournalNext ==
    \/ \E i \in Imports : TaskStep(i) \/ FollowerStep(i)
    \/ Reconfigure \/ Sweep \/ Web

(* The follower is a coroutine that sleeps for FLUSH_INTERVAL at a time.   *)
JournalFairness == \A i \in Imports : WF_journalVars(FollowerStep(i))

JournalSpec == JournalInit /\ [][JournalNext]_journalVars

JournalFairSpec == JournalSpec /\ JournalFairness

-----------------------------------------------------------------------------

(* What is kept of the first n records of import i. *)
Account(i, n) ==
    [m \in 1..IF n < Limit THEN n ELSE Limit |->
        IF m = Limit THEN Truncation ELSE <<i, m>>]

(* The log of an import tells its own story and no other's, from its first *)
(* record on and without a gap, and says so when it was cut short.  Once   *)
(* the import is over the job's copy is that story too, and the            *)
(* operation's copy, which outlives it, tells no less.                     *)
AccountIsWhole ==
    /\ \A i \in Imports :
          /\ \E n \in 0..said[i] :
                /\ entries[i] = Account(i, n)
                /\ reloads = 0 => n = said[i]
          /\ task[i] \in Past /\ faults = 0 => log[i] = entries[i]
    /\ \A op \in operations :
          op.import \in Imports => IsPrefix(log[op.import], op.log)

(* The stored log of a job only ever grows: the follower's last write      *)
(* never replaces what the end of the import wrote.                        *)
LogOnlyGrows == [][\A i \in Imports : IsPrefix(log[i], log'[i])]_journalVars

(* What a running import logged is published, without waiting for its end  *)
(* and in spite of a save that fails, as long as the log is not full.      *)
Followed ==
    \A i \in Imports : \A n \in 1 .. Limit - 1 :
        task[i] = "mux" /\ Len(entries[i]) >= n ~>
            \/ Len(log[i]) >= n
            \/ task[i] # "mux"
            \/ Len(entries[i]) = Limit
            \/ reloads > 0

=============================================================================
