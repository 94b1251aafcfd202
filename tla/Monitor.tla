------------------------------- MODULE Monitor -------------------------------
(***************************************************************************)
(* Is anything going to run my import?  The worker answers through one row *)
(* of the database: its loop (worker/service.py) writes a heartbeat there  *)
(* and what its health checks found, and the API process reads both.       *)
(*                                                                         *)
(* Time is counted in ticks, Second of them to a second.  Whatever happens *)
(* falls on a tick: the finer the ticks, the less this asks, and what is   *)
(* proved is proved for every Second.  The loop compares readings of a     *)
(* float clock, the ages below; the row holds a time of which _now() cut   *)
(* the fraction of a second off, and the reader compares it with one that  *)
(* has its fraction.  Ages stop at the value from which on they make no    *)
(* difference.  Wall clock and monotonic clock run alike.                  *)
(* A pass of the loop may be held up at any await for MaxHeld in total.    *)
(***************************************************************************)
EXTENDS Integers, Sequences, FiniteSets

CONSTANTS
    Second,                 \* ticks in a second
    HeartbeatInterval,      \* HEARTBEAT_INTERVAL, in ticks
    HealthCheckInterval,    \* HEALTH_CHECK_INTERVAL, in ticks
    Hosts,                  \* states of the worker's mounts and tools
    Configs,                \* settings of the API process
    MaxHeld,                \* bound: how long one pass may take, in ticks
    MaxMissed,              \* bound: heartbeats that fail in a row
    MaxEvents               \* bound: imports that keep the worker busy, changes of the
                            \* host or the settings, failing reports, signals and
                            \* kills, together

(* WORKER_STALE_AFTER *)
StaleAfter == 6 * HeartbeatInterval

(* The states of the tool, the mounts and the directories from the scratch  *)
(* directory upwards, and what the settings say of the database and login.  *)
HostStates ==
    [mkvmerge : {"current", "old", "none"},
     roots    : Seq({"ok", "missing", "unreadable"}),
     scratch  : Seq({"absent", "writable", "locked"})]

ConfigStates ==
    [split : BOOLEAN, sqlite : BOOLEAN, login : STRING, proxies : BOOLEAN]

(* What the staleness limit forgives: a beat that falls due just after the *)
(* look at the clock, MaxMissed failures, each of which costs a pass, and  *)
(* the fraction of a second that its time stamp lacks.                     *)
ASSUME MonitorAssumption ==
    /\ Second \in Nat \ {0}
    /\ HeartbeatInterval \in Nat \ {0}
    /\ HealthCheckInterval \in Nat \ {0}
    /\ Hosts \subseteq HostStates /\ Configs \subseteq ConfigStates
    /\ MaxHeld \in Nat \ {0}
    /\ MaxMissed \in Nat /\ MaxEvents \in Nat
    /\ HeartbeatInterval + (MaxMissed + 2) * MaxHeld + Second <= StaleAfter

VARIABLES
    pc,         \* where ImportWorker.run is, or "off"; "drain" after the loop
    held,       \* how long the current pass has taken so far
    beatAge,    \* since _last_heartbeat
    stampAge,   \* since the time stamp of a heartbeat that is being written
    checkAge,   \* since _last_check
    checked,    \* _last_check is not zero
    running,    \* an import is
    found,      \* the issues that are being reported
    seenAge,    \* the worker_state row: since last_seen; -1 if there is no row
    checks,     \* the worker_state row: the stored issues
    host,       \* mounts and tools, as the checks find them
    missed,     \* auxiliary: heartbeats that failed since the last success
    beaten,     \* auxiliary: this process has written a heartbeat
    events

clockVars == <<held, beatAge, stampAge, checkAge, seenAge>>
loopVars == <<pc, checked, running, found, checks, missed, beaten>>
envVars == <<host, events>>
vars == <<clockVars, loopVars, envVars>>

Capped(age, cap) == IF age < cap THEN age ELSE cap

(* What _now() may cut off the time it writes. *)
Fractions == 0 .. Second - 1

Awaits == {"reload", "beat", "beating", "fill", "wait", "check", "report"}

-----------------------------------------------------------------------------
(* Health: what either process finds about itself, most severe first.      *)

Level(code) ==
    CASE code \in {"worker_offline", "mkvmerge_missing", "read_root_missing",
                   "read_root_unreadable", "scratch_dir_unusable"} -> "error"
      [] code \in {"sqlite_split", "login_off"}                    -> "warning"
      [] code \in {"mkvmerge_outdated", "proxies_untrusted"}       -> "notice"

(* The p-th of a finite set of positions, and what a sequence has there, in *)
(* the sequence's order.                                                    *)
Nth(places, p) == CHOOSE n \in places : Cardinality({m \in places : m < n}) = p - 1

Picked(s, places) == [p \in 1..Cardinality(places) |-> s[Nth(places, p)]]

If(condition, code) == IF condition THEN <<code>> ELSE <<>>

Toolchain(h) ==
    If(h.mkvmerge = "none", "mkvmerge_missing") \o If(h.mkvmerge = "old", "mkvmerge_outdated")

Roots(h) ==
    LET bad == Picked(h.roots, {n \in DOMAIN h.roots : h.roots[n] # "ok"})
    IN  [n \in DOMAIN bad |->
            IF bad[n] = "missing" THEN "read_root_missing" ELSE "read_root_unreadable"]

(* The nearest directory that exists decides, from the scratch directory   *)
(* upwards; h.scratch is empty when none is configured.                    *)
Scratch(h) ==
    LET existing == {n \in DOMAIN h.scratch : h.scratch[n] # "absent"}
    IN  If(h.scratch # <<>> /\ ~ \E n \in existing : /\ \A m \in existing : n <= m
                                                    /\ h.scratch[n] = "writable",
           "scratch_dir_unusable")

WorkerIssues(h) == Toolchain(h) \o Roots(h) \o Scratch(h)

(* _own_checks *)
OwnIssues(c, up) ==
    If(~ up, "worker_offline")
        \o If(c.split /\ c.sqlite, "sqlite_split")
        \o If(c.login = "external", "login_off")
        \o If(c.login = "remote_only" /\ ~ c.proxies, "proxies_untrusted")

(* sorted() keeps the order among equals. *)
BySeverity(codes) ==
    LET Of(level) == Picked(codes, {n \in DOMAIN codes : Level(codes[n]) = level})
    IN  Of("error") \o Of("warning") \o Of("notice")

(* is_fresh *)
Fresh == seenAge \in 0..StaleAfter

(* Mutant: what was reported comes before what is certain. *)
HealthReportedFirst(c) == BySeverity(checks \o OwnIssues(c, Fresh))

(* execute reads the time stamp first and then what the worker reported    *)
(* last, dead or alive.                                                    *)
Health(c) == BySeverity(OwnIssues(c, Fresh) \o checks)

-----------------------------------------------------------------------------

TypeOK ==
    /\ pc \in Awaits \cup {"off", "idle", "drain"}
    /\ held \in 0..MaxHeld
    /\ beatAge \in 0..HeartbeatInterval
    /\ stampAge \in 0..MaxHeld
    /\ checkAge \in 0..HealthCheckInterval
    /\ seenAge \in -1 .. StaleAfter + 1
    /\ missed \in 0..MaxMissed
    /\ checked \in BOOLEAN /\ running \in BOOLEAN /\ beaten \in BOOLEAN
    /\ host \in Hosts
    /\ events \in 0..MaxEvents

Init ==
    /\ pc = "off"
    /\ held = 0 /\ stampAge = 0
    /\ beatAge = HeartbeatInterval
    /\ checkAge = HealthCheckInterval
    /\ checked = FALSE
    /\ running = FALSE
    /\ found = <<>>
    /\ seenAge = -1
    /\ checks = <<>>
    /\ host \in Hosts
    /\ missed = 0
    /\ beaten = FALSE
    /\ events = 0

At(here) == pc = here

Goto(there) == pc' = there

EndPass == Goto("reload") /\ held' = 0

Event == events < MaxEvents /\ events' = events + 1

-----------------------------------------------------------------------------
(* The worker's loop.  Both intervals are due at once in a new process.    *)

Start ==
    /\ At("off")
    /\ EndPass
    /\ beatAge' = HeartbeatInterval
    /\ checkAge' = HealthCheckInterval
    /\ checked' = FALSE
    /\ missed' = 0
    /\ beaten' = FALSE
    /\ UNCHANGED <<stampAge, seenAge, running, found, checks, envVars>>

(* The signal has been received, and the loop is not entered again: no     *)
(* heartbeat is written while the imports that run are waited for.         *)
Drain ==
    /\ At("reload")
    /\ Event
    /\ Goto("drain")
    /\ UNCHANGED <<clockVars, checked, running, found, checks, missed, beaten, host>>

Drained ==
    /\ At("drain")
    /\ ~ running
    /\ Goto("off")
    /\ UNCHANGED <<clockVars, checked, running, found, checks, missed, beaten, envVars>>

(* _reload: settings that changed ask for a fresh verdict. *)
Reload ==
    /\ At("reload")
    /\ Goto("beat")
    /\ \/ UNCHANGED <<checked, events>>
       \/ Event /\ checked' = FALSE
    /\ UNCHANGED <<clockVars, running, found, checks, missed, beaten, host>>

(* _beat looks at the clock ... *)
Beat ==
    /\ At("beat")
    /\ Goto(IF beatAge < HeartbeatInterval THEN "fill" ELSE "beating")
    /\ stampAge' = 0
    /\ UNCHANGED <<held, beatAge, checkAge, seenAge, checked, running, found, checks,
                   missed, beaten, envVars>>

(* ... and writes the time it saw, cut to the second: the row looks older  *)
(* than it is.                                                             *)
BeatStored ==
    /\ At("beating")
    /\ Goto("fill")
    /\ \E fraction \in Fractions : seenAge' = stampAge + fraction
    /\ beatAge' = Capped(stampAge, HeartbeatInterval)
    /\ stampAge' = 0
    /\ missed' = 0
    /\ beaten' = TRUE
    /\ UNCHANGED <<held, checkAge, checked, running, found, checks, envVars>>

(* Mutant: _last_heartbeat is set before the write. *)
BeatFailsAsIfWritten ==
    /\ At("beating")
    /\ missed < MaxMissed
    /\ missed' = missed + 1
    /\ Goto("fill")
    /\ beatAge' = Capped(stampAge, HeartbeatInterval)
    /\ stampAge' = 0
    /\ UNCHANGED <<held, checkAge, seenAge, checked, running, found, checks,
                   beaten, envVars>>

(* It is tried again on the next pass. *)
BeatFails ==
    /\ At("beating")
    /\ missed < MaxMissed
    /\ missed' = missed + 1
    /\ Goto("fill")
    /\ stampAge' = 0
    /\ UNCHANGED <<held, beatAge, checkAge, seenAge, checked, running, found, checks,
                   beaten, envVars>>

(* _fill claims another import, or none. *)
Fill ==
    /\ At("fill")
    /\ \/ Event /\ running' = TRUE
       \/ UNCHANGED <<events, running>>
    /\ Goto(IF running' THEN "wait" ELSE "idle")
    /\ UNCHANGED <<clockVars, checked, found, checks, missed, beaten, host>>

Wake ==
    /\ At("wait")
    /\ EndPass
    /\ UNCHANGED <<beatAge, stampAge, checkAge, seenAge, checked, running, found, checks,
                   missed, beaten, envVars>>

(* _idle and _sweep *)
IdleOver ==
    /\ At("idle")
    /\ Goto("check")
    /\ UNCHANGED <<clockVars, checked, running, found, checks, missed, beaten, envVars>>

(* Mutant: one verdict is enough. *)
CheckDueOnce == ~ checked

CheckDue == ~ checked \/ checkAge >= HealthCheckInterval

CheckNotDue ==
    /\ At("check")
    /\ ~ CheckDue
    /\ EndPass
    /\ UNCHANGED <<beatAge, stampAge, checkAge, seenAge, checked, running, found, checks,
                   missed, beaten, envVars>>

(* _check: whatever becomes of it, the next one is an interval away. *)
Check ==
    /\ At("check")
    /\ CheckDue
    /\ checked' = TRUE
    /\ checkAge' = 0
    /\ found' = WorkerIssues(host)
    /\ Goto("report")
    /\ UNCHANGED <<held, beatAge, stampAge, seenAge, running, checks, missed, beaten, envVars>>

(* report: UPDATE, or INSERT of a row that then carries a time stamp too,  *)
(* taken in this pass and cut to the second.                               *)
Report ==
    /\ At("report")
    /\ EndPass
    /\ checks' = found
    /\ IF seenAge = -1
       THEN \E age \in 0..held, fraction \in Fractions : seenAge' = age + fraction
       ELSE UNCHANGED seenAge
    /\ found' = <<>>
    /\ UNCHANGED <<beatAge, stampAge, checkAge, checked, running, missed, beaten, envVars>>

(* The checks raise, or their report does. *)
ReportFails ==
    /\ At("report")
    /\ Event
    /\ EndPass
    /\ found' = <<>>
    /\ UNCHANGED <<beatAge, stampAge, checkAge, seenAge, checked, running, checks, missed,
                   beaten, host>>

ImportEnds ==
    /\ running
    /\ running' = FALSE
    /\ UNCHANGED <<clockVars, pc, checked, found, checks, missed, beaten, envVars>>

Kill ==
    /\ pc # "off"
    /\ Event
    /\ Goto("off")
    /\ held' = 0
    /\ stampAge' = 0
    /\ running' = FALSE
    /\ found' = <<>>
    /\ UNCHANGED <<beatAge, checkAge, seenAge, checked, checks, missed, beaten, host>>

-----------------------------------------------------------------------------
(* The world. *)

HostChanges ==
    /\ Event
    /\ host' \in Hosts
    /\ UNCHANGED <<clockVars, loopVars>>

Tick ==
    /\ pc \in {"off", "drain"} \/ held < MaxHeld
    /\ held' = IF pc \in {"off", "drain"} THEN 0 ELSE held + 1
    /\ stampAge' = IF At("beating") THEN stampAge + 1 ELSE 0
    /\ beatAge' = Capped(beatAge + 1, HeartbeatInterval)
    /\ checkAge' = Capped(checkAge + 1, HealthCheckInterval)
    /\ seenAge' = IF seenAge = -1 THEN -1 ELSE Capped(seenAge + 1, StaleAfter + 1)
    /\ UNCHANGED <<loopVars, envVars>>

LoopStep ==
    \/ Start \/ Reload \/ Beat \/ BeatStored \/ BeatFails \/ Fill \/ Wake
    \/ IdleOver \/ CheckNotDue \/ Check \/ Report \/ ReportFails
    \/ Drained

Next ==
    \/ LoopStep \/ ImportEnds \/ Drain \/ Kill
    \/ HostChanges \/ Tick

Spec == Init /\ [][Next]_vars

(* A supervisor restarts the worker, its loop runs on, imports end, and    *)
(* time passes.                                                            *)
Fairness ==
    /\ WF_vars(LoopStep)
    /\ WF_vars(ImportEnds)
    /\ WF_vars(Tick)

FairSpec == Spec /\ Fairness

-----------------------------------------------------------------------------

Serves == pc \notin {"off", "drain"}

(* A worker that serves is never reported offline: the six intervals of    *)
(* WORKER_STALE_AFTER forgive a brief stall of its loop and heartbeats     *)
(* that fail, as long as no more than MaxMissed fail in a row.             *)
LiveIsSeen == Serves /\ beaten => Fresh

(* The System page leads with a worker that is offline, and raises no such *)
(* alarm about one that serves.                                            *)
OfflineComesFirst ==
    \A c \in Configs : \A n \in DOMAIN Health(c) :
        Health(c)[n] = "worker_offline" => n = 1 /\ ~ (Serves /\ beaten)

(* A fix, or a new problem, shows up on the System page without a restart, *)
(* whatever failed or was being imported meanwhile.                        *)
ReportCatchesUp == []<>(checks = WorkerIssues(host))

=============================================================================
