------------------------------- MODULE Settings -------------------------------
(***************************************************************************)
(* The settings the web interface may edit: one stored row of overrides,   *)
(* the environment each process was started with, and what the container   *)
(* of each process (core/container.py) makes of the two.                   *)
(*                                                                         *)
(* A step is what a coroutine does between two awaits.  A snapshot of the  *)
(* row is in flight between the step that loads it and the step that uses  *)
(* it, and other requests are served meanwhile.                            *)
(*                                                                         *)
(* Two fields are enough to tell the rules apart: ai_mode (TRUE: not off)  *)
(* and ai_model (TRUE: not empty), which validate() relates.  A value the  *)
(* coercers refuse is refused where an unusable pair is.                   *)
(***************************************************************************)
EXTENDS Integers, Sequences

CONSTANTS
    Requests,       \* requests to the API, each made at most once
    Changes,        \* what a PATCH may send
    MaxFaults       \* bound: deaths, new environments and statements that raise

VARIABLES
    row,        \* the app_settings row, as load() returns it
    compose,    \* the environment a process started now would get
    env,        \* env[p]: the environment process p was started with
    up,         \* up[p]: process p is alive
    settings,   \* settings[p]: container.settings
    revision,   \* revision[p]: container._revision
    built,      \* built[p][d]: the settings that the cached object d was built from
    pc,         \* pc[t]: what coroutine t does next
    held,       \* held[t]: the snapshot, or what to store, that t carries
    sent,       \* sent[t]: the fields that PATCH t names
    saved,      \* auxiliary: saved[n]: the overrides of revision n
    wrote,      \* auxiliary: wrote[t]: the revision that PATCH t has stored, while it is served
    faults      \* how many deaths, new environments and failed statements there were

containerVars == <<env, up, settings, revision, built>>
callVars == <<pc, held, sent, wrote>>
vars == <<row, compose, containerVars, callVars, saved, faults>>

-----------------------------------------------------------------------------
(* Settings and overrides. *)

Fields == {"ai_mode", "ai_model"}

Effective == [Fields -> BOOLEAN]

Overrides == UNION {[names -> BOOLEAN] : names \in SUBSET Fields}

NoOverrides == [f \in {} |-> FALSE]

ASSUME SettingsAssumption ==
    /\ Requests \cap {"lifespan", "boot", "loop"} = {}
    /\ Changes \subseteq Overrides
    /\ MaxFaults \in Nat

Snapshot == [revision : Nat, overrides : Overrides]

NoSnapshot == [revision |-> 0, overrides |-> NoOverrides]

(* {**stored, **changes} *)
Over(changes, stored) ==
    [f \in DOMAIN changes \cup DOMAIN stored |->
        IF f \in DOMAIN changes THEN changes[f] ELSE stored[f]]

(* Cross-field rules that no coercer can see. *)
Usable(s) == s["ai_mode"] => s["ai_model"]

(* What a process can be started with: a variable that is set locks its field, *)
(* an empty model counts as unset, and from_env refuses an unusable pair.  *)
Environments ==
    {e \in [base : Effective, locked : SUBSET Fields] :
        /\ \A f \in Fields : e.base[f] => f \in e.locked
        /\ "ai_model" \in e.locked => e.base["ai_model"]
        /\ Usable(e.base)}

(* apply_overrides, without its last line. *)
Layer(e, overrides) ==
    [f \in Fields |-> IF f \in DOMAIN overrides \ e.locked
                      THEN overrides[f] ELSE e.base[f]]

-----------------------------------------------------------------------------
(* Processes and the objects they cache. *)

Processes == {"api", "worker"}

(* lifespan starts the API; boot and loop are the two parts of ImportWorker.run. *)
Coroutines == Requests \cup {"lifespan", "boot", "loop"}

ProcessOf(t) == IF t \in {"boot", "loop"} THEN "worker" ELSE "api"

Derived == {"track_discovery", "handle_import", "run_import_job",
            "reconcile_jobs", "system_status"}

NothingBuilt == [d \in Derived |-> {}]

(* Mutant: track_discovery is not in _SETTINGS_DERIVED. *)
DroppedButDiscovery(b) == [NothingBuilt EXCEPT !["track_discovery"] = b["track_discovery"]]

(* _SETTINGS_DERIVED, dropped when the settings change. *)
Dropped(b) == [d \in DOMAIN b |-> {}]

(* cached_property: an object is built once, from the settings in force and *)
(* from the cached objects it is given. *)
Cached(b, d, from) == IF b[d] = {} THEN [b EXCEPT ![d] = from] ELSE b

BuildDiscovery(b, s) == Cached(b, "track_discovery", {s})

BuildHandler(b, s) ==
    LET c == BuildDiscovery(b, s)
    IN IF b["handle_import"] # {} THEN b
       ELSE [c EXCEPT !["handle_import"] = {s} \cup c["track_discovery"]]

BuildRunner(b, s) ==
    LET c == BuildHandler(b, s)
    IN IF b["run_import_job"] # {} THEN b
       ELSE [c EXCEPT !["run_import_job"] = {s} \cup c["handle_import"]]

-----------------------------------------------------------------------------
TypeOK ==
    /\ row \in Snapshot
    /\ compose \in Environments
    /\ env \in [Processes -> Environments]
    /\ up \in [Processes -> BOOLEAN]
    /\ settings \in [Processes -> Effective]
    /\ revision \in [Processes -> Nat \cup {-1}]
    /\ built \in [Processes -> [Derived -> SUBSET Effective]]
    /\ pc \in [Coroutines ->
                {"idle", "load", "save", "insert", "sync", "apply", "reconcile", "done"}]
    /\ held \in [Coroutines -> Snapshot]
    /\ sent \in [Requests -> SUBSET Fields]
    /\ saved \in Seq(Overrides)
    /\ wrote \in [Requests -> Nat]
    /\ faults \in Nat

Init ==
    /\ row = NoSnapshot
    /\ compose \in Environments
    /\ env = [p \in Processes |-> compose]
    /\ up = [p \in Processes |-> FALSE]
    /\ settings = [p \in Processes |-> compose.base]
    /\ revision = [p \in Processes |-> -1]
    /\ built = [p \in Processes |-> NothingBuilt]
    /\ pc = [t \in Coroutines |-> "idle"]
    /\ held = [t \in Coroutines |-> NoSnapshot]
    /\ sent = [t \in Requests |-> {}]
    /\ saved = <<>>
    /\ wrote = [t \in Requests |-> 0]
    /\ faults = 0

Serving == up["api"] /\ pc["lifespan"] = "done"

-----------------------------------------------------------------------------
(* PATCH /v1/settings. *)

(* A change reaches the use case; fields the environment pins are refused. *)
BeginPatch(t, changes) ==
    /\ Serving
    /\ pc[t] = "idle"
    /\ DOMAIN changes \cap env["api"].locked = {}
    /\ pc' = [pc EXCEPT ![t] = "load"]
    /\ held' = [held EXCEPT ![t] = [revision |-> 0, overrides |-> changes]]
    /\ sent' = [sent EXCEPT ![t] = DOMAIN changes]
    /\ UNCHANGED <<row, compose, containerVars, wrote, saved, faults>>

(* Mutant: what is stored is what was sent. *)
MergedChangesOnly(t) == held[t].overrides

(* The changes over what is stored now. *)
Merged(t) == Over(held[t].overrides, row.overrides)

(* Mutant: the change is validated without what is stored. *)
AcceptsAlone(t) == Usable(Layer(env["api"], held[t].overrides))

Accepts(t) == Usable(Layer(env["api"], Merged(t)))

(* Request t is answered, or has failed: nothing of it remains. *)
Ends(t) ==
    /\ pc' = [pc EXCEPT ![t] = "done"]
    /\ held' = [held EXCEPT ![t] = NoSnapshot]
    /\ sent' = [sent EXCEPT ![t] = {}]
    /\ wrote' = [wrote EXCEPT ![t] = 0]

(* The stored overrides are loaded, and the result is validated. *)
LoadAndMerge(t) ==
    /\ pc[t] = "load"
    /\ Accepts(t)
    /\ pc' = [pc EXCEPT ![t] = "save"]
    /\ held' = [held EXCEPT ![t] = [revision |-> row.revision, overrides |-> Merged(t)]]
    /\ UNCHANGED <<row, compose, containerVars, sent, wrote, saved, faults>>

Refuse(t) ==
    /\ pc[t] = "load"
    /\ ~ Accepts(t)
    /\ Ends(t)
    /\ UNCHANGED <<row, compose, containerVars, saved, faults>>

(* The row is replaced as a whole, and its revision is one more than it was. *)
Store(t) ==
    /\ row' = [held[t] EXCEPT !.revision = row.revision + 1]
    /\ saved' = Append(saved, held[t].overrides)
    /\ wrote' = [wrote EXCEPT ![t] = row.revision + 1]
    /\ sent' = [sent EXCEPT ![t] = {}]
    /\ held' = [held EXCEPT ![t] = NoSnapshot]
    /\ pc' = [pc EXCEPT ![t] = "sync"]

(* The UPDATE finds the row. *)
Save(t) ==
    /\ pc[t] = "save"
    /\ row.revision > 0
    /\ Store(t)
    /\ UNCHANGED <<compose, containerVars, faults>>

(* The UPDATE finds no row.  On SQLite it holds the write lock none the less; *)
(* on Postgres another request may insert the row first. *)
SaveMisses(t) ==
    /\ pc[t] = "save"
    /\ row.revision = 0
    /\ pc' = [pc EXCEPT ![t] = "insert"]
    /\ UNCHANGED <<row, compose, containerVars, held, sent, wrote, saved, faults>>

Insert(t) ==
    /\ pc[t] = "insert"
    /\ row.revision = 0
    /\ Store(t)
    /\ UNCHANGED <<compose, containerVars, faults>>

(* IntegrityError: nothing catches it. *)
InsertFails(t) ==
    /\ pc[t] = "insert"
    /\ row.revision > 0
    /\ Ends(t)
    /\ UNCHANGED <<row, compose, containerVars, saved, faults>>

-----------------------------------------------------------------------------
(* sync_settings: at start-up, in every settings request, in the worker's loop. *)

BeginRead(t) ==
    /\ Serving
    /\ pc[t] = "idle"
    /\ pc' = [pc EXCEPT ![t] = "sync"]
    /\ UNCHANGED <<row, compose, containerVars, held, sent, wrote, saved, faults>>

(* The worker's loop comes round after SETTINGS_POLL_INTERVAL. *)
Reload ==
    /\ pc["boot"] = "done"
    /\ pc["loop"] = "idle"
    /\ pc' = [pc EXCEPT !["loop"] = "sync"]
    /\ UNCHANGED <<row, compose, containerVars, held, sent, wrote, saved, faults>>

LoadSnapshot(t) ==
    /\ pc[t] = "sync"
    /\ held' = [held EXCEPT ![t] = row]
    /\ pc' = [pc EXCEPT ![t] = "apply"]
    /\ UNCHANGED <<row, compose, containerVars, sent, wrote, saved, faults>>

(* The end of a sync: the worker's first one precedes reconciliation. *)
Synced(t) ==
    IF t \in Requests THEN Ends(t)
    ELSE /\ pc' = [pc EXCEPT ![t] = CASE t = "lifespan" -> "done"
                                      [] t = "boot" -> "reconcile"
                                      [] t = "loop" -> "idle"]
         /\ held' = [held EXCEPT ![t] = NoSnapshot]
         /\ UNCHANGED <<sent, wrote>>

(* A statement raises, and the process keeps what it has: start-up and the loop *)
(* log the error, and a request fails. *)
StatementFails(t) ==
    /\ pc[t] \in {"load", "save", "insert", "sync"}
    /\ faults < MaxFaults
    /\ faults' = faults + 1
    /\ Synced(t)
    /\ UNCHANGED <<row, compose, containerVars, saved>>

(* Mutant: what was loaded once is not loaded again. *)
SkipsAlways(p, snapshot) == revision[p] >= 0

(* An unchanged revision is not looked at again. *)
Skips(p, snapshot) == snapshot.revision = revision[p]

(* The settings take effect, and what was built from others is dropped. *)
Adopt(p, updated) ==
    IF updated = settings[p] THEN UNCHANGED <<settings, built>>
    ELSE /\ settings' = [settings EXCEPT ![p] = updated]
         /\ built' = [built EXCEPT ![p] = Dropped(@)]

(* The revision is taken first: overrides that are unusable are not tried again. *)
Install(p, snapshot) ==
    LET updated == Layer(env[p], snapshot.overrides) IN
    IF Skips(p, snapshot) THEN UNCHANGED <<settings, revision, built>>
    ELSE /\ revision' = [revision EXCEPT ![p] = snapshot.revision]
         /\ IF Usable(updated) THEN Adopt(p, updated) ELSE UNCHANGED <<settings, built>>

(* The rest of sync_settings, and for a request the answer: there is no await *)
(* between the two. *)
ApplySnapshot(t) ==
    /\ pc[t] = "apply"
    /\ Install(ProcessOf(t), held[t])
    /\ Synced(t)
    /\ UNCHANGED <<row, compose, env, up, saved, faults>>

-----------------------------------------------------------------------------
(* Uses of the cached objects. *)

(* A worker that starts reconciles with the scratch directory in force. *)
Reconcile ==
    /\ pc["boot"] = "reconcile"
    /\ built' = [built EXCEPT !["worker"] =
                    Cached(@, "reconcile_jobs", {settings["worker"]})]
    /\ pc' = [pc EXCEPT !["boot"] = "done"]
    /\ UNCHANGED <<row, compose, env, up, settings, revision, held, sent, wrote, saved, faults>>

(* The task of an import begins: at any step of the loop, and it keeps the *)
(* objects it is given here until it ends. *)
StartImport ==
    /\ pc["boot"] = "done"
    /\ built' = [built EXCEPT !["worker"] = BuildRunner(@, settings["worker"])]
    /\ UNCHANGED <<row, compose, env, up, settings, revision, callVars, saved, faults>>

ReadStatus ==
    /\ Serving
    /\ built' = [built EXCEPT !["api"] = Cached(@, "system_status", {settings["api"]})]
    /\ UNCHANGED <<row, compose, env, up, settings, revision, callVars, saved, faults>>

-----------------------------------------------------------------------------
(* Processes come and go. *)

Start(p) ==
    /\ ~ up[p]
    /\ up' = [up EXCEPT ![p] = TRUE]
    /\ pc' = [pc EXCEPT ![IF p = "api" THEN "lifespan" ELSE "boot"] = "sync"]
    /\ UNCHANGED <<row, compose, env, settings, revision, built, held, sent, wrote, saved, faults>>

(* What the processes ps held in memory is gone; when they start, they begin with *)
(* the environment e. *)
Forget(ps, e) ==
    LET gone == {t \in Coroutines : ProcessOf(t) \in ps} IN
    /\ up' = [p \in Processes |-> up[p] /\ p \notin ps]
    /\ env' = [p \in Processes |-> IF p \in ps THEN e ELSE env[p]]
    /\ settings' = [p \in Processes |-> IF p \in ps THEN e.base ELSE settings[p]]
    /\ revision' = [p \in Processes |-> IF p \in ps THEN -1 ELSE revision[p]]
    /\ built' = [p \in Processes |-> IF p \in ps THEN NothingBuilt ELSE built[p]]
    /\ pc' = [t \in Coroutines |->
                CASE t \notin gone \/ pc[t] = "idle" -> pc[t]
                  [] t \in gone \cap Requests -> "done"
                  [] OTHER -> "idle"]
    /\ held' = [t \in Coroutines |-> IF t \in gone THEN NoSnapshot ELSE held[t]]
    /\ sent' = [t \in Requests |-> IF t \in gone THEN {} ELSE sent[t]]
    /\ wrote' = [t \in Requests |-> IF t \in gone THEN 0 ELSE wrote[t]]

Kill(p) ==
    /\ up[p]
    /\ faults < MaxFaults
    /\ faults' = faults + 1
    /\ Forget({p}, compose)
    /\ UNCHANGED <<row, compose, saved>>

(* The compose file is edited: both containers are created anew. *)
Redeploy ==
    /\ faults < MaxFaults
    /\ faults' = faults + 1
    /\ compose' \in Environments \ {compose}
    /\ Forget(Processes, compose')
    /\ UNCHANGED <<row, saved>>

-----------------------------------------------------------------------------
Request(t) ==
    \/ \E changes \in Changes : BeginPatch(t, changes)
    \/ BeginRead(t)
    \/ LoadAndMerge(t) \/ Refuse(t) \/ Save(t) \/ SaveMisses(t) \/ Insert(t) \/ InsertFails(t)

Sync(t) == LoadSnapshot(t) \/ ApplySnapshot(t)

Next ==
    \/ \E t \in Requests : Request(t)
    \/ \E t \in Coroutines : Sync(t) \/ StatementFails(t)
    \/ Reload \/ Reconcile \/ StartImport \/ ReadStatus
    \/ \E p \in Processes : Start(p) \/ Kill(p)
    \/ Redeploy

Spec == Init /\ [][Next]_vars

(* A supervisor restarts the worker when it died, and what the worker does is *)
(* one sequence of steps.  Nothing is assumed of requests. *)
WorkerStep == Start("worker") \/ Sync("boot") \/ Reconcile \/ Reload \/ Sync("loop")

FairSpec == Spec /\ WF_vars(WorkerStep)

-----------------------------------------------------------------------------
(* Safety. *)

StoredAt(n) == IF n = 0 THEN NoOverrides ELSE saved[n]

(* The settings in force are those of the revision the process notes, whole, *)
(* whatever was loaded and applied in whatever order: equal revisions may *)
(* therefore be skipped. *)
RevisionIsApplied ==
    \A p \in Processes : up[p] /\ revision[p] >= 0 =>
        LET s == Layer(env[p], StoredAt(revision[p]))
        IN Usable(s) => settings[p] = s

(* No process runs with settings that break a cross-field rule, or that *)
(* override what its environment pins, whatever the row holds. *)
InForceIsUsable ==
    \A p \in Processes : up[p] =>
        /\ Usable(settings[p])
        /\ \A f \in env[p].locked : settings[p][f] = env[p].base[f]

(* An import, a reconciliation or a status never works with an object that was *)
(* built, at any depth, from other settings than those in force. *)
DerivedIsFresh ==
    \A p \in Processes : up[p] =>
        \A d \in Derived : built[p][d] \subseteq {settings[p]}

InForceIsStored == RevisionIsApplied /\ DerivedIsFresh

(* The answer to a PATCH shows its own change, or that of a later one, though *)
(* other requests load and apply their snapshots in between. *)
ReadYourWrites ==
    [][\A t \in Requests : up'["api"] /\ pc[t] = "apply" /\ pc'[t] = "done" /\ wrote[t] > 0 =>
        \E n \in wrote[t] .. Len(saved) :
            settings'["api"] = Layer(env["api"], saved[n])]_vars

(* Requests that are valid one by one never store a row that the process which *)
(* stores it could not use. *)
SavesAreUsable ==
    [][saved' # saved => Usable(Layer(env["api"], row'.overrides))]_vars

(* A PATCH changes fields it did not name only if the row changed after it was *)
(* loaded. *)
OverlapOnlyReverts ==
    [][\A t \in Requests : wrote'[t] > wrote[t] /\ held[t].revision = row.revision =>
        \A f \in Fields \ sent[t] :
            /\ f \in DOMAIN row'.overrides <=> f \in DOMAIN row.overrides
            /\ f \in DOMAIN row.overrides => row'.overrides[f] = row.overrides[f]]_vars

(* The worker, whose reloads are one after the other, never goes back to older *)
(* settings while it lives. *)
WorkerGoesForward ==
    [][up["worker"] /\ up'["worker"] => revision'["worker"] >= revision["worker"]]_vars

-----------------------------------------------------------------------------
(* Liveness. *)

(* Once saves stop, the worker runs with what is stored, without a restart. *)
WorkerCatchesUp ==
    <>[](Usable(Layer(compose, row.overrides)) =>
            settings["worker"] = Layer(compose, row.overrides))
=============================================================================
