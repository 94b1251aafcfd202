---------------------------- MODULE SettingsProofs ----------------------------
(***************************************************************************)
(* What is in force in each process, for any number of requests, deaths,   *)
(* new environments and failed statements.                                      *)
(***************************************************************************)
EXTENDS Settings, TLAPS

(* Layering overrides over an environment yields settings that keep what the *)
(* environment pins. *)
LEMMA LayerKeepsLocks ==
    ASSUME NEW e \in Environments, NEW o \in Overrides
    PROVE  /\ Layer(e, o) \in Effective
           /\ \A f \in e.locked : Layer(e, o)[f] = e.base[f]
<1>1. /\ e.base \in Effective
      /\ e.locked \subseteq Fields
  BY DEF Environments
<1>2. PICK names \in SUBSET Fields : o \in [names -> BOOLEAN]
  BY DEF Overrides
<1> QED
  BY <1>1, <1>2 DEF Layer, Effective

(* Merging a change into stored overrides yields overrides. *)
LEMMA MergeType ==
    ASSUME NEW changes \in Overrides, NEW stored \in Overrides
    PROVE  Over(changes, stored) \in Overrides
<1>1. PICK c \in SUBSET Fields : changes \in [c -> BOOLEAN]
  BY DEF Overrides
<1>2. PICK s \in SUBSET Fields : stored \in [s -> BOOLEAN]
  BY DEF Overrides
<1>3. Over(changes, stored) \in [c \cup s -> BOOLEAN]
  BY <1>1, <1>2 DEF Over
<1> QED
  BY <1>3 DEF Overrides

(* Names no field: the empty row of overrides. *)
LEMMA EmptyType == NoOverrides \in Overrides /\ NoSnapshot \in Snapshot
<1>1. NoOverrides \in [{} -> BOOLEAN]
  BY DEF NoOverrides
<1>2. NoOverrides \in Overrides
  BY <1>1 DEF Overrides
<1> QED
  BY <1>2 DEF NoSnapshot, Snapshot

(* Building the runner of imports keeps the type, and uses the settings in force *)
(* and the cached objects, nothing else. *)
LEMMA BuildsFromInForce ==
    ASSUME NEW b \in [Derived -> SUBSET Effective], NEW s \in Effective
    PROVE  /\ BuildRunner(b, s) \in [Derived -> SUBSET Effective]
           /\ (\A d \in Derived : b[d] \subseteq {s}) =>
                 \A d \in Derived : BuildRunner(b, s)[d] \subseteq {s}
<1> DEFINE c == BuildDiscovery(b, s)
<1> DEFINE h == BuildHandler(b, s)
<1>1. /\ c \in [Derived -> SUBSET Effective]
      /\ \A d \in Derived : c[d] = b[d] \/ c[d] = {s}
  BY DEF BuildDiscovery, Cached, Derived
<1>2. /\ h \in [Derived -> SUBSET Effective]
      /\ \A d \in Derived : h[d] = b[d] \/ h[d] \subseteq {s} \cup c["track_discovery"]
  BY <1>1 DEF BuildHandler, Derived
<1>3. /\ BuildRunner(b, s) \in [Derived -> SUBSET Effective]
      /\ \A d \in Derived : \/ BuildRunner(b, s)[d] \in {b[d], h[d]}
                             \/ BuildRunner(b, s)[d] \subseteq {s} \cup h["handle_import"]
  BY <1>2 DEF BuildRunner, Derived
<1>4. ASSUME \A d \in Derived : b[d] \subseteq {s}
      PROVE  \A d \in Derived : BuildRunner(b, s)[d] \subseteq {s}
  <2>1. c["track_discovery"] \subseteq {s}
    BY <1>1, <1>4 DEF Derived
  <2>2. \A d \in Derived : h[d] \subseteq {s}
    BY <1>2, <1>4, <2>1
  <2> QED
    BY <1>3, <1>4, <2>2 DEF Derived
<1> QED
  BY <1>3, <1>4

(* The same of an object that is given no other. *)
LEMMA CachedFromInForce ==
    ASSUME NEW b \in [Derived -> SUBSET Effective], NEW s \in Effective, NEW n \in Derived
    PROVE  /\ Cached(b, n, {s}) \in [Derived -> SUBSET Effective]
           /\ (\A d \in Derived : b[d] \subseteq {s}) =>
                 \A d \in Derived : Cached(b, n, {s})[d] \subseteq {s}
BY DEF Cached

-----------------------------------------------------------------------------
(* What one step may do to the containers: nothing, forget, install a snapshot *)
(* or build. *)

USE SettingsAssumption DEF Processes

CallsTypeOK ==
    /\ pc \in [Coroutines ->
                {"idle", "load", "save", "insert", "sync", "apply", "reconcile", "done"}]
    /\ held \in [Coroutines -> Snapshot]
    /\ sent \in [Requests -> SUBSET Fields]
    /\ wrote \in [Requests -> Nat]

(* The end of a sync keeps the type of what the coroutines carry. *)
LEMMA SyncedType ==
    ASSUME TypeOK, NEW t \in Coroutines, Synced(t)
    PROVE  CallsTypeOK'
<1> USE EmptyType DEF TypeOK, CallsTypeOK
<1>1. CASE t \in Requests
  <2>1. Ends(t)
    BY <1>1 DEF Synced
  <2> QED
    BY <1>1, <2>1 DEF Ends
<1>2. CASE t \notin Requests
  <2> DEFINE next == CASE t = "lifespan" -> "done"
                       [] t = "boot" -> "reconcile"
                       [] t = "loop" -> "idle"
  <2>1. next \in {"done", "reconcile", "idle"}
    BY <1>2 DEF Coroutines
  <2>2. /\ pc' = [pc EXCEPT ![t] = next]
        /\ held' = [held EXCEPT ![t] = NoSnapshot]
        /\ UNCHANGED <<sent, wrote>>
    BY <1>2 DEF Synced
  <2> HIDE DEF next
  <2> QED
    BY <2>1, <2>2
<1> QED
  BY <1>1, <1>2

(* Every variable keeps its type. *)
THEOREM TypeCorrect == Spec => []TypeOK
<1>1. Init => TypeOK
  <2> SUFFICES ASSUME Init PROVE TypeOK
    OBVIOUS
  <2>1. compose.base \in Effective
    BY DEF Init, Environments
  <2> QED
    BY <2>1, EmptyType DEF Init, TypeOK, NothingBuilt
<1>2. TypeOK /\ [Next]_vars => TypeOK'
  <2> SUFFICES ASSUME TypeOK, [Next]_vars PROVE TypeOK'
    OBVIOUS
  <2> USE DEF TypeOK
  <2>1. ASSUME NEW t \in Requests, NEW changes \in Changes, BeginPatch(t, changes)
        PROVE  TypeOK'
    <3>1. changes \in Overrides /\ DOMAIN changes \subseteq Fields
      BY DEF Overrides
    <3>2. [revision |-> 0, overrides |-> changes] \in Snapshot
      BY <3>1 DEF Snapshot
    <3> QED
      BY <2>1, <3>1, <3>2 DEF BeginPatch, containerVars, Coroutines
  <2>2. ASSUME NEW t \in Requests, BeginRead(t) PROVE TypeOK'
    BY <2>2 DEF BeginRead, containerVars
  <2>3. ASSUME NEW t \in Requests, LoadAndMerge(t) PROVE TypeOK'
    <3>1. Merged(t) \in Overrides
      BY MergeType DEF Merged, Snapshot, Coroutines
    <3>2. [revision |-> row.revision, overrides |-> Merged(t)] \in Snapshot
      BY <3>1 DEF Snapshot
    <3> QED
      BY <2>3, <3>2 DEF LoadAndMerge, containerVars
  <2>4. ASSUME NEW t \in Requests, Ends(t),
               UNCHANGED <<row, compose, containerVars, saved, faults>>
        PROVE  TypeOK'
    BY <2>4, EmptyType DEF Ends, containerVars
  <2>5. ASSUME NEW t \in Requests, Store(t), UNCHANGED <<compose, containerVars, faults>>
        PROVE  TypeOK'
    <3>1. held[t] \in Snapshot
      BY DEF Coroutines
    <3>2. /\ held[t].overrides \in Overrides
          /\ row.revision + 1 \in Nat
      BY <3>1 DEF Snapshot
    <3>3. row' \in Snapshot
      BY <2>5, <3>1, <3>2 DEF Store, Snapshot
    <3>4. wrote' \in [Requests -> Nat]
      BY <2>5, <3>2 DEF Store
    <3>5. saved' \in Seq(Overrides)
      BY <2>5, <3>2 DEF Store
    <3> QED
      BY <2>5, <3>3, <3>4, <3>5, EmptyType DEF Store, containerVars
  <2>6. ASSUME NEW t \in Requests, SaveMisses(t) PROVE TypeOK'
    BY <2>6 DEF SaveMisses, containerVars
  <2>7. ASSUME NEW t \in Coroutines, LoadSnapshot(t) PROVE TypeOK'
    BY <2>7 DEF LoadSnapshot, containerVars
  <2>8. ASSUME NEW t \in Coroutines, StatementFails(t) PROVE TypeOK'
    <3>1. CallsTypeOK'
      BY <2>8, SyncedType DEF StatementFails
    <3> QED
      BY <2>8, <3>1 DEF StatementFails, containerVars, CallsTypeOK
  <2>9. ASSUME NEW t \in Coroutines, ApplySnapshot(t) PROVE TypeOK'
    <3>1. CallsTypeOK'
      BY <2>9, SyncedType DEF ApplySnapshot
    <3>2. Layer(env[ProcessOf(t)], held[t].overrides) \in Effective
      BY LayerKeepsLocks DEF ProcessOf, Snapshot
    <3>3. /\ settings' \in [Processes -> Effective]
          /\ revision' \in [Processes -> Nat \cup {-1}]
          /\ built' \in [Processes -> [Derived -> SUBSET Effective]]
      BY <2>9, <3>2 DEF ApplySnapshot, Install, Adopt, Dropped, Snapshot
    <3> QED
      BY <2>9, <3>1, <3>3 DEF ApplySnapshot, CallsTypeOK
  <2>10. CASE Reload
    BY <2>10 DEF Reload, containerVars
  <2>11. CASE Reconcile
    <3>1. Cached(built["worker"], "reconcile_jobs", {settings["worker"]})
            \in [Derived -> SUBSET Effective]
      <4>1. "reconcile_jobs" \in Derived
        BY DEF Derived
      <4> QED
        BY <4>1, CachedFromInForce
    <3>2. built' \in [Processes -> [Derived -> SUBSET Effective]]
      BY <2>11, <3>1 DEF Reconcile
    <3>3. pc' \in [Coroutines ->
                {"idle", "load", "save", "insert", "sync", "apply", "reconcile", "done"}]
      BY <2>11 DEF Reconcile
    <3> QED
      BY <2>11, <3>2, <3>3 DEF Reconcile
  <2>12. CASE StartImport
    BY <2>12, BuildsFromInForce DEF StartImport, callVars
  <2>13. CASE ReadStatus
    <3>1. "system_status" \in Derived
      BY DEF Derived
    <3>2. Cached(built["api"], "system_status", {settings["api"]}) \in [Derived -> SUBSET Effective]
      BY <3>1, CachedFromInForce
    <3> QED
      BY <2>13, <3>2 DEF ReadStatus, callVars
  <2>14. ASSUME NEW p \in Processes, Start(p) PROVE TypeOK'
    BY <2>14 DEF Start
  <2>15. ASSUME NEW ps \in SUBSET Processes, NEW e \in Environments, Forget(ps, e),
                compose' \in Environments, faults' = faults + 1, UNCHANGED <<row, saved>>
         PROVE  TypeOK'
    <3>1. e.base \in Effective
      BY DEF Environments
    <3>2. /\ env' \in [Processes -> Environments]
          /\ up' \in [Processes -> BOOLEAN]
          /\ settings' \in [Processes -> Effective]
      BY <2>15, <3>1 DEF Forget
    <3>3. /\ revision' \in [Processes -> Nat \cup {-1}]
          /\ built' \in [Processes -> [Derived -> SUBSET Effective]]
      BY <2>15 DEF Forget, NothingBuilt
    <3>4. pc' \in [Coroutines -> {"idle", "load", "save", "insert", "sync", "apply", "reconcile", "done"}]
      BY <2>15 DEF Forget
    <3>5. /\ held' \in [Coroutines -> Snapshot]
          /\ sent' \in [Requests -> SUBSET Fields]
          /\ wrote' \in [Requests -> Nat]
      BY <2>15, EmptyType DEF Forget, Coroutines
    <3> QED
      BY <2>15, <3>2, <3>3, <3>4, <3>5
  <2>16. CASE UNCHANGED vars
    BY <2>16 DEF vars, containerVars, callVars
  <2> QED
    BY <2>1, <2>2, <2>3, <2>4, <2>5, <2>6, <2>7, <2>8, <2>9, <2>10, <2>11, <2>12, <2>13, <2>14,
       <2>15, <2>16
       DEF Next, Request, Sync, Refuse, Save, Insert, InsertFails, Kill, Redeploy
<1> QED
  BY <1>1, <1>2, PTL DEF Spec

-----------------------------------------------------------------------------
(* What one step may do, seen from the containers, the row and the snapshots *)
(* in flight. *)

Untouched == UNCHANGED <<env, settings, revision, built>>

Restarts == \E ps \in SUBSET Processes, e \in Environments : Forget(ps, e)

Installs ==
    \E t \in Coroutines :
        /\ pc[t] = "apply"
        /\ Install(ProcessOf(t), held[t])
        /\ UNCHANGED env

Builds ==
    /\ UNCHANGED <<env, settings, revision>>
    /\ \E p \in Processes :
        \/ built' = [built EXCEPT ![p] = BuildRunner(@, settings[p])]
        \/ \E n \in Derived : built' = [built EXCEPT ![p] = Cached(@, n, {settings[p]})]

(* A container is left alone, built anew, given a snapshot, or builds an object. *)
LEMMA ContainerSteps ==
    ASSUME TypeOK, [Next]_vars
    PROVE  Untouched \/ Restarts \/ Installs \/ Builds
<1> USE DEF Untouched, containerVars
<1>1. CASE UNCHANGED vars
  BY <1>1 DEF vars
<1>2. ASSUME NEW t \in Requests, Request(t) PROVE Untouched
  BY <1>2 DEF Request, BeginPatch, BeginRead, LoadAndMerge, Refuse, Save, SaveMisses, Insert, InsertFails
<1>3. ASSUME NEW t \in Coroutines, LoadSnapshot(t) \/ StatementFails(t) PROVE Untouched
  BY <1>3 DEF LoadSnapshot, StatementFails
<1>4. ASSUME NEW t \in Coroutines, ApplySnapshot(t) PROVE Installs
  BY <1>4 DEF ApplySnapshot, Installs
<1>5. CASE Reload
  BY <1>5 DEF Reload
<1>6. CASE Reconcile
  BY <1>6 DEF Reconcile, Builds, Derived
<1>7. CASE StartImport
  BY <1>7 DEF StartImport, Builds
<1>8. CASE ReadStatus
  BY <1>8 DEF ReadStatus, Builds, Derived
<1>9. ASSUME NEW p \in Processes, Start(p) PROVE Untouched
  BY <1>9 DEF Start
<1>10. ASSUME NEW p \in Processes, Kill(p) PROVE Restarts
  <2>1. Forget({p}, compose) /\ compose \in Environments
    BY <1>10 DEF Kill, TypeOK
  <2> QED
    BY <2>1 DEF Restarts
<1>11. CASE Redeploy
  <2>1. Forget(Processes, compose') /\ compose' \in Environments
    BY <1>11 DEF Redeploy
  <2> QED
    BY <2>1 DEF Restarts
<1> QED
  BY <1>1, <1>2, <1>3, <1>4, <1>5, <1>6, <1>7, <1>8, <1>9, <1>10, <1>11 DEF Next, Sync

Stores == \E t \in Requests : pc[t] \in {"save", "insert"} /\ Store(t) /\ UNCHANGED containerVars

(* The row changes when a request stores what it carries, and only then. *)
LEMMA TableSteps ==
    ASSUME [Next]_vars
    PROVE  UNCHANGED <<row, saved>> \/ Stores
<1>1. CASE UNCHANGED vars
  BY <1>1 DEF vars
<1>2. ASSUME NEW t \in Requests, Request(t) PROVE UNCHANGED <<row, saved>> \/ Stores
  BY <1>2 DEF Request, BeginPatch, BeginRead, LoadAndMerge, Refuse, Save, SaveMisses, Insert, InsertFails, Stores
<1>3. ASSUME NEW t \in Coroutines, Sync(t) \/ StatementFails(t) PROVE UNCHANGED <<row, saved>>
  BY <1>3 DEF Sync, LoadSnapshot, ApplySnapshot, StatementFails
<1>4. ASSUME NEW p \in Processes, Start(p) \/ Kill(p) PROVE UNCHANGED <<row, saved>>
  BY <1>4 DEF Start, Kill
<1>5. CASE Reload \/ Reconcile \/ StartImport \/ ReadStatus \/ Redeploy
  BY <1>5 DEF Reload, Reconcile, StartImport, ReadStatus, Redeploy
<1> QED
  BY <1>1, <1>2, <1>3, <1>4, <1>5 DEF Next

(* A snapshot that is to be applied was loaded in one step, and is not touched *)
(* until then. *)
LEMMA SnapshotSteps ==
    ASSUME TypeOK, [Next]_vars, NEW t \in Coroutines, pc'[t] = "apply"
    PROVE  \/ pc[t] = "apply" /\ held'[t] = held[t]
           \/ held'[t] = row /\ UNCHANGED <<row, saved, revision>>
<1> USE DEF TypeOK
<1>1. CASE UNCHANGED vars
  BY <1>1 DEF vars, callVars
<1>2. ASSUME NEW r \in Requests, Request(r) PROVE pc[t] = "apply" /\ held'[t] = held[t]
  BY <1>2 DEF Request, BeginPatch, BeginRead, LoadAndMerge, Refuse, Save, SaveMisses, Insert, InsertFails, Ends, Store
<1>3. ASSUME NEW r \in Coroutines, LoadSnapshot(r)
      PROVE  \/ pc[t] = "apply" /\ held'[t] = held[t]
             \/ held'[t] = row /\ UNCHANGED <<row, saved, revision>>
  BY <1>3 DEF LoadSnapshot, containerVars
<1>4. ASSUME NEW r \in Coroutines, Synced(r) PROVE pc[t] = "apply" /\ held'[t] = held[t]
  <2>1. CASE r \in Requests
    BY <1>4, <2>1 DEF Synced, Ends
  <2>2. CASE r = "boot" /\ r \notin Requests
    BY <1>4, <2>2 DEF Synced
  <2>3. CASE r = "loop" /\ r \notin Requests
    BY <1>4, <2>3 DEF Synced
  <2>4. CASE r = "lifespan" /\ r \notin Requests
    BY <1>4, <2>4 DEF Synced
  <2> QED
    BY <2>1, <2>2, <2>3, <2>4 DEF Coroutines
<1>5. ASSUME NEW p \in Processes, Start(p) PROVE pc[t] = "apply" /\ held'[t] = held[t]
  BY <1>5 DEF Start
<1>6. ASSUME NEW ps, NEW e, Forget(ps, e) PROVE pc[t] = "apply" /\ held'[t] = held[t]
  BY <1>6 DEF Forget
<1>7. CASE Reload \/ Reconcile \/ StartImport \/ ReadStatus
  BY <1>7 DEF Reload, Reconcile, StartImport, ReadStatus, callVars
<1> QED
  BY <1>1, <1>2, <1>3, <1>4, <1>5, <1>6, <1>7
     DEF Next, Sync, StatementFails, ApplySnapshot, Kill, Redeploy

-----------------------------------------------------------------------------
(* The row and the snapshots in flight, against every revision there was. *)

IsRevision(n, overrides) == n \in 0 .. Len(saved) /\ overrides = StoredAt(n)

HistoryInv ==
    /\ row.revision = Len(saved)
    /\ row.overrides = StoredAt(row.revision)
    /\ \A t \in Coroutines :
        pc[t] = "apply" => IsRevision(held[t].revision, held[t].overrides)

(* No step changes what a revision held. *)
LEMMA HistoryIsKept ==
    ASSUME TypeOK, HistoryInv, [Next]_vars
    PROVE  /\ Len(saved) <= Len(saved')
           /\ \A n \in 0 .. Len(saved) : StoredAt(n)' = StoredAt(n)
<1>1. CASE UNCHANGED <<row, saved>>
  BY <1>1 DEF TypeOK, StoredAt
<1>2. CASE Stores
  <2>1. PICK t \in Requests : saved' = Append(saved, held[t].overrides)
    BY <1>2 DEF Stores, Store
  <2>2. held[t].overrides \in Overrides
    BY DEF TypeOK, Coroutines, Snapshot
  <2> QED
    BY <2>1, <2>2 DEF TypeOK, StoredAt
<1> QED
  BY <1>1, <1>2, TableSteps

(* The row holds its own revision, and so does every snapshot not yet applied. *)
LEMMA HistoryStep ==
    ASSUME TypeOK, HistoryInv, [Next]_vars
    PROVE  HistoryInv'
<1>1. (row.revision = Len(saved) /\ row.overrides = StoredAt(row.revision))'
  <2>1. CASE UNCHANGED <<row, saved>>
    BY <2>1 DEF HistoryInv, StoredAt
  <2>2. CASE Stores
    <3>1. PICK t \in Requests : Store(t)
      BY <2>2 DEF Stores
    <3>2. held[t].overrides \in Overrides
      BY DEF TypeOK, Coroutines, Snapshot
    <3>3. /\ row'.revision = row.revision + 1
          /\ row'.overrides = held[t].overrides
          /\ saved' = Append(saved, held[t].overrides)
      <4>1. /\ row' = [held[t] EXCEPT !.revision = row.revision + 1]
            /\ saved' = Append(saved, held[t].overrides)
        BY <3>1 DEF Store
      <4>2. held[t] \in [revision : Nat, overrides : Overrides]
        BY DEF TypeOK, Coroutines, Snapshot
      <4> QED
        BY <4>1, <4>2
    <3>4. /\ Len(saved') = Len(saved) + 1
          /\ saved'[Len(saved) + 1] = held[t].overrides
      BY <3>2, <3>3 DEF TypeOK
    <3>5. Len(saved) + 1 # 0
      BY DEF TypeOK
    <3> QED
      BY <3>3, <3>4, <3>5 DEF HistoryInv, StoredAt
  <2> QED
    BY <2>1, <2>2, TableSteps
<1>2. ASSUME NEW t \in Coroutines, pc'[t] = "apply"
      PROVE  IsRevision(held[t].revision, held[t].overrides)'
  <2>1. CASE pc[t] = "apply" /\ held'[t] = held[t]
    <3>1. IsRevision(held[t].revision, held[t].overrides)
      BY <2>1 DEF HistoryInv
    <3> QED
      BY <2>1, <3>1, HistoryIsKept DEF IsRevision, TypeOK
  <2>2. CASE held'[t] = row /\ UNCHANGED <<row, saved, revision>>
    BY <1>1, <2>2 DEF IsRevision, TypeOK
  <2> QED
    BY <1>2, <2>1, <2>2, SnapshotSteps
<1> QED
  BY <1>1, <1>2 DEF HistoryInv

-----------------------------------------------------------------------------
(* What is in force, against the revision that the process notes. *)

AppliedInv ==
    \A p \in Processes :
        /\ revision[p] <= Len(saved)
        /\ revision[p] >= 0 =>
            LET s == Layer(env[p], StoredAt(revision[p]))
            IN Usable(s) => settings[p] = s

(* A container notes a revision and adopts its overrides in one step, or keeps *)
(* both. *)
LEMMA AppliedStep ==
    ASSUME TypeOK, HistoryInv, AppliedInv, [Next]_vars
    PROVE  AppliedInv'
<1> USE DEF TypeOK
<1>1. ASSUME NEW p \in Processes, env'[p] = env[p], settings'[p] = settings[p],
             revision'[p] = revision[p]
      PROVE  /\ revision'[p] <= Len(saved')
             /\ revision'[p] >= 0 =>
                 (Usable(Layer(env[p], StoredAt(revision[p]))) =>
                     settings[p] = Layer(env[p], StoredAt(revision[p])))'
  <2>1. /\ revision[p] <= Len(saved)
        /\ Len(saved) <= Len(saved')
    BY HistoryIsKept DEF AppliedInv
  <2>2. revision[p] >= 0 => StoredAt(revision[p])' = StoredAt(revision[p])
    BY <1>1, <2>1, HistoryIsKept
  <2> QED
    BY <1>1, <2>1, <2>2 DEF AppliedInv
<1>2. ASSUME Untouched \/ Builds PROVE AppliedInv'
  BY <1>1, <1>2 DEF Untouched, Builds, AppliedInv
<1>3. ASSUME Restarts PROVE AppliedInv'
  <2>1. PICK ps \in SUBSET Processes, e \in Environments : Forget(ps, e)
    BY <1>3 DEF Restarts
  <2>2. ASSUME NEW p \in ps PROVE revision'[p] = -1
    BY <2>1, <2>2 DEF Forget
  <2>3. ASSUME NEW p \in Processes \ ps
        PROVE  env'[p] = env[p] /\ settings'[p] = settings[p] /\ revision'[p] = revision[p]
    BY <2>1, <2>3 DEF Forget
  <2> QED
    BY <1>1, <2>2, <2>3 DEF AppliedInv
<1>4. ASSUME Installs PROVE AppliedInv'
  <2>1. PICK t \in Coroutines :
            pc[t] = "apply" /\ Install(ProcessOf(t), held[t]) /\ UNCHANGED env
    BY <1>4 DEF Installs
  <2> DEFINE q == ProcessOf(t)
             updated == Layer(env[q], held[t].overrides)
  <2>2. q \in Processes
    BY DEF ProcessOf
  <2>3. ASSUME NEW p \in Processes, p # q
        PROVE  env'[p] = env[p] /\ settings'[p] = settings[p] /\ revision'[p] = revision[p]
    BY <2>1, <2>2, <2>3 DEF Install, Adopt
  <2>4. CASE Skips(q, held[t])
    BY <1>1, <2>1, <2>3, <2>4 DEF Install, AppliedInv
  <2>5. CASE ~ Skips(q, held[t])
    <3>1. /\ revision'[q] = held[t].revision
          /\ Usable(updated) => settings'[q] = updated
      BY <2>1, <2>2, <2>5 DEF Install, Adopt
    <3>2. /\ held[t].revision \in 0 .. Len(saved)
          /\ held[t].overrides = StoredAt(held[t].revision)
      BY <2>1 DEF HistoryInv, IsRevision
    <3>3. Len(saved) <= Len(saved')
      BY HistoryIsKept
    <3>4. \A n \in 0 .. Len(saved) : n = revision'[q] => StoredAt(revision[q])' = StoredAt(n)
      BY HistoryIsKept
    <3>5. StoredAt(revision[q])' = held[t].overrides
      BY <3>1, <3>2, <3>4
    <3>6. /\ revision'[q] <= Len(saved')
          /\ Usable(Layer(env[q], StoredAt(revision[q])))' =>
                settings'[q] = Layer(env[q], StoredAt(revision[q]))'
      BY <2>1, <3>1, <3>2, <3>3, <3>5
    <3> QED
      BY <1>1, <2>3, <3>6 DEF AppliedInv
  <2> QED
    BY <2>4, <2>5
<1> QED
  BY <1>2, <1>3, <1>4, ContainerSteps

(* The settings in force are the ones of the revision the process notes: a *)
(* snapshot holds what its revision held, and revisions are never rewritten. *)
THEOREM AppliedRevisionIsInForce == Spec => []RevisionIsApplied
<1> DEFINE Inv == HistoryInv /\ AppliedInv
<1>1. Init => Inv
  BY DEF Init, HistoryInv, AppliedInv, NoSnapshot, StoredAt
<1>2. TypeOK /\ Inv /\ [Next]_vars => Inv'
  BY HistoryStep, AppliedStep
<1>3. Inv => RevisionIsApplied
  BY DEF AppliedInv, RevisionIsApplied
<1> QED
  BY <1>1, <1>2, <1>3, TypeCorrect, PTL DEF Spec

-----------------------------------------------------------------------------
(* Rules and locks. *)

LocksHold(p) ==
    /\ Usable(settings[p])
    /\ \A f \in env[p].locked : settings[p][f] = env[p].base[f]

(* The same as InForceIsUsable, of a process that is down too: it is started *)
(* with what it forgot. *)
LocksInv == \A p \in Processes : LocksHold(p)

(* No process runs with settings that break a cross-field rule or override its *)
(* environment: an environment is usable, and unusable overrides are not adopted. *)
THEOREM InForceAreUsable == Spec => []InForceIsUsable
<1>1. Init => LocksInv
  BY DEF Init, LocksInv, LocksHold, Environments
<1>2. TypeOK /\ LocksInv /\ [Next]_vars => LocksInv'
  <2> SUFFICES ASSUME TypeOK, LocksInv, [Next]_vars PROVE LocksInv'
    OBVIOUS
  <2> USE DEF TypeOK
  <2>1. CASE Untouched \/ Builds
    BY <2>1 DEF Untouched, Builds, LocksInv, LocksHold
  <2>2. CASE Restarts
    <3>1. PICK ps \in SUBSET Processes, e \in Environments : Forget(ps, e)
      BY <2>2 DEF Restarts
    <3>2. Usable(e.base)
      BY DEF Environments
    <3>3. ASSUME NEW p \in Processes
          PROVE  \/ env'[p] = e /\ settings'[p] = e.base
                 \/ env'[p] = env[p] /\ settings'[p] = settings[p]
      BY <3>1 DEF Forget
    <3> QED
      BY <3>2, <3>3 DEF LocksInv, LocksHold
  <2>3. CASE Installs
    <3>1. PICK t \in Coroutines :
              pc[t] = "apply" /\ Install(ProcessOf(t), held[t]) /\ UNCHANGED env
      BY <2>3 DEF Installs
    <3> DEFINE updated == Layer(env[ProcessOf(t)], held[t].overrides)
    <3>2. \A f \in env[ProcessOf(t)].locked : updated[f] = env[ProcessOf(t)].base[f]
      BY LayerKeepsLocks DEF ProcessOf, Snapshot
    <3>3. ASSUME NEW p \in Processes
          PROVE  \/ settings'[p] = settings[p]
                 \/ p = ProcessOf(t) /\ Usable(updated) /\ settings'[p] = updated
      BY <3>1 DEF Install, Adopt
    <3> QED
      BY <3>1, <3>2, <3>3 DEF LocksInv, LocksHold
  <2> QED
    BY <2>1, <2>2, <2>3, ContainerSteps
<1>3. LocksInv => InForceIsUsable
  BY DEF LocksInv, LocksHold, InForceIsUsable
<1> QED
  BY <1>1, <1>2, <1>3, TypeCorrect, PTL DEF Spec

-----------------------------------------------------------------------------
(* Cached objects. *)

FreshInv == \A p \in Processes, d \in Derived : built[p][d] \subseteq {settings[p]}

(* No cached object was built, at any depth, from settings that are no longer in *)
(* force: what new settings invalidate is dropped in the step that adopts them. *)
THEOREM DerivedAreFresh == Spec => []DerivedIsFresh
<1>1. Init => FreshInv
  BY DEF Init, FreshInv, NothingBuilt
<1>2. TypeOK /\ FreshInv /\ [Next]_vars => FreshInv'
  <2> SUFFICES ASSUME TypeOK, FreshInv, [Next]_vars PROVE FreshInv'
    OBVIOUS
  <2> USE DEF TypeOK
  <2>1. CASE Untouched
    BY <2>1 DEF Untouched, FreshInv
  <2>2. CASE Restarts
    <3>1. PICK ps \in SUBSET Processes, e \in Environments : Forget(ps, e)
      BY <2>2 DEF Restarts
    <3>2. ASSUME NEW p \in Processes
          PROVE  \/ built'[p] = NothingBuilt
                 \/ built'[p] = built[p] /\ settings'[p] = settings[p]
      BY <3>1 DEF Forget
    <3> QED
      BY <3>2 DEF FreshInv, NothingBuilt
  <2>3. CASE Installs
    <3>1. PICK t \in Coroutines : Install(ProcessOf(t), held[t])
      BY <2>3 DEF Installs
    <3>2. ASSUME NEW p \in Processes
          PROVE  \/ built'[p] = Dropped(built[p])
                 \/ built'[p] = built[p] /\ settings'[p] = settings[p]
      BY <3>1 DEF Install, Adopt
    <3> QED
      BY <3>2 DEF FreshInv, Dropped
  <2>4. CASE Builds
    <3>1. PICK p \in Processes :
              \/ built' = [built EXCEPT ![p] = BuildRunner(@, settings[p])]
              \/ \E n \in Derived : built' = [built EXCEPT ![p] = Cached(@, n, {settings[p]})]
      BY <2>4 DEF Builds
    <3>2. \A d \in Derived : built'[p][d] \subseteq {settings[p]}
      <4>1. CASE built' = [built EXCEPT ![p] = BuildRunner(@, settings[p])]
        BY <4>1, BuildsFromInForce DEF FreshInv
      <4>2. ASSUME NEW n \in Derived, built' = [built EXCEPT ![p] = Cached(@, n, {settings[p]})]
            PROVE  \A d \in Derived : built'[p][d] \subseteq {settings[p]}
        BY <4>2, CachedFromInForce DEF FreshInv
      <4> QED
        BY <3>1, <4>1, <4>2
    <3>3. settings' = settings /\ \A q \in Processes : q # p => built'[q] = built[q]
      BY <2>4, <3>1 DEF Builds
    <3> QED
      BY <3>2, <3>3 DEF FreshInv
  <2> QED
    BY <2>1, <2>2, <2>3, <2>4, ContainerSteps
<1>3. FreshInv => DerivedIsFresh
  BY DEF FreshInv, DerivedIsFresh
<1> QED
  BY <1>1, <1>2, <1>3, TypeCorrect, PTL DEF Spec

-----------------------------------------------------------------------------
(* What a PATCH stores, and what it shows. *)

(* A step, seen from request t. *)
Stays(t) ==
    /\ pc'[t] = pc[t] /\ held'[t] = held[t] /\ wrote'[t] = wrote[t]
    /\ (t \in Requests => sent'[t] = sent[t])
    /\ env'["api"] = env["api"]

Leaves(t) == pc'[t] \in {"idle", "done"} /\ wrote'[t] = 0

Begins(t) ==
    /\ pc[t] = "idle"
    /\ \/ pc'[t] = "sync"
       \/ pc'[t] = "load" /\ sent'[t] = DOMAIN held'[t].overrides
    /\ wrote'[t] = wrote[t]

Puts(t) == pc[t] \in {"save", "insert"} /\ Store(t) /\ UNCHANGED containerVars

(* A request stays where it is, leaves, or makes a step of its own. *)
LEMMA RequestSteps ==
    ASSUME TypeOK, [Next]_vars, NEW t \in Requests
    PROVE  \/ Stays(t) \/ Leaves(t) \/ Begins(t) \/ Puts(t)
           \/ LoadAndMerge(t) \/ SaveMisses(t) \/ LoadSnapshot(t)
<1> USE DEF TypeOK
<1>1. CASE UNCHANGED vars
  BY <1>1 DEF vars, callVars, containerVars, Stays
<1>2. ASSUME NEW r \in Requests, r # t, Request(r) PROVE Stays(t)
  BY <1>2 DEF Request, BeginPatch, BeginRead, LoadAndMerge, Refuse, Save, SaveMisses, Insert, InsertFails, Ends, Store, containerVars, Stays, Coroutines
<1>3. CASE Request(t)
  <2>1. ASSUME NEW changes \in Changes, BeginPatch(t, changes) PROVE Begins(t)
    BY <2>1 DEF BeginPatch, Begins, Coroutines
  <2>2. CASE BeginRead(t)
    BY <2>2 DEF BeginRead, Begins, Coroutines
  <2>3. CASE Refuse(t) \/ InsertFails(t)
    BY <2>3 DEF Refuse, InsertFails, Ends, Leaves, Coroutines
  <2>4. CASE Save(t) \/ Insert(t)
    BY <2>4 DEF Save, Insert, Puts
  <2> QED
    BY <1>3, <2>1, <2>2, <2>3, <2>4 DEF Request
<1>4. ASSUME NEW r \in Coroutines, r # t, LoadSnapshot(r) PROVE Stays(t)
  BY <1>4 DEF LoadSnapshot, Stays, Coroutines, containerVars
<1>5. ASSUME NEW r \in Coroutines, Synced(r), UNCHANGED env PROVE Stays(t) \/ Leaves(t)
  <2>1. CASE r \in Requests
    BY <1>5, <2>1 DEF Synced, Ends, Stays, Leaves, Coroutines
  <2>2. CASE r \notin Requests
    <3>1. /\ \E next : pc' = [pc EXCEPT ![r] = next]
          /\ held' = [held EXCEPT ![r] = NoSnapshot]
          /\ UNCHANGED <<sent, wrote>>
      BY <1>5, <2>2 DEF Synced
    <3> QED
      BY <1>5, <2>2, <3>1 DEF Stays, Coroutines
  <2> QED
    BY <2>1, <2>2
<1>6. ASSUME NEW p \in Processes, Start(p) PROVE Stays(t)
  BY <1>6 DEF Start, Stays, Coroutines
<1>7. ASSUME NEW ps, NEW e, Forget(ps, e) PROVE Stays(t) \/ Leaves(t)
  <2>1. ProcessOf(t) = "api"
    BY DEF ProcessOf
  <2>2. CASE "api" \in ps
    BY <1>7, <2>1, <2>2 DEF Forget, Leaves, Coroutines
  <2>3. CASE "api" \notin ps
    BY <1>7, <2>1, <2>3 DEF Forget, Stays, Coroutines
  <2> QED
    BY <2>2, <2>3
<1>8. CASE Reload \/ Reconcile \/ StartImport \/ ReadStatus
  BY <1>8 DEF Reload, Reconcile, StartImport, ReadStatus, callVars, containerVars, Stays, Coroutines
<1> QED
  BY <1>1, <1>2, <1>3, <1>4, <1>5, <1>6, <1>7, <1>8
     DEF Next, Sync, StatementFails, ApplySnapshot, Kill, Redeploy, containerVars

(* A PATCH that has not stored yet carries overrides its process could use: the *)
(* environment changes only when the process, and the request with it, is gone. *)
CheckedInv ==
    \A t \in Requests :
        pc[t] \in {"save", "insert"} => Usable(Layer(env["api"], held[t].overrides))

LEMMA CheckedStep ==
    ASSUME TypeOK, CheckedInv, [Next]_vars
    PROVE  CheckedInv'
<1> SUFFICES ASSUME NEW t \in Requests, pc'[t] \in {"save", "insert"}
             PROVE  Usable(Layer(env["api"], held[t].overrides))'
  BY DEF CheckedInv
<1> USE DEF TypeOK, Coroutines
<1>1. CASE Stays(t)
  BY <1>1 DEF Stays, CheckedInv
<1>2. CASE LoadAndMerge(t)
  BY <1>2 DEF LoadAndMerge, Accepts, containerVars
<1>3. CASE SaveMisses(t)
  BY <1>3 DEF SaveMisses, CheckedInv, containerVars
<1> QED
  BY <1>1, <1>2, <1>3, RequestSteps DEF Leaves, Begins, Puts, Store, LoadSnapshot

(* A row that a request stores is usable for the process that stores it, though *)
(* it was merged and validated two awaits before. *)
THEOREM StoredRowsAreUsable == Spec => SavesAreUsable
<1>1. Init => CheckedInv
  BY DEF Init, CheckedInv, Coroutines
<1>2. TypeOK /\ CheckedInv /\ [Next]_vars => CheckedInv'
  BY CheckedStep
<1>3. TypeOK /\ CheckedInv /\ [Next]_vars =>
        [saved' # saved => Usable(Layer(env["api"], row'.overrides))]_vars
  <2> SUFFICES ASSUME TypeOK, CheckedInv, [Next]_vars, saved' # saved
               PROVE  Usable(Layer(env["api"], row'.overrides))
    OBVIOUS
  <2>1. PICK t \in Requests : pc[t] \in {"save", "insert"} /\ Store(t)
    BY TableSteps DEF Stores
  <2>2. row' = [held[t] EXCEPT !.revision = row.revision + 1]
    BY <2>1 DEF Store
  <2>3. held[t] \in [revision : Nat, overrides : Overrides]
    BY DEF TypeOK, Coroutines, Snapshot
  <2>4. row'.overrides = held[t].overrides
    BY <2>2, <2>3
  <2> QED
    BY <2>1, <2>4 DEF CheckedInv
<1> QED
  BY <1>1, <1>2, <1>3, TypeCorrect, PTL DEF Spec, SavesAreUsable

(* A PATCH that has stored is about to show a revision that is its own or later, *)
(* and whatever was stored since then is usable. *)
WroteInv ==
    \A t \in Requests : wrote[t] > 0 =>
        /\ pc[t] \in {"sync", "apply"}
        /\ wrote[t] <= Len(saved)
        /\ \A n \in wrote[t] .. Len(saved) : Usable(Layer(env["api"], saved[n]))
        /\ pc[t] = "apply" => held[t].revision >= wrote[t]

LEMMA WroteStep ==
    ASSUME TypeOK, HistoryInv, CheckedInv, WroteInv, [Next]_vars
    PROVE  WroteInv'
<1> SUFFICES ASSUME NEW t \in Requests, wrote'[t] > 0
             PROVE  /\ pc'[t] \in {"sync", "apply"}
                    /\ wrote'[t] <= Len(saved')
                    /\ \A n \in wrote'[t] .. Len(saved') : Usable(Layer(env["api"], saved[n]))'
                    /\ pc'[t] = "apply" => held'[t].revision >= wrote'[t]
  BY DEF WroteInv
<1> USE DEF TypeOK, Coroutines
<1>1. ASSUME NEW r \in Requests, pc[r] \in {"save", "insert"}, Store(r)
      PROVE  /\ Len(saved') = Len(saved) + 1
             /\ \A n \in 1 .. Len(saved) : saved'[n] = saved[n]
             /\ saved'[Len(saved')] = held[r].overrides
             /\ Usable(Layer(env["api"], held[r].overrides))
             /\ wrote'[r] = Len(saved')
  <2>1. held[r].overrides \in Overrides
    BY DEF Snapshot
  <2> QED
    BY <1>1, <2>1 DEF Store, CheckedInv, HistoryInv
<1>2. ASSUME wrote[t] > 0, wrote'[t] = wrote[t], env'["api"] = env["api"]
      PROVE  /\ wrote'[t] <= Len(saved')
             /\ \A n \in wrote'[t] .. Len(saved') : Usable(Layer(env["api"], saved[n]))'
  <2>1. CASE UNCHANGED <<row, saved>>
    BY <1>2, <2>1 DEF WroteInv
  <2>2. CASE Stores
    <3>1. PICK r \in Requests : pc[r] \in {"save", "insert"} /\ Store(r)
      BY <2>2 DEF Stores
    <3>2. wrote[t] <= Len(saved) /\ wrote[t] > 0
      BY <1>2 DEF WroteInv
    <3>3. Len(saved') = Len(saved) + 1
      BY <1>1, <3>1
    <3>4. ASSUME NEW n \in wrote[t] .. Len(saved')
          PROVE  Usable(Layer(env["api"], saved'[n]))
      <4>1. CASE n = Len(saved')
        BY <1>1, <3>1, <4>1
      <4>2. CASE n # Len(saved')
        <5>1. n \in wrote[t] .. Len(saved) /\ n \in 1 .. Len(saved)
          BY <3>2, <3>3, <4>2
        <5>2. saved'[n] = saved[n]
          BY <1>1, <3>1, <5>1
        <5> QED
          BY <1>2, <5>1, <5>2 DEF WroteInv
      <4> QED
        BY <4>1, <4>2
    <3> QED
      BY <1>2, <3>2, <3>3, <3>4
  <2> QED
    BY <2>1, <2>2, TableSteps
<1>3. CASE Stays(t)
  BY <1>2, <1>3 DEF Stays, WroteInv
<1>4. CASE Puts(t)
  <2>1. env' = env /\ pc'[t] = "sync"
    BY <1>4 DEF Puts, Store, containerVars
  <2> QED
    BY <1>1, <1>4, <2>1 DEF Puts
<1>5. CASE LoadSnapshot(t)
  <2>1. /\ env' = env
        /\ wrote'[t] = wrote[t]
        /\ pc'[t] = "apply"
        /\ held'[t].revision = Len(saved)
    BY <1>5 DEF LoadSnapshot, containerVars, HistoryInv
  <2> QED
    BY <1>2, <2>1 DEF WroteInv
<1>6. CASE Leaves(t)
  BY <1>6 DEF Leaves
<1>7. CASE Begins(t) \/ LoadAndMerge(t) \/ SaveMisses(t)
  BY <1>7 DEF Begins, LoadAndMerge, SaveMisses, WroteInv
<1> QED
  BY <1>3, <1>4, <1>5, <1>6, <1>7, RequestSteps

(* The last step of a request that succeeds applies what it loaded. *)
LEMMA AnswersApply ==
    ASSUME TypeOK, [Next]_vars, NEW t \in Requests, pc[t] = "apply", pc'[t] = "done", up'["api"]
    PROVE  ApplySnapshot(t)
<1> USE DEF TypeOK, Coroutines
<1>1. ASSUME UNCHANGED vars PROVE FALSE
  BY <1>1 DEF vars, callVars
<1>2. ASSUME NEW r \in Requests, Request(r) PROVE FALSE
  BY <1>2 DEF Request, BeginPatch, BeginRead, LoadAndMerge, Refuse, Save, SaveMisses, Insert, InsertFails, Ends, Store
<1>3. ASSUME NEW r \in Coroutines, LoadSnapshot(r) PROVE FALSE
  BY <1>3 DEF LoadSnapshot
<1>4. ASSUME NEW r \in Coroutines, r # t, Synced(r) PROVE FALSE
  <2>1. \E next : pc' = [pc EXCEPT ![r] = next]
    BY <1>4 DEF Synced, Ends
  <2> QED
    BY <1>4, <2>1
<1>5. ASSUME NEW p \in Processes, Start(p) PROVE FALSE
  BY <1>5 DEF Start
<1>6. ASSUME NEW ps, NEW e, Forget(ps, e) PROVE FALSE
  <2>1. ProcessOf(t) = "api" /\ "api" \notin ps
    BY <1>6 DEF ProcessOf, Forget
  <2> QED
    BY <1>6, <2>1 DEF Forget
<1>7. CASE Reload \/ Reconcile \/ StartImport \/ ReadStatus
  BY <1>7 DEF Reload, Reconcile, StartImport, ReadStatus, callVars
<1> QED
  BY <1>1, <1>2, <1>3, <1>4, <1>5, <1>6, <1>7 DEF Next, Sync, StatementFails, ApplySnapshot, Kill, Redeploy

(* The answer to a PATCH shows the settings of its own revision or of a later *)
(* one, whatever was loaded and applied between its save and its answer. *)
THEOREM AnswersShowTheChange == Spec => ReadYourWrites
<1> DEFINE Inv == HistoryInv /\ AppliedInv /\ CheckedInv /\ WroteInv
           Shows == \A t \in Requests :
                        up'["api"] /\ pc[t] = "apply" /\ pc'[t] = "done" /\ wrote[t] > 0 =>
                            \E n \in wrote[t] .. Len(saved) :
                                settings'["api"] = Layer(env["api"], saved[n])
<1>1. Init => Inv
  BY DEF Init, HistoryInv, AppliedInv, CheckedInv, WroteInv, NoSnapshot, StoredAt, Coroutines
<1>2. TypeOK /\ Inv /\ [Next]_vars => Inv'
  BY HistoryStep, AppliedStep, CheckedStep, WroteStep
<1>3. TypeOK /\ Inv /\ [Next]_vars => Shows
  <2> SUFFICES ASSUME TypeOK, Inv, [Next]_vars, NEW t \in Requests,
                      up'["api"], pc[t] = "apply", pc'[t] = "done", wrote[t] > 0
               PROVE  \E n \in wrote[t] .. Len(saved) :
                          settings'["api"] = Layer(env["api"], saved[n])
    OBVIOUS
  <2> DEFINE n == held[t].revision
  <2> USE DEF TypeOK, Coroutines
  <2>1. Install("api", held[t])
    BY AnswersApply DEF ApplySnapshot, ProcessOf
  <2>2. /\ n \in wrote[t] .. Len(saved)
        /\ held[t].overrides = StoredAt(n)
    BY DEF WroteInv, HistoryInv, IsRevision
  <2>3. StoredAt(n) = saved[n]
    BY <2>2 DEF StoredAt
  <2>4. Usable(Layer(env["api"], saved[n]))
    BY <2>2 DEF WroteInv
  <2>5. settings'["api"] = Layer(env["api"], saved[n])
    <3>1. CASE Skips("api", held[t])
      BY <2>1, <2>2, <2>3, <2>4, <3>1 DEF Install, Skips, AppliedInv
    <3>2. CASE ~ Skips("api", held[t])
      BY <2>1, <2>2, <2>3, <2>4, <3>2 DEF Install, Adopt
    <3> QED
      BY <3>1, <3>2
  <2> QED
    BY <2>2, <2>5
<1>4. TypeOK /\ Inv /\ [Next]_vars => [Shows]_vars
  BY <1>3
<1> QED
  BY <1>1, <1>2, <1>4, TypeCorrect, PTL DEF Spec, ReadYourWrites

-----------------------------------------------------------------------------
(* The worker's own order. *)

(* The loop begins when the boot is over, and neither carries a snapshot older *)
(* than the one the worker applied last. *)
ForwardInv ==
    /\ pc["boot"] # "done" => pc["loop"] = "idle"
    /\ ~ up["worker"] => pc["boot"] = "idle"
    /\ \A t \in {"boot", "loop"} : pc[t] = "apply" => held[t].revision >= revision["worker"]

(* Synced, of the two coroutines of the worker. *)
LEMMA WorkerSynced ==
    ASSUME TypeOK, NEW t \in Coroutines, Synced(t)
    PROVE  /\ pc'["boot"] = IF t = "boot" THEN "reconcile" ELSE pc["boot"]
           /\ pc'["loop"] = IF t = "loop" THEN "idle" ELSE pc["loop"]
           /\ t # "boot" => held'["boot"] = held["boot"]
           /\ t # "loop" => held'["loop"] = held["loop"]
<1> USE DEF TypeOK, Coroutines
<1>1. CASE t \in Requests
  BY <1>1 DEF Synced, Ends
<1>2. CASE t = "boot" /\ t \notin Requests
  BY <1>2 DEF Synced
<1>3. CASE t = "loop" /\ t \notin Requests
  BY <1>3 DEF Synced
<1>4. CASE t = "lifespan" /\ t \notin Requests
  BY <1>4 DEF Synced
<1> QED
  BY <1>1, <1>2, <1>3, <1>4

LEMMA ForwardStep ==
    ASSUME TypeOK, HistoryInv, AppliedInv, ForwardInv, [Next]_vars
    PROVE  ForwardInv'
<1> USE DEF TypeOK, Coroutines
<1>1. CASE UNCHANGED vars
  BY <1>1 DEF vars, callVars, containerVars, ForwardInv
<1>2. ASSUME NEW t \in Requests, Request(t) PROVE ForwardInv'
  <2>1. /\ UNCHANGED containerVars
        /\ \A r \in {"boot", "loop"} : pc'[r] = pc[r] /\ held'[r] = held[r]
    BY <1>2 DEF Request, BeginPatch, BeginRead, LoadAndMerge, Refuse, Save, SaveMisses, Insert, InsertFails, Ends, Store
  <2> QED
    BY <2>1 DEF containerVars, ForwardInv
<1>3. ASSUME NEW t \in Coroutines, LoadSnapshot(t) PROVE ForwardInv'
  BY <1>3 DEF LoadSnapshot, containerVars, ForwardInv, HistoryInv, AppliedInv
<1>4. ASSUME NEW t \in Coroutines, ApplySnapshot(t) PROVE ForwardInv'
  <2>1. Synced(t) /\ pc[t] = "apply" /\ up' = up /\ Install(ProcessOf(t), held[t])
    BY <1>4 DEF ApplySnapshot
  <2>2. t \notin {"boot", "loop"} => revision'["worker"] = revision["worker"]
    BY <2>1 DEF Install, ProcessOf
  <2> QED
    BY <2>1, <2>2, WorkerSynced DEF ForwardInv
<1>5. ASSUME NEW t \in Coroutines, StatementFails(t) PROVE ForwardInv'
  BY <1>5, WorkerSynced DEF StatementFails, containerVars, ForwardInv
<1>6. CASE Reload
  BY <1>6 DEF Reload, containerVars, ForwardInv
<1>7. CASE Reconcile
  BY <1>7 DEF Reconcile, ForwardInv
<1>8. CASE StartImport \/ ReadStatus
  BY <1>8 DEF StartImport, ReadStatus, callVars, ForwardInv
<1>9. ASSUME NEW p \in Processes, Start(p) PROVE ForwardInv'
  BY <1>9 DEF Start, ForwardInv
<1>10. ASSUME NEW ps \in SUBSET Processes, NEW e, Forget(ps, e) PROVE ForwardInv'
  <2>1. ProcessOf("boot") = "worker" /\ ProcessOf("loop") = "worker"
    BY DEF ProcessOf
  <2>2. CASE "worker" \in ps
    <3>1. pc'["boot"] = "idle" /\ pc'["loop"] = "idle"
      BY <1>10, <2>1, <2>2 DEF Forget
    <3> QED
      BY <3>1 DEF ForwardInv
  <2>3. CASE "worker" \notin ps
    <3>1. \A r \in {"boot", "loop"} : pc'[r] = pc[r] /\ held'[r] = held[r]
      BY <1>10, <2>1, <2>3 DEF Forget
    <3>2. up'["worker"] = up["worker"] /\ revision'["worker"] = revision["worker"]
      BY <1>10, <2>3 DEF Forget
    <3> QED
      BY <3>1, <3>2 DEF ForwardInv
  <2> QED
    BY <2>2, <2>3
<1> QED
  BY <1>1, <1>2, <1>3, <1>4, <1>5, <1>6, <1>7, <1>8, <1>9, <1>10 DEF Next, Sync, Kill, Redeploy

(* The worker never goes back to an older revision while it lives, though a load *)
(* may fail at any time: it boots and reloads in one sequence. *)
THEOREM WorkerIsMonotonic == Spec => WorkerGoesForward
<1> DEFINE Inv == HistoryInv /\ AppliedInv /\ ForwardInv
           Forward == up["worker"] /\ up'["worker"] => revision'["worker"] >= revision["worker"]
<1>1. Init => Inv
  BY DEF Init, HistoryInv, AppliedInv, ForwardInv, NoSnapshot, StoredAt, Coroutines
<1>2. TypeOK /\ Inv /\ [Next]_vars => Inv'
  BY HistoryStep, AppliedStep, ForwardStep
<1>3. TypeOK /\ Inv /\ [Next]_vars => Forward
  <2> SUFFICES ASSUME TypeOK, Inv, [Next]_vars, up["worker"], up'["worker"]
               PROVE  revision'["worker"] >= revision["worker"]
    OBVIOUS
  <2>1. CASE Untouched \/ Builds
    BY <2>1 DEF Untouched, Builds, TypeOK
  <2>2. CASE Restarts
    <3>1. PICK ps \in SUBSET Processes, e \in Environments : Forget(ps, e)
      BY <2>2 DEF Restarts
    <3>2. "worker" \notin ps
      BY <3>1 DEF Forget, TypeOK
    <3>3. revision'["worker"] = revision["worker"]
      BY <3>1, <3>2 DEF Forget
    <3> QED
      BY <3>3 DEF TypeOK
  <2>3. CASE Installs
    <3>1. PICK t \in Coroutines : pc[t] = "apply" /\ Install(ProcessOf(t), held[t])
      BY <2>3 DEF Installs
    <3> QED
      BY <3>1 DEF Install, ProcessOf, ForwardInv, TypeOK
  <2> QED
    BY <2>1, <2>2, <2>3, ContainerSteps
<1>4. TypeOK /\ Inv /\ [Next]_vars => [Forward]_vars
  BY <1>3
<1> QED
  BY <1>1, <1>2, <1>4, TypeCorrect, PTL DEF Spec, WorkerGoesForward

-----------------------------------------------------------------------------
(* What a PATCH leaves alone. *)

Agree(f, o, stored) ==
    /\ f \in DOMAIN o <=> f \in DOMAIN stored
    /\ f \in DOMAIN stored => o[f] = stored[f]

(* What a PATCH carries to the row differs from the revision it loaded in the *)
(* fields it named, and in no other. *)
CarriesInv ==
    \A t \in Requests :
        /\ pc[t] = "load" => sent[t] = DOMAIN held[t].overrides
        /\ pc[t] \in {"save", "insert"} =>
            /\ held[t].revision \in 0 .. Len(saved)
            /\ \A f \in Fields \ sent[t] :
                Agree(f, held[t].overrides, StoredAt(held[t].revision))

LEMMA CarriesStep ==
    ASSUME TypeOK, HistoryInv, CarriesInv, [Next]_vars
    PROVE  CarriesInv'
<1> SUFFICES ASSUME NEW t \in Requests
             PROVE  /\ pc'[t] = "load" => sent'[t] = DOMAIN held'[t].overrides
                    /\ pc'[t] \in {"save", "insert"} =>
                        /\ held'[t].revision \in 0 .. Len(saved')
                        /\ \A f \in Fields \ sent'[t] :
                            Agree(f, held[t].overrides, StoredAt(held[t].revision))'
  BY DEF CarriesInv
<1> USE DEF TypeOK, Coroutines
<1> DEFINE n == held[t].revision
<1>1. ASSUME pc[t] \in {"save", "insert"}, held'[t] = held[t], sent'[t] = sent[t]
      PROVE  /\ n \in 0 .. Len(saved')
             /\ \A f \in Fields \ sent'[t] :
                    Agree(f, held[t].overrides, StoredAt(held[t].revision))'
  <2>1. /\ n \in 0 .. Len(saved)
        /\ \A f \in Fields \ sent[t] : Agree(f, held[t].overrides, StoredAt(n))
    BY <1>1 DEF CarriesInv
  <2>2. /\ Len(saved) <= Len(saved')
        /\ StoredAt(held[t].revision)' = StoredAt(n)
    BY <1>1, <2>1, HistoryIsKept
  <2> QED
    BY <1>1, <2>1, <2>2 DEF Agree
<1>2. CASE Stays(t)
  BY <1>1, <1>2 DEF Stays, CarriesInv
<1>3. CASE SaveMisses(t)
  BY <1>1, <1>3 DEF SaveMisses
<1>4. CASE LoadAndMerge(t)
  <2>1. /\ pc'[t] = "save"
        /\ held'[t].revision = row.revision
        /\ held'[t].overrides = Merged(t)
        /\ sent'[t] = DOMAIN held[t].overrides
        /\ saved' = saved
    BY <1>4 DEF LoadAndMerge, CarriesInv
  <2>2. /\ row.revision \in 0 .. Len(saved)
        /\ StoredAt(held[t].revision)' = row.overrides
    BY <2>1 DEF HistoryInv, StoredAt
  <2>3. \A f \in Fields \ sent'[t] : Agree(f, Merged(t), row.overrides)
    BY <2>1 DEF Merged, Over, Agree
  <2> QED
    BY <2>1, <2>2, <2>3
<1>5. CASE Leaves(t) \/ Begins(t) \/ Puts(t) \/ LoadSnapshot(t)
  BY <1>5 DEF Leaves, Begins, Puts, Store, LoadSnapshot
<1> QED
  BY <1>2, <1>3, <1>4, <1>5, RequestSteps

(* A PATCH changes a field it did not name only if the row changed after it was *)
(* loaded: overlap is the one way to lose a change. *)
THEOREM OnlyOverlapReverts == Spec => OverlapOnlyReverts
<1> DEFINE Inv == HistoryInv /\ CarriesInv
           Kept == \A t \in Requests : wrote'[t] > wrote[t] /\ held[t].revision = row.revision =>
                       \A f \in Fields \ sent[t] :
                           /\ f \in DOMAIN row'.overrides <=> f \in DOMAIN row.overrides
                           /\ f \in DOMAIN row.overrides => row'.overrides[f] = row.overrides[f]
<1>1. Init => Inv
  BY DEF Init, HistoryInv, CarriesInv, NoSnapshot, StoredAt, Coroutines
<1>2. TypeOK /\ Inv /\ [Next]_vars => Inv'
  BY HistoryStep, CarriesStep
<1>3. TypeOK /\ Inv /\ [Next]_vars => Kept
  <2> SUFFICES ASSUME TypeOK, Inv, [Next]_vars, NEW t \in Requests,
                      wrote'[t] > wrote[t], held[t].revision = row.revision, NEW f \in Fields \ sent[t]
               PROVE  Agree(f, row'.overrides, row.overrides)
    BY DEF Agree
  <2>1. Puts(t)
    BY RequestSteps DEF Stays, Leaves, Begins, LoadAndMerge, SaveMisses, LoadSnapshot, TypeOK
  <2>2. held[t] \in [revision : Nat, overrides : Overrides]
    BY DEF TypeOK, Coroutines, Snapshot
  <2>3. row'.overrides = held[t].overrides
    BY <2>1, <2>2 DEF Puts, Store
  <2>4. StoredAt(held[t].revision) = row.overrides
    BY DEF HistoryInv
  <2> QED
    BY <2>1, <2>3, <2>4 DEF Puts, CarriesInv
<1>4. TypeOK /\ Inv /\ [Next]_vars => [Kept]_vars
  BY <1>3
<1> QED
  BY <1>1, <1>2, <1>4, TypeCorrect, PTL DEF Spec, OverlapOnlyReverts

(* What is in force in a process, and every object it built, is the stored *)
(* row of the revision it notes. *)
THEOREM StoredSettingsAreInForce == Spec => []InForceIsStored
BY AppliedRevisionIsInForce, DerivedAreFresh, PTL DEF InForceIsStored
=============================================================================
