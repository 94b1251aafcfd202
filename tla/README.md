# Formal models of muxarr

muxarr muxes external audio and subtitle tracks into a video while Radarr or
Sonarr ("*arr" below) imports it.  This directory holds TLA+ models of its
import daemon: the parts where a wrong order of steps loses a file, embeds a
track twice, leaves *arr waiting or shows the user something untrue.

## The system

| Component | Source (under `services/backend/src` unless noted) | State it keeps | Operations | Model |
|---|---|---|---|---|
| Import shim | `scripts/src/muxarr-import.sh.in` | job id, attempts, failures, deadline | submit with retries, poll, exit | `Muxarr` |
| Import API | `api/routes/imports.py`, `api/protocol.py`, `use_cases/imports/{enqueue_import,await_job}.py` | none: every request goes to the table | queue a job, hold a poll, render a state | `Muxarr`, `JobQueue` |
| Job queue | `infrastructure/jobs/repository.py`, `interfaces/jobs.py` | the `jobs` table | `create_or_get`, `claim_next`, `succeed`, `fail`, `fail_running`, `prune`, `save_log` | `JobLifecycle`, `JobTable`, `JobQueue`, `Journal` |
| Worker | `worker/service.py`, `worker/__main__.py` | the `_stop` event, one task per import | reconcile, fill, wait, idle, sweep, drain | `Worker` |
| Job execution | `use_cases/imports/run_job.py` | what one task carries | run, record the operation, store the result | `Worker`, `Journal` |
| Reconciliation | `use_cases/imports/reconcile.py` | the list of interrupted jobs | list, fail, discard staging | `Worker`, `ImportPipeline` |
| Import pipeline | `use_cases/imports/handle_import.py` | accepted and rejected tracks | check, probe, select, mux, verify, place, answer | `ImportPipeline` |
| Placement | `infrastructure/filesystem/placement.py` | staging files | stage, finalise, copy across devices, discard | `ImportPipeline` |
| Track discovery | `infrastructure/filesystem/track_discovery.py`, `domain/{naming,language}.py` | none | list a folder, match files to an episode, read language and group from names | `Naming`, `Language`, `Discovery` |
| AI discovery | `infrastructure/ai` | none | decide whether to ask, describe candidates, merge the answer | `Discovery` |
| Track selection | `domain/selection.py` | none | prune, de-duplicate, order, limit | `Selection` |
| Muxing and probing | `infrastructure/mkvtoolnix`, `infrastructure/ffmpeg` | none | mux, verify, probe | verification in `ImportPipeline`; mkvmerge is external |
| Log capture | `core/logging.py`, `run_job.py` (`_follow`, `_flush`) | a bounded buffer per import | capture, truncate, publish | `Journal` |
| History | `infrastructure/history/repository.py`, `use_cases/history` | the `operations` table | record, prune, clear, page | `History`, `Journal` |
| Settings | `core/container.py`, `use_cases/settings`, `infrastructure/settings` | the row of overrides; per process the settings, the revision and the objects built from them | patch, read, reload, build | `Settings` |
| Authentication | `use_cases/auth`, `infrastructure/auth`, `core/container.py` | the account, sessions and cookies, the API key stored and in memory | set up, log in, renew, log out, regenerate | `Accounts` |
| Status and health | `use_cases/system`, `infrastructure/jobs/worker_state.py`, `domain/health.py` | the `worker_state` row | beat, check, report | `Monitor` |
| Path guard, CLI, migrations, web interface | `domain/paths.py`, `cli`, `db`, `services/frontend` | none the daemon relies on | | not modelled |

How they interact.  *arr runs the shim and waits for its exit.  The shim POSTs
the import under a job id it drew itself, so that a retry finds the first
attempt's row, and polls that row with held GETs.  The API process writes and
reads rows; the worker, another process, polls the table, claims rows with a
conditional UPDATE, runs each import in a thread and stores its outcome.  The
two processes share the database and nothing else: settings travel from the API
to the worker through one row with a revision, heartbeats and health checks
travel back through another.  The worker changes the filesystem, which *arr and
the download client change at the same time.  What *arr does next depends on
two lines of the shim's output: `DeferMove` makes it move the source itself,
`RenameRequested` makes it adopt the muxed file.

What is hard about it: replies that are lost while the request was not;
statements of two processes in any order; requests of one process that
interleave at every `await`; a process killed between two commits, or between a
rename and the commit that reports it; a database statement that fails while
the failure of another is being handled; files that change between two looks at
them; a file imported again and again; clocks that run on while a loop is held
up.  `PROJECT.json` lists these hazards line by line, with the properties that
cover them.  One has no property: overrides are validated with the environment of
their day, and a redeployment that drops a variable may leave them unusable
(`container.py:212` says this "should be unreachable"); `Settings` models it, and
the code's answer, to ignore the row, is what `InForceIsStored` allows for.

## The modules

**JobLifecycle** states what the job interface promises: a row is created,
handed out once, settled once, and only a settled row disappears.  It has one
variable, the state of every job id.  `LifecycleSpec`, in `JobTable`, reads it off the rows;
the queue's run checks it, and the proofs show it of all three modules that write to the table,
of `JobQueue` with one worker.

**JobTable** is the `jobs` table: one operator per committed transaction of
`SqlAlchemyJobRepository`.  A row keeps its state, the fingerprint of its
payload, its two time stamps, its outcome and whether it carries an error.
Time is a counter of the clock's whole seconds, as `_iso` writes them.  `InsertRow`
takes the stamp of the row as a parameter, for `create_or_get` reads the clock when it
builds the row (`repository.py:46`) and commits later (`:63`).  The variables `born` and `settledAt` are auxiliary: how often an id was inserted,
and when it settled.  Three modules extend it with the processes that issue
the transactions.

**JobQueue** adds API requests and worker processes at the grain of single
transactions.  `create_or_get` is an INSERT, and on a conflict a later read
(`SubmitKnown`, then `Reattach` or `Refuse`); `SubmitNew` commits a row stamped now or at
any earlier time, so rows need not turn up in the order of their `created_at`; `claim_next` is a SELECT of
candidates and one conditional UPDATE for each of them (`BeginClaim`,
`WinCandidate`, `LoseCandidate`, `EndClaim`).  What a caller remembers between
two transactions is a variable; `waiting`, auxiliary, is what was pending when a pass
read its candidates.  A pass takes up to `MaxPass` ticks.  Several workers are allowed: the code's
conditional UPDATE is written for them.

**Worker** is one worker process at the grain of its awaits: `pc` walks through
`reconcile`, `run`, `_fill`, `_idle` and `_sweep`, each import has a task of its
own (`mux`, `record`, `succeed`, `fail`, `rescue`), a signal sets `stop`, a kill
loses everything but rows and files, and any statement may fail.  Kills and
failing statements share one bound, `MaxEvents`.  A statement that fails is taken
not to have been committed, except in `ClaimReadBackFails`, where the code itself
commits first.  A new row is stamped up to `InsertLag` ticks before its commit.  `left`
holds the jobs of killed tasks whose staging files are on disk, and `missed` those of them that no start-up can find any more: jobs beyond the
page that `reconcile` lists, and jobs it had failed and not yet discarded when it
was killed again.

**Muxarr** composes the shim, the network, the API, the table and a worker
reduced to what the shim can tell apart.  A request or its reply may be lost,
and a POST may be served after its sender stopped waiting (`posts`).  A tick is
one request at its longest: the client's timeout plus the pause before the
next attempt, or one hold of a long poll, up to about 40 s.  A row is stamped some time
between the sending of its POST and its commit.

**ImportPipeline** is `HandleImportUseCase.execute` with the placement and the
verification it calls: every look at the filesystem and every change to it is
a step, and between two steps a sidecar or the source may go away, change, or
the process be killed.  Its ways out are those of the code: a `_DeferError`
(`Defer`), an exception nothing catches (`Raise`), and either of them from
inside `staged_output`, whose `finally` runs first (`Unwind`, `Unstage`).  A
result is known by the sidecars whose wanted track it holds.  mkvmerge is
external: it fails, or it succeeds and leaves out what it cannot read.

**Naming** and **Language** are operators on names as sequences of lower-case
words: whose episode a name is of and whether two videos are of one release
(`domain/naming.py`); the language, the flags and the group that a name and its
folders tell (`domain/language.py`).  What the regular expressions match and the
language table are constants.

**Discovery** uses both.  Several imports look at one folder that changes under
them: each lists it (`List`), classifies what it listed (`Classify`), and, when the
mode asks for it, lists it again for the provider (`BuildPrompt`), which may refuse
the response format, fail, or answer anything, files that do not exist included.
`Materialise` and `Settled` are what the code makes of that answer.

**Selection** is `domain/selection.py` as operators, and a file that is
imported repeatedly while sidecars turn up beside it.  A sidecar carries what
discovery says of it and, as `stored`, what the prober will report once it is
embedded: the two need not agree.  A container is a set of tracks, for nothing reads
their order; candidates are considered in the code's order, the least by `SortKey` first.

**History** is the `operations` table with `prune`, `clear`, and the walk of the web
interface through its pages, each of which is a COUNT and a SELECT.  **Journal**
extends it with the imports that write the table: several at once, each with its
buffer, its log handler, which sees the records of all, and the follower that
publishes the buffer while the import runs.  A log entry is its import and its number.

**Settings** is the row of overrides that the web interface edits, and the
container of each of the two processes (`core/container.py`).  A PATCH loads the
row, merges and validates (`LoadAndMerge`), stores (`Save`, or `SaveMisses` and
`Insert` when there is no row yet), loads again (`LoadSnapshot`) and applies what it
loaded (`ApplySnapshot`), and between two of these steps other requests make
theirs.  The worker does the last two when it boots and before every pass of its
loop, then builds what imports and its reconciliation use.  `built` records
which settings each cached object was built from, at any depth.  Two fields stand
for all: `ai_mode` and `ai_model`, which one cross-field rule relates and the
environment may lock.

**Accounts** is the API process serving several requests at once: set-up under
its lock, login, the renewal of a session row (`Extend`) and of the cookie
(`Answer`) with time passing between the two, logout, and the key that is read or
created once and replaced in the row and then in memory.  A request may fail at any
statement and the process may be killed.  Time is kept as what is left of a row or a
cookie; `MaxHeld` bounds how long one request takes.

**Monitor** is the worker's loop reduced to its clocks, the `worker_state` row it
writes, and the status that the API process makes of the row.  Time is counted in ticks,
`Second` of them to a second, because the code compares two kinds of reading: the loop's
float monotonic clock says when a heartbeat is due, while `last_seen` is cut to the second
(`_now`, `BeatStored`) and compared with a clock that has its fraction (`Fresh`).  A pass of the loop may
be held up at any await, for `MaxHeld` in total; heartbeats fail, at most `MaxMissed`
in a row; the host and the settings change.  `Health` is the list the System page
shows, as operators.

`MCJobQueue`, `MCWorker`, `MCMuxarr`, `MCImportPipeline`, `MCSelection`, `MCSettings`,
`MCDiscovery`, `MCJournal`, `MCMonitor` and `MCAccounts` give the constants their values.
`MCDiscovery` also says what the files of its folders really are (`Release` and `Spoken`,
which no action of `Discovery` reads), and `NeverMislabelled` compares that with what the code
concludes.  Definitions headed "Mutant" are faulty
versions of the definition that follows them.  No specification uses them: replacing the
original by its mutant must make a run fail, which shows that the property it
is for can fail.

## The runs

`tlc -config <run>.cfg <module>` runs each.

| Run | Module | Checks | Bounds |
|---|---|---|---|
| `queue_one_worker` | `MCJobQueue` | `TableMatchesWorker`, `AcksAgree`, `LifecycleSpec`, `PendingIsClaimed` | 2 ids, 2 payloads, 2 requests, 2 slots, 1 death, 2 instants, any earlier stamp |
| `queue_two_workers` | `MCJobQueue` | `OneOwner`, `ClaimsOldest` | 3 ids, 2 workers, 2 candidates a pass, passes of up to 1 tick, any earlier stamp |
| `muxarr` | `MCMuxarr` | `AnswerIsTrue`, `RowOutlivesRetries`, `ShimExits` | 1 import, 2 attempts, POSTs live for 2 ticks, 1 death |
| `worker` | `MCWorker` | `NothingLeftBehind`, `RecordedOnce`, `TaskEndSettles`, `WorkerProgresses` | 2 imports, 2 slots, a page of 1, 2 kills or failing statements, rows stamped in the tick of their commit |
| `pipeline` | `MCImportPipeline` | `OnlyRenameTouches`, `OutputIsWhole`, `NoStagingLeft`, `NoSubtitleLost` | a dub and a subtitle of one track each, 2 changes, 1 kill, either layout of the scratch directory |
| `selection` | `MCSelection` | `ReimportIsFaithful`, `NeverSilenced` | 2 imports, 7 sidecars, 4 policies, 3 original languages |
| `discovery` | `MCDiscovery` | `NotShared`, `NeverMislabelled`, `TagsSurviveShrug`, `LabelsOnly` | 4 folders, 3 imports, 5 AI settings, answers of up to 2 of 5 items, 1 change of the folder |
| `journal` | `MCJournal` | `AccountIsWhole`, `WalkIsComplete`, `LogOnlyGrows`, `Followed`, `NewestAreKept` | 2 imports of up to 2 records besides the code's own, 3 entries a log, 2 operations kept, pages of 1, 1 event |
| `settings` | `MCSettings` | `InForceIsStored`, `SavesAreUsable`, `OverlapOnlyReverts`, `ReadYourWrites`, `WorkerCatchesUp` | 2 requests, 5 changes, one death, new environment or failed statement |
| `monitor` | `MCMonitor` | `LiveIsSeen`, `OfflineComesFirst`, `ReportCatchesUp` | 3 ticks a second, intervals of 3 and 4, passes of up to 3, 2 heartbeats lost in a row, 3 hosts, 2 configurations, 3 events |
| `accounts` | `MCAccounts` | `SetUpOnce`, `ActiveStaysIn`, `SignedOutIsGone`, `KeyInForceIsStored` | 2 requests, 2 browsers, a lifetime of 6 days, requests of up to 1, 3 events |

The type invariants of all modules with a next-state relation of their own are proved,
but for the one of `JobLifecycle`, which documents its variable.
Deadlock is checked in every run but the four whose system may stop: `pipeline`,
`selection`, `discovery` and `journal` end when their imports have.

Why the bounds are enough.  Races of the queue are between two parties over one
row, so two ids, two requests and two workers meet each of them, a third
pending row lets a stale snapshot be wrong in two places.  With a TTL of 0 a row
settled in one instant is prunable in the next, so one tick reaches pruning and
the re-use of an id.  Two events in `worker` reach a second kill during the
start-up that follows the first, a failing store with a failing rescue, and a page of
1 leaves the second of two interrupted jobs unlisted.  In `muxarr` the TTL is twice the
retry window, as the default of 3600 s is several times the roughly 800 s a shim may
keep silent.  Two changes are enough for a sidecar to go bad after it was identified
and another to vanish.  Two imports are enough for "again".  The folders of
`discovery` are chosen for the cases the code tells apart: files marked by episode, by
folder, by another season's number and not at all, a VobSub pair whose half may
leave, a sample, a trailer, a file below the scan depth, and a second release
beside the first or arriving while it is looked at.  A log of three entries is
truncated by imports of four and more records, and pages of one row make every
boundary of a walk.  In `settings` two requests meet every overlap of two
snapshots; the third party is the worker.  The intervals of `monitor` meet its
assumption exactly (3 + (2 + 2) * 3 + 3 against 6 * 3), with thirds of a second to cut off.
In `worker` a new row is stamped in the tick of its commit (`InsertLag = 0`): the
order of claims is `JobQueue`'s question, and the proofs about `Worker` hold for any lag.  The
seventh sidecar of `selection` is an untagged `.mka`, reported back with another codec.  In `accounts`, half a
lifetime is 3 days and a request may take 1, so a renewal can be overtaken by another,
by a logout and by the prune; requests and browsers are alike, which is used
as symmetry (the run checks no liveness).

The violated run, `muxarr_lost_replies`, checks a statement of the shim's header that
the code does not keep; `PROJECT.json` quotes it under `findings`.  A deferred import
was "never touched" by muxarr, it says; when all replies to the POSTs are lost, the shim
defers, and the worker muxes the queued import while *arr moves the same file.

## Other departures and limits met while modelling

Of what is left behind:

- When the UPDATE of a starting worker's reconciliation fails, the error is logged and
  the rows stay running until the next start; so do those whose claim was committed and
  then not read back, and those whose rescue failed as well.
- A second kill between failing the rows and removing their staging files, or more
  interrupted jobs than one page lists, leaves files that no later start looks at,
  though `reconcile.py:1-6` says that they go.
- A kill between recording an operation and storing the outcome leaves a failed job
  with an operation row.
- A sidecar that vanishes between `is_file()` and `stat()` raises past the pipeline,
  which fails the job where a `DeferMove` is promised.
- `job_ttl_seconds` may be as low as 60, which is less than the shim's retries take.

Of the order of claims:

- `claim_next` is to move "the oldest pending job" (`application/interfaces/jobs.py:93`).  A row
  that was stamped (`repository.py:46`) before the candidates were read and committed (`:63`)
  after it is older than the one that is claimed, and left waiting.  `queue_two_workers`
  contains the case; `ClaimsOldest` therefore speaks of the rows that were pending when the
  pass began, and TLC refutes it without that restriction.

Of what is embedded:

- `verify` counts tracks per kind (`muxer.py:172,188`), so the second track of one sidecar
  can stand in for another that mkvmerge left out.
- "Anything already represented inside the container is dropped, so re-running an import
  never grows a file without bound", says `selection.py:3-4`.  The code does not keep it for two
  kinds of sidecar: an `.mka` is `matroska` (`codecs.py:18`) before it is embedded and something else
  after (`selection.py:154`), unless de-duplication is by language alone, and the container does
  not record a group's tag.  Each import embeds them again.  The sidecars of `selection` include
  both, and `EmbeddedOnce` exempts them by name (`AsRead`, `NoTag`): without either exemption
  TLC shows a second copy.  An mkvmerge too old for the hearing-impaired flag is not told
  it (`muxer.py:135-141`), so such a sidecar is the third kind; the models assume a current one.
- The last episode of a season pack, with the other videos moved away, takes the sidecars
  that name no episode (`naming.py:50-61`), which the documentation calls ambiguous.

Of settings, logs and history:

- Overrides validated in one environment may be unusable in the next, and every start from
  then on ignores all of them.
- Two PATCHes that load the same overrides keep only the change of the second
  (`OverlapOnlyReverts` says that nothing else loses one).
- `ImportWorker.run` reloads before it reconciles for "a scratch dir set from the UI"
  (`worker/service.py:85`), but the scratch directory is not among the editable fields.
- A new log level removes the handlers of running imports: what they say from then on is in
  no log, though `run_job.py:6-8` wants the log of a failed import to exist.
- A follower's failed save of a full buffer is not tried again until the import ends,
  and what is logged after the final flush, such as that the history could not be written,
  is stored nowhere.
- SQLite's ids start again after a clear, and a row that is recorded between a page's COUNT
  and its SELECT pushes one past its end; the statistics, several statements too, may
  disagree with each other.

Of accounts and status:

- A renewal whose answer is lost has extended the row and not the cookie, which runs
  out while its browser is active; a session pruned while it is being renewed is gone.
- The row and the cookie of two overlapping renewals may differ by the time a request takes,
  so "active within half a lifetime" holds less that time.
- Two regenerations of the key at once may leave the older one in memory until a restart.
- A worker that drains writes no heartbeat and is shown offline after the staleness limit,
  with its imports still running.  A busy queue also keeps it from health checks and sweeps.

## Fairness

`JobQueue`: a worker goes on claiming, a running import ends, and a dead
worker is started again.  An import ends because mkvmerge is run with a
timeout; the supervisor of the container restarts the process.  `Worker`: the
loop, booting included, and each task's bookkeeping are event-loop callbacks that
run when they are ready; a mux ends as above.  `Muxarr`: the script's own steps, a POST
that is answered or times out (curl's limit), and time.  The worker is given no fairness
at all: `ShimExits` holds although it may never answer.  `Tick` needs strong fairness,
because a clock step waits for requests that come and go.  `Settings`: the worker's steps,
for it is one sequential loop that a supervisor restarts; a load fails only a bounded
number of times.  `Journal`: each follower, a coroutine that sleeps for
`FLUSH_INTERVAL` at a time.  `Monitor`: the loop with its supervisor, imports that end, and
time.  Nothing is assumed of submissions, requests, signals, kills or faults anywhere.
`ImportPipeline`, `Selection`, `Discovery` and `Accounts` claim safety only.

## The proofs

`tlapm <module>.tla` checks each module below for all values of the constants that
satisfy the assumptions of the modules it extends.  Beside each theorem stands the property
it is about, which a run checks on a small instance.

`JobTableProofs` holds what one transaction does to the table, whoever issues it;
`JobQueueProofs`, `WorkerProofs` and `MuxarrProofs` cite it.  `StatementsRefine` says that a table to which
only `Statement`s are applied implements `JobLifecycle`.  One of them is restricted:
`_finish` updates by id whatever the row's state is, so a `Statement` finishes running
rows only, and that is what each of the three modules has to show of whoever calls it.

`JobQueueProofs`:

- `TypeCorrect`: the type invariant is inductive.
- `RowsHaveOneOwner` (`OneOwner`), for any number of workers.  By itself it is not
  inductive: a second claim of a row could follow the first.
  `OwnershipInv` adds that whatever is held is `Spent`: it was inserted before, and
  under that `born` its row is no longer pending, so that no claim can win it
  again.  Only the conditional UPDATE hands a row out, and it spends what it hands out.
- `TableAndWorkerAgree` (`TableMatchesWorker`), from `HeldRowsAreRunning` and
  `RunningRowsAreHeld`, and `ImplementsLifecycle` (`LifecycleSpec`) assume a single worker,
  which is how the daemon is deployed.  They fail without it: a second worker that starts
  fails the rows of the first.  `SoloInv` carries the first half, `AttendedInv` the second,
  and `StepsAreStatements` needs the first in the step that settles a row.
- `AcknowledgementsAgree` (`AcksAgree`): `AcksInv` ties each acknowledgement to the row
  it was given for, as long as that row is the one inserted last under its id.
- `ClaimsAreOldest` (`ClaimsOldest`), for any number of workers, however stale a snapshot is and
  whatever is inserted meanwhile under whatever stamp: `SnapshotInv` says that a row that was
  pending when the pass began, and that comes before a candidate, is a candidate of the same
  pass, and that a candidate that was settled was settled since.  The latter
  keeps its row from being pruned and inserted again, with another time, before the pass
  ends, provided `MaxPass <= TTL`; the code's least `job_ttl_seconds` is 60, and a pass is a
  handful of statements.

`MuxarrProofs`, for any number of imports, attempts and deaths of the worker:

- `TypeCorrect` (`TypeOK`).  `TimeInv` dates things: `PaceInv` how far a script has come by now,
  `PostsInv` when a POST under way was sent, and `RowInv` since when a row is there.
- `RowsOutliveRetries` (`RowOutlivesRetries`), from `QueuedOnce` (no id is inserted a second time) and
  `SilenceInv` (a script that polls has a row, which has not been settled for long).  Two
  hypotheses relate the retention to the script's patience: `OutlastsPosts`, that the last POST of a
  submission is served before a row it inserted first could be pruned, and `OutlastsPolls`, that
  a row stays while all attempts and all polls fail.  They are hypotheses and not assumptions
  of the model because `job_ttl_seconds` may be set as low as 60, where they are false and
  so is the theorem; the default of 3600 s satisfies both.
- `AnswersAreTrue` (`AnswerIsTrue`), which needs `OutlastsPosts` only: `TaskInv` says what a task has done
  to the destination and what its row reports of it, `AnswerInv` that once a script has
  printed its answer no row of its import is pending or running again.
- `ImplementsLifecycle` (`LifecycleSpec`) needs neither: `AttendedInv`, that whatever has a task is
  running in a live worker, holds however soon rows are dropped.

`WorkerProofs`, for any number of imports, slots, kills and failing statements:

- `TypeCorrect` (`TypeOK`).
- `LeavesNothingBehind` (`NothingLeftBehind`): `TaskInv` says that tasks belong to running rows
  and staging files to muxing tasks, `CleanInv` what holds of the rows at each place of a
  process to which no statement has failed, and `LeftInv` where the files of killed tasks
  can still be found.
- `EachRecordedOnce` (`RecordedOnce`): `RecordInv` adds that a submission that is pending,
  muxing or being recorded is not in the history yet.
- `TasksSettleTheirRows` (`TaskEndSettles`): `RescueInv` says that a rescue follows a failed
  statement, so the one that fails it is the second.
- `ImplementsLifecycle` (`LifecycleSpec`): tasks belong to running rows, by `TaskInv`, so the one that
  reports, or is rescued, settles a row that nobody has settled before.

`ImportPipelineProofs`:

- `TypeCorrect` (`TypeOK`), which needs `ResultInv`: a mux that ended leaves a result.
- `OutputFollowsAnswer` (`OnlyRenameTouches`): `ReplacedInv` and `AnswerInv` say, for every step of
  the pipeline, whether the output has been replaced; no way to `DeferMove` starts from a step
  after the rename.
- `StagingIsTransient` (`NoStagingLeft`): `StagingInv` says where either staging file
  may exist.
- `OutputHoldsAll` (`OutputIsWhole`) and `SubtitlesSurvive` (`NoSubtitleLost`), when no sidecar
  holds more than one track: otherwise `verify`'s counts prove nothing (see above).
  `VerifiedIsWhole` counts for them; `WholeInv` follows the result to the output, and
  `SubtitleInv` says of each sidecar, from selection to the answer, that it is gone, accepted
  or has a code that accounts for it.

The same module holds the theorems about `Discovery` and `Selection`, the other parts of
an import:

- `OnlyLabelsChange` (`LabelsOnly`), whatever the provider answers and however the
  folder changes.  `RenamedKeepsTheRest` is what a renaming preserves, and the invariant adds
  that a provider is asked only in the modes that ask.
- `DiscoveryTypeCorrect` (`DiscoveryTypeOK`): every track is of a file the folder held and has a
  known language, whatever the provider replies, files that do not exist included.  It rests on a
  lemma for each operator, down to `LanguageTyped` and `TitleTyped`; that the code's own
  words are strings is part of `DiscoveryAssumption`, for the provers do not know it.
- `SidecarsAreNotShared` (`NotShared`), in a folder that is complete when its imports begin
  (`CompleteRelease`: no video turns up later, and a film has no other imported video beside
  it; otherwise the code does share).  A sidecar without a marker goes to the only video
  of a listing, and `SoleInv` says that the others had left by then and cannot have been
  alone before, since videos only leave.
- `ShrugsHideNoTag` (`TagsSurviveShrug`), if all that can be a video's own may be described
  (`AllOwnDescribed`).  `AskInv` says that the question tells what the headers of the
  video's own files declare, since those come first (`OwnAreDescribed`).
- `SharedFoldersYieldNothing`: beside a video of another download that stays where it is, an
  import takes no sidecar at all, under any settings, for the provider is not even asked.
- `TracksAreTheReleasesOwn` (`NeverMislabelled`), for any folders, names and answers, under three
  hypotheses about how people name and share: `StrangersAreSeen` (where another download's
  sidecar lies there is a video of that download, which stays; the code has nothing else to
  tell a stranger by), `NamesAreTrue` (the last word for a language, in the file's own name or else in
  the nearest folder that has one, is the language spoken) and `TagsAreTrue` (a header that declares a
  language declares that one).  `MCDiscovery` asserts all three of its folders.  `ListingIsOurs` is
  about a folder that changes between two looks: by `WithinInv` each look is into one of the layouts,
  with what left and what arrived, and `TruthInv` keeps what it showed while the provider is asked.
  `LastWordCounts` and `NamesTellTheTruth` say that `infer` finds the word the hypothesis speaks of,
  and `SettledIsTrue` that no answer adds a file that was not shown or turns a language the names
  settled.  Nothing is claimed of a download whose sidecars come before its video or stay
  behind it, nor of a name that ends in a word for another language.
- `SelectionTypeCorrect` (`SelectionTypeOK`) and `EverySidecarIsDecided`: an import embeds no more than the
  limit and rejects each of the others with a code.  Both rest on `SelectFacts`, which
  says what `Select` computes for every set of candidates: `FirstIsCandidate` finds the least
  in five steps, one for each part of the sort key; `ConsiderKeeps` is what one candidate
  does to `SelectionInv`; and the recursion has a solution, each value of which has
  `SelectionInv`, because there is no least number for which that fails.
- `ReimportsAreFaithful` (`ReimportIsFaithful`), for any policy, source and number of imports.  Its
  hypothesis, `FlagsAreWritten`, is that mkvmerge keeps the language, in whatever spelling, and the
  hearing-impaired flag that it is told (`MCSelection` asserts it of its sidecars).  What codec is
  reported is left open; a sidecar whose codec or language is reported otherwise (an `.mka`, see
  above) may be embedded again, and the property does not speak of it.
  `StaysInv` says that an untagged sidecar that is reported as it was read is in the
  container once it was embedded: the keep lists that let it in do not remove it.
- `ImportsKeepAFileAudible` (`NeverSilenced`), without any hypothesis.

`SettingsProofs` proves every safety property of `Settings`, and two that no run
lists: `InForceAreUsable` and `WorkerIsMonotonic`.  Its step lemmas say what
any step may do to a container (`ContainerSteps`), to the row (`TableSteps`), to a
snapshot in flight (`SnapshotSteps`) and to a request (`RequestSteps`), and each
invariant is shown for those few cases instead of for every action:

- `TypeCorrect` (`TypeOK`).
- `StoredSettingsAreInForce` (`InForceIsStored`), from `AppliedRevisionIsInForce` and
  `DerivedAreFresh`.  `HistoryInv` says that the row and every snapshot in flight hold what
  their revision held, and revisions are never rewritten; hence skipping an equal revision
  is sound.
- `StoredRowsAreUsable` (`SavesAreUsable`): `CheckedInv` keeps the validation of a PATCH true
  until it stores, because the environment cannot change under a live request.
- `AnswersShowTheChange` (`ReadYourWrites`): `WroteInv` adds that whatever was stored
  since the PATCH's own revision is usable, so that no reload skips it as unusable.
- `WorkerIsMonotonic`: `ForwardInv` says that boot and loop exclude
  each other and carry nothing older than what is in force.
- `OnlyOverlapReverts` (`OverlapOnlyReverts`): `CarriesInv` relates what a PATCH carries to the
  revision that it loaded.

`AccountsProofs`, for any number of requests and browsers, any lifetime and any time a
request may take that is less than half of it:

- `TypeCorrect` (`TypeOK`).
- `OneAccount` (`SetUpOnce`): `LockInv` says that whoever is past the lock holds it, and whoever is
  about to write has seen an empty table.
- `ActiveBrowsersStayIn` (`ActiveStaysIn`) and `SignedOutStaysOut` (`SignedOutIsGone`): `RowInv` bounds
  a row from below by how long its browser has been away, and by how long a renewal has
  taken that has written it; `CookieInv` lets the cookie trail the row by the time of one request.
- `KeyOfProcessIsStored` (`KeyInForceIsStored`): `KeyInv` says that a key on its way into memory is the
  stored one unless a replacement overtook it.

`ReportProofs`: what the user is shown, of the worker (`Monitor`) and of past imports
(`History` and `Journal`), for all intervals that satisfy `MonitorAssumption`, any number of
imports, and any limits of a log, of the history and of a page:

- `TypeCorrect` (`TypeOK`) and `LiveWorkerIsSeen` (`LiveIsSeen`), for every number of ticks in a
  second.  `AgeInv` adds up what a row may age: an interval, a pass in which the beat falls due,
  a pass for each failed heartbeat and the one under way, and the fraction that the stamp lacks
  (`StampsAreFresh` bounds a stamp when it is written).  `MonitorAssumption` says that the limit
  forgives as much; the code's own figures (5 s against 30 s) allow it with passes of
  up to 4 s and four failures in a row.
- `OfflineLeads` (`OfflineComesFirst`): `ReportsInv` says that a worker never reports itself offline,
  so the alarm can only have been put in front, and `Leads` that appending keeps it there.
- `JournalTypeCorrect` (`JournalTypeOK`).
- `AccountsAreWhole` (`AccountIsWhole`) and `LogsOnlyGrow` (`LogOnlyGrows`).  `TellInv` says that a buffer is
  the account of the first records of its import, and of all while its handler is
  installed; `StoreInv` orders the stored log, the save under way and the buffer by length,
  which decides among accounts of one import (`AccountPrefix`), and `RecordedInv` does the
  same for the copy in the history.
- `WalksAreComplete` (`WalkIsComplete`) and `RetentionKeepsNewest` (`NewestAreKept`).  A new row is above all others
  (`NextIsNew`, from the greatest element of a finite set) and the retention takes from below
  (`PrunedFacts`), so `WalkInv` can say which rows a walk has been shown by the number
  of rows above its offset.

Only model-checked: everything about liveness (`PendingIsClaimed`, `ShimExits`, `WorkerProgresses`,
`WorkerCatchesUp`, `Followed`, `ReportCatchesUp`), for the prover has no fairness.  Every other
property of a passing run is stated by a theorem.  What
a recursive definition computes is proved by looking at the least number for which it
fails, since the library's induction theorems take an operator as a parameter, which
the installed provers cannot instantiate.

## What the models leave out

Text: splitting names into words, mkvmerge's JSON and arguments, the provider's prompt and
the excerpt of a subtitle in it, the wording of log lines and answers.  HTTP beyond loss and
delay.  The path guard and the tag filter, which are one Boolean of `ImportPipeline`; the
command line, migrations and the web interface, which hold no state the daemon relies on.  A
`finally` whose unlink fails.  Only the stamp of a new
row is told apart from its commit: claims, outcomes and the sweep's cutoff are stamped as
their statement is sent, and are taken to commit in that tick.  A claim pass may take several
ticks (`MaxPass`), of which the runs allow one.

In `Discovery`, describing a folder is one step, as is a classification, and the flags of a
file's own header are not read; the title of a release is compared word by word, where the
code compares its text.  That the list offered to a provider is not filtered by episode is the
code's choice, and so `NotShared` is about what names decide.  In `Journal` the sweep runs
between imports.  In `Accounts` time passes in days, a login brings the right password, and
the change of credentials, the rehashing of a password, a pinned login or key, and the
rules for who must sign in are left out.  In `Monitor` a status is read at one instant, the wall
clock and the monotonic clock run alike, what happens falls on a tick of any chosen fineness,
and the counts by state are not modelled.

## Plan

Built in this order: the queue and its abstract lifecycle, the worker, the
composition with the shim, the pipeline, selection, settings; then discovery, history and
the journal, monitoring, accounts, and the proofs.  What is left:

1. The change of credentials with the sessions it ends, and a login pinned by the environment.
2. The path guard as an operator on paths whose components may be links.
