---------------------------- MODULE ImportPipeline ----------------------------
(***************************************************************************)
(* One import, from HandleImportUseCase.execute down to the files it       *)
(* touches, on a filesystem that other programs change under it: *arr and  *)
(* the download client remove and rewrite sidecars, the disk fills up, the *)
(* worker process is killed.  A step of the pipeline is one look at the    *)
(* filesystem or one change to it.                                         *)
(*                                                                         *)
(* Which sidecars selection would take is given (a verdict for each):      *)
(* Selection.tla is about that.  mkvmerge is external, and is modelled by  *)
(* what the code expects of it.                                            *)
(***************************************************************************)
EXTENDS Integers, FiniteSets

CONSTANTS
    Sidecars,       \* files beside the source
    Kind,           \* their kind, "audio" or "subtitles"
    TrackCount,     \* how many tracks mkvmerge reads from each
    Verdicts,       \* "take", or a reject code of selection's
    MaxChanges,     \* bound: changes other programs make
    MaxKills        \* bound: kills of the worker

Kinds == {"audio", "subtitles"}

(* What selection says of a sidecar it leaves out, and what the pipeline   *)
(* finds out itself.                                                       *)
SelectionCodes == {"language_not_kept", "already_present", "track_limit",
                   "image_subtitle", "undetermined_language"}

Codes == SelectionCodes \cup {"file_missing", "file_empty", "uninspectable", "no_tracks"}

ASSUME PipelineAssumption ==
    /\ IsFiniteSet(Sidecars)
    /\ Kind \in [Sidecars -> Kinds]
    /\ TrackCount \in [Sidecars -> Nat \ {0}]
    /\ Verdicts \subseteq {"take"} \cup SelectionCodes
    /\ MaxChanges \in Nat
    /\ MaxKills \in Nat

VARIABLES
    request,    \* what the request, the settings and the source's tracks fix
    source,     \* whether the source is still there
    side,       \* each sidecar: "good", "empty", "unreadable" or "gone"
    output,     \* at the output path: what was there Before, or a result
    staged,     \* the staging file: None, Partial or a result
    copied,     \* the staging file of a cross-device copy, likewise
    pc,         \* the step the pipeline is at
    todo,       \* sidecars the current step has yet to look at
    accepted,   \* sidecars still meant to be embedded
    rejected,   \* reject codes of the others
    answer,     \* "none", "DeferMove", "RenameRequested" or "failed"
    handedBack, \* [ExtraFile] lines of the answer
    changes,    \* changes made by other programs so far
    kills       \* kills so far

vars == <<request, source, side, output, staged, copied, pc, todo, accepted,
          rejected, answer, handedBack, changes, kills>>

(* What has been decided, and what other programs and accidents do. *)
decision == <<accepted, rejected, handedBack>>
outside == <<request, source, side, changes, kills>>
files == <<output, staged, copied>>

(* A result is known by the sidecars whose wanted track is in it; what is  *)
(* no result is written as a set too.                                      *)
Results == SUBSET Sidecars

Before == {"before"}
None == {"none"}
Partial == {"partial"}

Request == [admitted : BOOLEAN,         \* tags and path guard let it through
            prunes   : SUBSET Kinds,    \* kinds the source loses tracks of
            silences : BOOLEAN,         \* it loses all its audio
            dry      : BOOLEAN,
            crossing : BOOLEAN,         \* scratch_dir is on another filesystem
            verdict  : [Sidecars -> Verdicts]]

Steps == {"paths", "probe", "discover", "split", "identify", "worth", "room",
          "roomFor", "stage", "mux", "muxing", "verify", "place", "copying",
          "replace", "unstage", "attributes", "done", "killed"}

TypeOK ==
    /\ request \in Request
    /\ source \in BOOLEAN
    /\ side \in [Sidecars -> {"good", "empty", "unreadable", "gone"}]
    /\ output \in {Before} \cup Results
    /\ staged \in {None, Partial} \cup Results
    /\ copied \in {None, Partial} \cup Results
    /\ pc \in Steps
    /\ todo \subseteq Sidecars
    /\ accepted \subseteq Sidecars
    /\ rejected \in [Sidecars -> {"open"} \cup Codes]
    /\ answer \in {"none", "DeferMove", "RenameRequested", "failed"}
    /\ handedBack \subseteq Sidecars
    /\ changes \in 0..MaxChanges
    /\ kills \in 0..MaxKills

Init ==
    /\ request \in {r \in Request : r.silences => "audio" \in r.prunes}
    /\ source = TRUE
    /\ side \in [Sidecars -> {"good", "empty", "unreadable"}]
    /\ output = Before
    /\ staged = None
    /\ copied = None
    /\ pc = "paths"
    /\ todo = {}
    /\ accepted = {}
    /\ rejected = [s \in Sidecars |-> "open"]
    /\ answer = "none"
    /\ handedBack = {}
    /\ changes = 0
    /\ kills = 0

-----------------------------------------------------------------------------
(* Ways to go on. *)

GoTo(step) == pc' = step /\ UNCHANGED answer

(* _DeferError, or a MuxarrError turned into one, outside staged_output. *)
Defer == pc' = "done" /\ answer' = "DeferMove"

(* Any other exception: nothing on the way up catches it, run_job fails    *)
(* the job.                                                                *)
Raise == pc' = "done" /\ answer' = "failed"

(* The same from inside staged_output, whose finally runs first. *)
Unwind(a) == pc' = "unstage" /\ answer' = a

-----------------------------------------------------------------------------
(* Looking. *)

(* _check_scope, _check_paths; is_file() on the source. *)
CheckPaths ==
    /\ pc = "paths"
    /\ IF request.admitted /\ source THEN GoTo("probe") ELSE Defer
    /\ UNCHANGED <<outside, files, todo, decision>>

(* Both backends may refuse a source, and do when it is gone. *)
ProbeSource ==
    /\ pc = "probe"
    /\ \/ source /\ GoTo("discover")
       \/ Defer
    /\ UNCHANGED <<outside, files, todo, decision>>

Discover ==
    LET found == {s \in Sidecars : side[s] # "gone"}
    IN  /\ pc = "discover"
        /\ IF found = {} /\ request.prunes = {} THEN Defer ELSE GoTo("split")
        /\ todo' = found
        /\ UNCHANGED <<outside, files, decision>>

Reject(s, code) == rejected' = [rejected EXCEPT ![s] = code]

(* _split_missing: is_file(), then stat(). *)
SplitMissing(s) ==
    /\ pc = "split"
    /\ s \in todo
    /\ todo' = todo \ {s}
    /\ CASE side[s] = "gone"  -> Reject(s, "file_missing") /\ UNCHANGED accepted
         [] side[s] = "empty" -> Reject(s, "file_empty") /\ UNCHANGED accepted
         [] OTHER             -> accepted' = accepted \cup {s} /\ UNCHANGED rejected
    /\ UNCHANGED <<outside, files, pc, answer, handedBack>>

(* The file goes away between the two: stat() raises FileNotFoundError. *)
SplitRaises(s) ==
    /\ pc = "split"
    /\ s \in todo
    /\ side[s] # "gone"
    /\ changes < MaxChanges
    /\ changes' = changes + 1
    /\ side' = [side EXCEPT ![s] = "gone"]
    /\ Raise
    /\ UNCHANGED <<request, source, kills, files, todo, decision>>

SelectTracks ==
    LET taken == {s \in accepted : request.verdict[s] = "take"}
    IN  /\ pc = "split"
        /\ todo = {}
        /\ rejected' = [s \in Sidecars |->
                          IF s \in accepted \ taken THEN request.verdict[s] ELSE rejected[s]]
        /\ accepted' = taken
        /\ todo' = taken
        /\ GoTo("identify")
        /\ UNCHANGED <<outside, files, handedBack>>

(* _drop_unreadable: one identify per file. *)
Identify(s) ==
    /\ pc = "identify"
    /\ s \in todo
    /\ todo' = todo \ {s}
    /\ IF side[s] = "good" THEN UNCHANGED <<accepted, rejected>>
       ELSE /\ \/ Reject(s, "uninspectable")
               \/ side[s] # "gone" /\ Reject(s, "no_tracks")
            /\ accepted' = accepted \ {s}
    /\ UNCHANGED <<outside, files, pc, answer, handedBack>>

(* _check_worth_muxing, _check_output (which a symlink may fail), dry run. *)
CheckWorth ==
    /\ pc = "identify"
    /\ todo = {}
    /\ \/ /\ accepted # {} \/ request.prunes # {}
          /\ request.silences => \E s \in accepted : Kind[s] = "audio"
          /\ ~ request.dry
          /\ GoTo("room")
       \/ Defer
    /\ UNCHANGED <<outside, files, todo, decision>>

(* _ensure_room: stat() of every input; an OSError is no MuxarrError. *)
RoomForSource ==
    /\ pc = "room"
    /\ IF source THEN GoTo("roomFor") ELSE Raise
    /\ todo' = accepted
    /\ UNCHANGED <<outside, files, decision>>

RoomForSidecar(s) ==
    /\ pc = "roomFor"
    /\ s \in todo
    /\ todo' = todo \ {s}
    /\ IF side[s] # "gone" THEN UNCHANGED <<pc, answer>> ELSE Raise
    /\ UNCHANGED <<outside, files, decision>>

CheckFreeSpace ==
    /\ pc = "roomFor"
    /\ todo = {}
    /\ GoTo("stage") \/ Defer
    /\ UNCHANGED <<outside, files, todo, decision>>

-----------------------------------------------------------------------------
(* Writing. *)

(* staged_output: the directories are made before its try. *)
MakeDirectories ==
    /\ pc = "stage"
    /\ GoTo("mux") \/ Raise
    /\ UNCHANGED <<outside, files, todo, decision>>

StartMux ==
    /\ pc = "mux"
    /\ staged' = Partial
    /\ GoTo("muxing")
    /\ UNCHANGED <<outside, output, copied, todo, decision>>

(* mkvmerge ends well: it opened every file, and left out, without a word, *)
(* those it reads no track from.                                           *)
MuxEnds ==
    /\ pc = "muxing"
    /\ source
    /\ \A s \in accepted : side[s] # "gone"
    /\ staged' = {s \in accepted : side[s] = "good"}
    /\ GoTo("verify")
    /\ UNCHANGED <<outside, output, copied, todo, decision>>

(* It fails, leaves no file, or is stopped at the timeout. *)
MuxFails ==
    /\ pc = "muxing"
    /\ Unwind("DeferMove")
    /\ UNCHANGED <<outside, files, todo, decision>>

OfKind(S, kind) == {s \in S : Kind[s] = kind}

TracksOf(S) == UNION {{s} \X (1..TrackCount[s]) : s \in S}

Landed(kind) == Cardinality(TracksOf(OfKind(staged, kind)))

(* verify counts the tracks of each kind; only a kind that was stripped    *)
(* must come out exact.                                                    *)
AllLanded ==
    \A kind \in Kinds :
        LET expected == Cardinality(OfKind(accepted, kind))
        IN  IF kind \in request.prunes THEN Landed(kind) = expected
            ELSE Landed(kind) >= expected

(* Probing the result may fail too. *)
Verify ==
    /\ pc = "verify"
    /\ \/ AllLanded /\ GoTo("place")
       \/ Unwind("DeferMove")
    /\ UNCHANGED <<outside, files, todo, decision>>

(* finalise, one filesystem: rename() replaces the output, or raises. *)
Replace ==
    /\ pc = "place"
    /\ ~ request.crossing
    /\ output' = staged
    /\ staged' = None
    /\ GoTo("unstage")
    /\ UNCHANGED <<outside, copied, todo, decision>>

ReplaceRaises ==
    /\ pc = "place"
    /\ ~ request.crossing
    /\ Unwind("failed")
    /\ UNCHANGED <<outside, files, todo, decision>>

(* Mutant: the copy goes straight onto the output. *)
StartCopyInPlace ==
    /\ pc = "place"
    /\ request.crossing
    /\ output' = {}
    /\ GoTo("copying")
    /\ UNCHANGED <<outside, copied, staged, todo, decision>>

(* _copy_then_replace: beside the output first, and from there. *)
StartCopy ==
    /\ pc = "place"
    /\ request.crossing
    /\ copied' = Partial
    /\ GoTo("copying")
    /\ UNCHANGED <<outside, output, staged, todo, decision>>

CopyEnds ==
    /\ pc = "copying"
    /\ copied' = staged
    /\ GoTo("replace")
    /\ UNCHANGED <<outside, output, staged, todo, decision>>

(* Mutant: flushed after the rename, when it is too late to give up. *)
ReplaceCopyThenSync ==
    /\ pc = "replace"
    /\ output' = copied
    /\ copied' = None
    /\ GoTo("unstage") \/ Unwind("DeferMove")
    /\ UNCHANGED <<outside, staged, todo, decision>>

ReplaceCopy ==
    /\ pc = "replace"
    /\ output' = copied
    /\ copied' = None
    /\ GoTo("unstage")
    /\ UNCHANGED <<outside, staged, todo, decision>>

(* The disk is full, or the rename refused: PlacementError. *)
CopyFails ==
    /\ pc \in {"copying", "replace"}
    /\ copied' = None
    /\ Unwind("DeferMove")
    /\ UNCHANGED <<outside, output, staged, todo, decision>>

(* The finally of staged_output, on the way down or on the way up. *)
Unstage ==
    /\ pc = "unstage"
    /\ staged' = None
    /\ pc' = IF answer = "none" THEN "attributes" ELSE "done"
    /\ UNCHANGED <<outside, output, copied, todo, decision, answer>>

(* Mutant: only what was passed over before the identify is handed back. *)
HandBackNoneUnreadable ==
    {s \in Sidecars : /\ Kind[s] = "subtitles"
                      /\ rejected[s] \in {"already_present", "track_limit", "file_empty"}}

(* extra_files: unembedded subtitles, but for the unwanted and the gone. *)
HandBack ==
    {s \in Sidecars : /\ Kind[s] = "subtitles"
                      /\ rejected[s] \notin {"open", "language_not_kept", "file_missing"}}

(* copy_attributes swallows its errors; the import has succeeded. *)
CopyAttributes ==
    /\ pc = "attributes"
    /\ pc' = "done"
    /\ answer' = "RenameRequested"
    /\ handedBack' = HandBack
    /\ UNCHANGED <<outside, files, todo, accepted, rejected>>

-----------------------------------------------------------------------------
(* Accidents. *)

Busy == pc \notin {"done", "killed"}

SourceGoes ==
    /\ Busy
    /\ changes < MaxChanges
    /\ source
    /\ source' = FALSE
    /\ changes' = changes + 1
    /\ UNCHANGED <<request, side, files, pc, todo, decision, answer, kills>>

(* A sidecar is removed, truncated, or completed; a name that is gone is   *)
(* not used again.                                                         *)
SidecarChanges(s, how) ==
    /\ Busy
    /\ changes < MaxChanges
    /\ side[s] \notin {"gone", how}
    /\ side' = [side EXCEPT ![s] = how]
    /\ changes' = changes + 1
    /\ UNCHANGED <<request, source, files, pc, todo, decision, answer, kills>>

(* SIGKILL: mkvmerge dies with the process, and no finally runs. *)
Kill ==
    /\ Busy
    /\ kills < MaxKills
    /\ kills' = kills + 1
    /\ pc' = "killed"
    /\ UNCHANGED <<request, source, side, changes, files, todo, decision, answer>>

(* Mutant: only the scratch directory is swept. *)
ReconcileScratchOnly ==
    /\ pc = "killed"
    /\ staged' = None
    /\ Raise
    /\ UNCHANGED <<outside, output, copied, todo, decision>>

(* The next worker fails the job and sweeps both directories. *)
Reconcile ==
    /\ pc = "killed"
    /\ staged' = None
    /\ copied' = None
    /\ Raise
    /\ UNCHANGED <<outside, output, todo, decision>>

-----------------------------------------------------------------------------

Look ==
    \/ CheckPaths \/ ProbeSource \/ Discover \/ SelectTracks \/ CheckWorth
    \/ RoomForSource \/ CheckFreeSpace
    \/ \E s \in Sidecars :
        SplitMissing(s) \/ SplitRaises(s) \/ Identify(s) \/ RoomForSidecar(s)

Write ==
    \/ MakeDirectories \/ StartMux \/ MuxEnds \/ MuxFails \/ Verify
    \/ Replace \/ ReplaceRaises \/ StartCopy \/ CopyEnds \/ ReplaceCopy \/ CopyFails
    \/ Unstage \/ CopyAttributes

Accident ==
    \/ SourceGoes
    \/ \E s \in Sidecars, how \in {"good", "unreadable", "gone"} : SidecarChanges(s, how)
    \/ Kill

Next == Look \/ Write \/ Accident \/ Reconcile

Spec == Init /\ [][Next]_vars

-----------------------------------------------------------------------------
(* Safety. *)

(* The output path changes only for an import that is answered with        *)
(* RenameRequested: every DeferMove, and every exception that escapes,     *)
(* leaves it as *arr expects it.  Only a kill between the rename and the   *)
(* answer breaks the tie, and then the job fails.                          *)
OnlyRenameTouches ==
    pc = "done" /\ output # Before =>
        answer = "RenameRequested" \/ (answer = "failed" /\ kills > 0)

(* Whatever stands at the output path at any moment, kills included, is    *)
(* what was there before or a result with every accepted track in it.      *)
OutputIsWhole == output \in {Before, accepted}

(* No staging file outlives its import: not a failed mux, a failed copy    *)
(* across devices, an exception, or a kill once a worker has started again. *)
NoStagingLeft == pc = "done" => staged = None /\ copied = None

(* A subtitle beside the source is not lost to an import that tells *arr   *)
(* to leave extra files alone: it is embedded, or handed back, unless the  *)
(* user does not keep its language.                                        *)
NoSubtitleLost ==
    answer = "RenameRequested" =>
        \A s \in OfKind(Sidecars, "subtitles") :
            \/ side[s] = "gone"
            \/ request.verdict[s] = "language_not_kept"
            \/ s \in output
            \/ s \in handedBack

=============================================================================
