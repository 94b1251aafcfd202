------------------------- MODULE ImportPipelineProofs -------------------------
(***************************************************************************)
(* What one import leaves behind, for any set of sidecars, any number of   *)
(* changes by other programs and any number of kills; then, what Discovery *)
(* may make of the tracks it imports; and in the last sections, what       *)
(* Selection embeds of them, import after import.                          *)
(***************************************************************************)
EXTENDS ImportPipeline, Discovery, Selection, FiniteSetTheorems, FunctionTheorems,
        SequenceTheorems, WellFoundedInduction, TLAPS

(* The steps at which a staging file may exist. *)
Staging == {"muxing", "verify", "place", "copying", "replace", "unstage", "killed"}

StagingInv ==
    /\ staged # None => pc \in Staging
    /\ copied # None => pc \in {"copying", "replace", "killed"}

(* Where the import stands once the output has been replaced. *)
ReplacedInv ==
    output # Before =>
        \/ pc = "unstage" /\ answer = "none"
        \/ pc = "attributes"
        \/ pc = "killed" /\ kills > 0
        \/ pc = "done" /\ answer = "RenameRequested"
        \/ pc = "done" /\ answer = "failed" /\ kills > 0

(* No answer is ready before the pipeline is on its way out. *)
AnswerInv == pc \notin {"unstage", "done", "killed"} => answer = "none"

FilesInv ==
    /\ kills \in Nat
    /\ AnswerInv
    /\ StagingInv
    /\ ReplacedInv

-----------------------------------------------------------------------------

(* Looking at the filesystem, before the first byte is written, keeps what *)
(* the invariant says: no staging file exists and the output is as it was. *)
LEMMA LookKeepsFiles == FilesInv /\ Look => FilesInv'
<1> SUFFICES ASSUME FilesInv, Look PROVE FilesInv'
  OBVIOUS
<1> USE DEF FilesInv, StagingInv, ReplacedInv, AnswerInv, Staging, outside, files, GoTo, Defer, Raise
<1>1. CASE CheckPaths
  BY <1>1 DEF CheckPaths
<1>2. CASE ProbeSource
  BY <1>2 DEF ProbeSource
<1>3. CASE Discover
  BY <1>3 DEF Discover
<1>4. CASE SelectTracks
  BY <1>4 DEF SelectTracks
<1>5. CASE CheckWorth
  BY <1>5 DEF CheckWorth
<1>6. CASE RoomForSource
  BY <1>6 DEF RoomForSource
<1>7. CASE CheckFreeSpace
  BY <1>7 DEF CheckFreeSpace
<1>8. ASSUME NEW s \in Sidecars, SplitMissing(s) PROVE FilesInv'
  BY <1>8 DEF SplitMissing
<1>9. ASSUME NEW s \in Sidecars, SplitRaises(s) PROVE FilesInv'
  BY <1>9 DEF SplitRaises
<1>10. ASSUME NEW s \in Sidecars, Identify(s) PROVE FilesInv'
  BY <1>10 DEF Identify
<1>11. ASSUME NEW s \in Sidecars, RoomForSidecar(s) PROVE FilesInv'
  BY <1>11 DEF RoomForSidecar
<1> QED
  BY <1>1, <1>2, <1>3, <1>4, <1>5, <1>6, <1>7, <1>8, <1>9, <1>10, <1>11 DEF Look

(* So does every step that writes: a staging file is given up on every way *)
(* out, and nothing that can still fail follows the rename.                *)
LEMMA WriteKeepsFiles == FilesInv /\ Write => FilesInv'
<1> SUFFICES ASSUME FilesInv, Write PROVE FilesInv'
  OBVIOUS
<1> USE DEF FilesInv, StagingInv, ReplacedInv, AnswerInv, Staging, outside, files, GoTo, Defer, Raise, Unwind
<1>1. CASE MakeDirectories
  BY <1>1 DEF MakeDirectories
<1>2. CASE StartMux
  BY <1>2 DEF StartMux
<1>3. CASE MuxEnds
  BY <1>3 DEF MuxEnds
<1>4. CASE MuxFails
  BY <1>4 DEF MuxFails
<1>5. CASE Verify
  BY <1>5 DEF Verify
<1>6. CASE Replace
  BY <1>6 DEF Replace
<1>7. CASE ReplaceRaises
  BY <1>7 DEF ReplaceRaises
<1>8. CASE StartCopy
  BY <1>8 DEF StartCopy
<1>9. CASE CopyEnds
  BY <1>9 DEF CopyEnds
<1>10. CASE ReplaceCopy
  BY <1>10 DEF ReplaceCopy
<1>11. CASE CopyFails
  BY <1>11 DEF CopyFails
<1>12. CASE Unstage
  BY <1>12 DEF Unstage
<1>13. CASE CopyAttributes
  BY <1>13 DEF CopyAttributes
<1> QED
  BY <1>1, <1>2, <1>3, <1>4, <1>5, <1>6, <1>7, <1>8, <1>9, <1>10, <1>11, <1>12, <1>13
  DEF Write

(* And the accidents, with the sweep that follows a kill. *)
LEMMA AccidentKeepsFiles == FilesInv /\ (Accident \/ Reconcile) => FilesInv'
<1> SUFFICES ASSUME FilesInv, Accident \/ Reconcile PROVE FilesInv'
  OBVIOUS
<1> USE DEF FilesInv, StagingInv, ReplacedInv, AnswerInv, Staging, outside, files, Raise, Busy
<1>1. CASE SourceGoes
  BY <1>1 DEF SourceGoes
<1>2. ASSUME NEW s \in Sidecars, NEW how, SidecarChanges(s, how) PROVE FilesInv'
  BY <1>2 DEF SidecarChanges
<1>3. CASE Kill
  BY <1>3 DEF Kill
<1>4. CASE Reconcile
  BY <1>4 DEF Reconcile
<1> QED
  BY <1>1, <1>2, <1>3, <1>4 DEF Accident

LEMMA FilesInvHolds == Spec => []FilesInv
<1>1. Init => FilesInv
  BY DEF Init, FilesInv, StagingInv, ReplacedInv, AnswerInv
<1>2. FilesInv /\ [Next]_vars => FilesInv'
  <2>1. FilesInv /\ UNCHANGED vars => FilesInv'
    BY DEF FilesInv, StagingInv, ReplacedInv, AnswerInv, vars
  <2> QED
    BY <2>1, LookKeepsFiles, WriteKeepsFiles, AccidentKeepsFiles DEF Next
<1> QED
  BY <1>1, <1>2, PTL DEF Spec

-----------------------------------------------------------------------------

(* Only an import answered with RenameRequested changes the output path,   *)
(* but for a worker killed after the rename, whose job is failed: a        *)
(* DeferMove never races what muxarr itself has written (handle_import,    *)
(* finalise).                                                              *)
THEOREM OutputFollowsAnswer == Spec => []OnlyRenameTouches
<1>1. FilesInv => OnlyRenameTouches
  BY DEF FilesInv, ReplacedInv, OnlyRenameTouches
<1> QED
  BY <1>1, FilesInvHolds, PTL

(* staged_output, _copy_then_replace and discard_staging leave no staging  *)
(* file behind an import that is over, however it ended.                   *)
THEOREM StagingIsTransient == Spec => []NoStagingLeft
<1>1. FilesInv => NoStagingLeft
  BY DEF FilesInv, StagingInv, Staging, NoStagingLeft
<1> QED
  BY <1>1, FilesInvHolds, PTL

-----------------------------------------------------------------------------

(* Once mkvmerge has ended the staging file holds a result, and the copy   *)
(* that is renamed is that result.                                         *)
ResultInv ==
    /\ pc \in {"verify", "place", "copying", "replace"} => staged \subseteq accepted
    /\ pc = "replace" => copied = staged

Typed == TypeOK /\ ResultInv

LEMMA LookTyped == ASSUME Typed, Look PROVE Typed'
<1> USE PipelineAssumption
    DEF Typed, TypeOK, ResultInv, Steps, Request, outside, files, decision, GoTo, Defer, Raise, Reject, Codes
<1>1. CASE CheckPaths
  BY <1>1 DEF CheckPaths
<1>2. CASE ProbeSource
  BY <1>2 DEF ProbeSource
<1>3. CASE Discover
  BY <1>3 DEF Discover
<1>4. CASE SelectTracks
  <2>1. \A s \in Sidecars : request.verdict[s] # "take" => request.verdict[s] \in SelectionCodes
    OBVIOUS
  <2>2. rejected' \in [Sidecars -> {"open"} \cup Codes]
    BY <1>4, <2>1 DEF SelectTracks
  <2>3. ResultInv'
    BY <1>4 DEF SelectTracks
  <2>4. TypeOK'
    BY <1>4, <2>2 DEF SelectTracks
  <2> QED
    BY <2>3, <2>4
<1>5. CASE CheckWorth
  BY <1>5 DEF CheckWorth
<1>6. CASE RoomForSource
  BY <1>6 DEF RoomForSource
<1>7. CASE CheckFreeSpace
  BY <1>7 DEF CheckFreeSpace
<1>8. ASSUME NEW s \in Sidecars, SplitMissing(s) PROVE Typed'
  BY <1>8 DEF SplitMissing
<1>9. ASSUME NEW s \in Sidecars, SplitRaises(s) PROVE Typed'
  BY <1>9 DEF SplitRaises
<1>10. ASSUME NEW s \in Sidecars, Identify(s) PROVE Typed'
  BY <1>10 DEF Identify
<1>11. ASSUME NEW s \in Sidecars, RoomForSidecar(s) PROVE Typed'
  BY <1>11 DEF RoomForSidecar
<1> QED
  BY <1>1, <1>2, <1>3, <1>4, <1>5, <1>6, <1>7, <1>8, <1>9, <1>10, <1>11 DEF Look

LEMMA WriteTyped == ASSUME Typed, Write PROVE Typed'
<1> USE PipelineAssumption
    DEF Typed, TypeOK, ResultInv, Steps, Results, outside, files, decision, GoTo, Defer, Raise, Unwind
<1>1. CASE MakeDirectories
  BY <1>1 DEF MakeDirectories
<1>2. CASE StartMux
  BY <1>2 DEF StartMux
<1>3. CASE MuxEnds
  BY <1>3 DEF MuxEnds
<1>4. CASE MuxFails
  BY <1>4 DEF MuxFails
<1>5. CASE Verify
  BY <1>5 DEF Verify
<1>6. CASE Replace
  BY <1>6 DEF Replace
<1>7. CASE ReplaceRaises
  BY <1>7 DEF ReplaceRaises
<1>8. CASE StartCopy
  BY <1>8 DEF StartCopy
<1>9. CASE CopyEnds
  BY <1>9 DEF CopyEnds
<1>10. CASE ReplaceCopy
  BY <1>10 DEF ReplaceCopy
<1>11. CASE CopyFails
  BY <1>11 DEF CopyFails
<1>12. CASE Unstage
  BY <1>12 DEF Unstage
<1>13. CASE CopyAttributes
  BY <1>13 DEF CopyAttributes, HandBack
<1> QED
  BY <1>1, <1>2, <1>3, <1>4, <1>5, <1>6, <1>7, <1>8, <1>9, <1>10, <1>11, <1>12, <1>13
  DEF Write

LEMMA AccidentTyped == ASSUME Typed, Accident \/ Reconcile PROVE Typed'
<1> USE PipelineAssumption DEF Typed, TypeOK, ResultInv, Steps, outside, files, decision, Raise
<1>1. CASE SourceGoes
  <2>1. source' \in BOOLEAN
    BY <1>1, Zenon DEF SourceGoes
  <2> QED
    BY <1>1, <2>1 DEF SourceGoes
<1>2. ASSUME NEW s \in Sidecars, NEW how \in {"good", "unreadable", "gone"},
             SidecarChanges(s, how)
      PROVE  Typed'
  BY <1>2 DEF SidecarChanges
<1>3. CASE Kill
  BY <1>3 DEF Kill
<1>4. CASE Reconcile
  BY <1>4 DEF Reconcile
<1> QED
  BY <1>1, <1>2, <1>3, <1>4 DEF Accident

LEMMA TypedHolds == Spec => []Typed
<1>1. Init => Typed
  BY PipelineAssumption DEF Init, Typed, TypeOK, ResultInv, Steps, Request
<1>2. Typed /\ [Next]_vars => Typed'
  <2>1. Typed /\ UNCHANGED vars => Typed'
    BY DEF Typed, TypeOK, ResultInv, vars
  <2> QED
    BY <2>1, LookTyped, WriteTyped, AccidentTyped DEF Next
<1> QED
  BY <1>1, <1>2, PTL DEF Spec

(* Every variable of the pipeline keeps its type, for any sidecars and     *)
(* whatever happens to the files of HandleImportUseCase.execute.           *)
THEOREM TypeCorrect == Spec => []TypeOK
<1>1. Typed => TypeOK
  BY DEF Typed
<1> QED
  BY <1>1, TypedHolds, PTL

-----------------------------------------------------------------------------
(* What verify's counts are worth: as long as no sidecar holds more than   *)
(* one track, none can stand in for another.                               *)
SingleTrack == \A s \in Sidecars : TrackCount[s] = 1

LEMMA OneTrackEach ==
  ASSUME SingleTrack, NEW S \in SUBSET Sidecars
  PROVE  IsFiniteSet(S) /\ Cardinality(TracksOf(S)) = Cardinality(S)
<1> DEFINE f == [s \in S |-> <<s, 1>>]
<1>1. IsFiniteSet(S)
  BY PipelineAssumption, FS_Subset
<1>2. TracksOf(S) = {<<s, 1>> : s \in S}
  <2>1. \A s \in S : {s} \X (1..TrackCount[s]) = {<<s, 1>>}
    BY DEF SingleTrack
  <2> QED
    BY <2>1 DEF TracksOf
<1>3. f \in Bijection(S, TracksOf(S))
  <2>1. f \in [S -> TracksOf(S)]
    BY <1>2
  <2>2. \A a, b \in S : f[a] = f[b] => a = b
    OBVIOUS
  <2>3. \A t \in TracksOf(S) : \E s \in S : f[s] = t
    BY <1>2
  <2> HIDE DEF f
  <2> QED
    BY <2>1, <2>2, <2>3, Fun_IsBij
<1> QED
  BY <1>1, <1>3, FS_Bijection DEF ExistsBijection

LEMMA VerifiedIsWhole ==
  ASSUME SingleTrack, accepted \subseteq Sidecars, staged \subseteq accepted, AllLanded
  PROVE  staged = accepted
<1>1. ASSUME NEW kind \in Kinds PROVE OfKind(accepted, kind) \subseteq staged
  <2> DEFINE wanted == OfKind(accepted, kind)
             landed == OfKind(staged, kind)
  <2>1. landed \subseteq wanted /\ wanted \subseteq Sidecars
    BY DEF OfKind
  <2>2. IsFiniteSet(wanted) /\ IsFiniteSet(landed) /\ Landed(kind) = Cardinality(landed)
    BY <2>1, OneTrackEach DEF Landed
  <2>3. Cardinality(landed) <= Cardinality(wanted)
        /\ (Cardinality(wanted) = Cardinality(landed) => wanted = landed)
    BY <2>1, <2>2, FS_Subset
  <2>4. Cardinality(landed) >= Cardinality(wanted)
    <3>1. Cardinality(landed) \in Nat /\ Cardinality(wanted) \in Nat
      BY <2>2, FS_CardinalityType
    <3>2. Landed(kind) = Cardinality(wanted) \/ Landed(kind) >= Cardinality(wanted)
      BY <1>1 DEF AllLanded
    <3> QED
      BY <2>2, <3>1, <3>2
  <2>5. wanted = landed
    BY <2>2, <2>3, <2>4, FS_CardinalityType
  <2> QED
    BY <2>5 DEF OfKind
<1>2. \A s \in accepted : Kind[s] \in Kinds
  BY PipelineAssumption
<1> QED
  BY <1>1, <1>2 DEF OfKind

(* The result that is placed holds every accepted track.                   *)
WholeInv ==
    /\ pc \in {"place", "copying", "replace"} => staged = accepted
    /\ pc = "attributes" \/ (pc = "unstage" /\ answer = "none") => output = accepted
    /\ output \in {Before, accepted}

(* While files are looked at, nothing has been written yet.                *)
LEMMA LookIsEarly ==
  ASSUME FilesInv, Look
  PROVE  /\ output' = Before
         /\ pc' \notin {"place", "copying", "replace", "unstage", "attributes"}
<1> USE DEF FilesInv, ReplacedInv, files, GoTo, Defer, Raise
<1>1. CASE CheckPaths \/ ProbeSource \/ Discover \/ SelectTracks \/ CheckWorth
  BY <1>1 DEF CheckPaths, ProbeSource, Discover, SelectTracks, CheckWorth
<1>2. CASE RoomForSource \/ CheckFreeSpace
  BY <1>2 DEF RoomForSource, CheckFreeSpace
<1>3. ASSUME NEW s \in Sidecars,
             SplitMissing(s) \/ SplitRaises(s) \/ Identify(s) \/ RoomForSidecar(s)
      PROVE  /\ output' = Before
             /\ pc' \notin {"place", "copying", "replace", "unstage", "attributes"}
  BY <1>3 DEF SplitMissing, SplitRaises, Identify, RoomForSidecar
<1> QED
  BY <1>1, <1>2, <1>3 DEF Look

LEMMA WriteKeepsWhole ==
  ASSUME SingleTrack, Typed, FilesInv, WholeInv, Write
  PROVE  WholeInv'
<1> USE DEF WholeInv, FilesInv, AnswerInv, files, decision, GoTo, Raise, Unwind
<1>1. CASE MakeDirectories \/ StartMux \/ MuxEnds \/ MuxFails
  BY <1>1 DEF MakeDirectories, StartMux, MuxEnds, MuxFails
<1>2. CASE Verify
  <2>1. AllLanded => staged = accepted
    BY <1>2, VerifiedIsWhole DEF Verify, Typed, TypeOK, ResultInv
  <2> QED
    BY <1>2, <2>1 DEF Verify
<1>3. CASE Replace \/ ReplaceRaises
  BY <1>3 DEF Replace, ReplaceRaises
<1>4. CASE StartCopy \/ CopyEnds \/ CopyFails
  BY <1>4 DEF StartCopy, CopyEnds, CopyFails
<1>5. CASE ReplaceCopy
  BY <1>5 DEF ReplaceCopy, Typed, ResultInv
<1>6. CASE Unstage \/ CopyAttributes
  BY <1>6 DEF Unstage, CopyAttributes
<1> QED
  BY <1>1, <1>2, <1>3, <1>4, <1>5, <1>6 DEF Write

LEMMA WholeKept == ASSUME SingleTrack PROVE Spec => []WholeInv
<1>1. Init => WholeInv
  BY DEF Init, WholeInv
<1>2. Typed /\ FilesInv /\ WholeInv /\ [Next]_vars => WholeInv'
  <2> SUFFICES ASSUME Typed, FilesInv, WholeInv, [Next]_vars PROVE WholeInv'
    OBVIOUS
  <2>1. CASE UNCHANGED vars
    BY <2>1 DEF WholeInv, vars
  <2>2. CASE Look
    BY <2>2, LookIsEarly DEF WholeInv
  <2>3. CASE Write
    BY <2>3, WriteKeepsWhole
  <2>4. CASE Accident \/ Reconcile
    BY <2>4 DEF WholeInv, Accident, SourceGoes, SidecarChanges, Kill, Reconcile, Raise,
                files, decision
  <2> QED
    BY <2>1, <2>2, <2>3, <2>4 DEF Next
<1> QED
  BY <1>1, <1>2, TypedHolds, FilesInvHolds, PTL DEF Spec

(* Whatever a kill, a change or a failure does, the output path holds what *)
(* was there or every accepted track (muxer.verify, _copy_then_replace).   *)
THEOREM OutputHoldsAll == ASSUME SingleTrack PROVE Spec => []OutputIsWhole
<1>1. WholeInv => OutputIsWhole
  BY DEF WholeInv, OutputIsWhole
<1> QED
  BY <1>1, WholeKept, PTL

-----------------------------------------------------------------------------
(* Subtitles.  A sidecar that has been dealt with is accepted, or has a    *)
(* reject code that says why not: that it is gone, that the user does not  *)
(* keep its language, or one that hands it back.                           *)

DealtWith(s) ==
    \/ side[s] = "gone"
    \/ s \in accepted
    \/ /\ rejected[s] \notin {"open", "file_missing"}
       /\ rejected[s] = "language_not_kept" => request.verdict[s] = "language_not_kept"

(* From selection on, until the answer is given. *)
Selected == {"identify", "room", "roomFor", "stage", "mux", "muxing", "verify", "place",
             "copying", "replace", "unstage", "attributes"}

SubtitleInv ==
    /\ pc = "split" => \A s \in Sidecars : s \in todo \/ DealtWith(s)
    /\ pc \in Selected => \A s \in Sidecars : DealtWith(s)
    /\ answer = "RenameRequested" => pc = "done"
    /\ NoSubtitleLost

LEMMA SelectionDealsWithAll ==
  ASSUME Typed, FilesInv, SubtitleInv,
         CheckPaths \/ ProbeSource \/ Discover \/ SelectTracks
  PROVE  SubtitleInv'
<1> USE DEF Typed, TypeOK, FilesInv, AnswerInv, SubtitleInv, Selected, NoSubtitleLost,
            outside, files, decision, GoTo, Defer
<1>1. CASE CheckPaths \/ ProbeSource
  BY <1>1 DEF CheckPaths, ProbeSource
<1>2. CASE Discover
  BY <1>2 DEF Discover, DealtWith
<1>3. CASE SelectTracks
  <2>1. \A s \in Sidecars : request.verdict[s] \in {"take"} \cup SelectionCodes
    BY PipelineAssumption DEF Request
  <2>2. ASSUME NEW s \in Sidecars PROVE DealtWith(s)'
    <3>1. DealtWith(s)
      BY <1>3 DEF SelectTracks
    <3>2. CASE s \in accepted /\ request.verdict[s] # "take"
      BY <1>3, <2>1, <3>2 DEF SelectTracks, DealtWith, SelectionCodes
    <3>3. CASE ~ (s \in accepted /\ request.verdict[s] # "take")
      BY <1>3, <3>1, <3>3 DEF SelectTracks, DealtWith
    <3> QED
      BY <3>2, <3>3
  <2> QED
    BY <1>3, <2>2 DEF SelectTracks
<1> QED
  BY <1>1, <1>2, <1>3

LEMMA LookKeepsSubtitles ==
  ASSUME Typed, FilesInv, SubtitleInv, Look
  PROVE  SubtitleInv'
<1> USE DEF Typed, TypeOK, FilesInv, AnswerInv, SubtitleInv, Selected, NoSubtitleLost,
            outside, files, decision, GoTo, Defer, Raise
<1>1. CASE CheckPaths \/ ProbeSource \/ Discover \/ SelectTracks
  BY <1>1, SelectionDealsWithAll
<1>2. CASE CheckWorth \/ RoomForSource \/ CheckFreeSpace
  BY <1>2 DEF CheckWorth, RoomForSource, CheckFreeSpace, DealtWith
<1>3. ASSUME NEW s \in Sidecars, SplitMissing(s) PROVE SubtitleInv'
  <2>1. ASSUME NEW t \in Sidecars, t \in todo \/ DealtWith(t)
        PROVE  (t \in todo \/ DealtWith(t))'
    <3>1. CASE t = s
      BY <1>3, <3>1 DEF SplitMissing, DealtWith, Reject
    <3>2. CASE t # s
      BY <1>3, <2>1, <3>2 DEF SplitMissing, DealtWith, Reject
    <3> QED
      BY <3>1, <3>2
  <2> QED
    BY <1>3, <2>1 DEF SplitMissing
<1>4. ASSUME NEW s \in Sidecars, SplitRaises(s) PROVE SubtitleInv'
  BY <1>4 DEF SplitRaises
<1>5. ASSUME NEW s \in Sidecars, Identify(s) PROVE SubtitleInv'
  <2>1. ASSUME NEW t \in Sidecars PROVE DealtWith(t)'
    BY <1>5 DEF Identify, DealtWith, Reject
  <2> QED
    BY <1>5, <2>1 DEF Identify
<1>6. ASSUME NEW s \in Sidecars, RoomForSidecar(s) PROVE SubtitleInv'
  BY <1>6 DEF RoomForSidecar, DealtWith
<1> QED
  BY <1>1, <1>2, <1>3, <1>4, <1>5, <1>6 DEF Look

LEMMA WriteKeepsSubtitles ==
  ASSUME Typed, FilesInv, WholeInv, SubtitleInv, Write
  PROVE  SubtitleInv'
<1> USE DEF FilesInv, AnswerInv, SubtitleInv, Selected, outside, files, decision,
            GoTo, Raise, Unwind
<1>1. CASE MakeDirectories \/ StartMux \/ MuxEnds \/ MuxFails \/ Verify
  BY <1>1 DEF MakeDirectories, StartMux, MuxEnds, MuxFails, Verify, DealtWith, NoSubtitleLost
<1>2. CASE Replace \/ ReplaceRaises \/ StartCopy \/ CopyEnds \/ ReplaceCopy \/ CopyFails
  BY <1>2 DEF Replace, ReplaceRaises, StartCopy, CopyEnds, ReplaceCopy, CopyFails,
              DealtWith, NoSubtitleLost
<1>3. CASE Unstage
  BY <1>3 DEF Unstage, DealtWith, NoSubtitleLost
<1>4. CASE CopyAttributes
  <2>1. ASSUME NEW s \in OfKind(Sidecars, "subtitles")
        PROVE  \/ side[s] = "gone" \/ request.verdict[s] = "language_not_kept"
               \/ s \in output \/ s \in HandBack
    BY <1>4 DEF CopyAttributes, DealtWith, HandBack, OfKind, WholeInv
  <2> QED
    BY <1>4, <2>1 DEF CopyAttributes, NoSubtitleLost, OfKind
<1> QED
  BY <1>1, <1>2, <1>3, <1>4 DEF Write

LEMMA AccidentKeepsSubtitles ==
  ASSUME Typed, FilesInv, SubtitleInv, Accident \/ Reconcile
  PROVE  SubtitleInv'
<1> USE DEF Typed, TypeOK, FilesInv, AnswerInv, SubtitleInv, Selected, NoSubtitleLost, Busy,
            outside, files, decision, Raise
<1>1. CASE SourceGoes \/ Kill \/ Reconcile
  BY <1>1 DEF SourceGoes, Kill, Reconcile, DealtWith
<1>2. ASSUME NEW s \in Sidecars, NEW how, SidecarChanges(s, how) PROVE SubtitleInv'
  <2>1. ASSUME NEW t \in Sidecars, DealtWith(t) PROVE DealtWith(t)'
    BY <1>2, <2>1 DEF SidecarChanges, DealtWith
  <2> QED
    BY <1>2, <2>1 DEF SidecarChanges
<1> QED
  BY <1>1, <1>2 DEF Accident

LEMMA SubtitlesKept == ASSUME SingleTrack PROVE Spec => []SubtitleInv
<1>1. Init => SubtitleInv
  BY DEF Init, SubtitleInv, Selected, NoSubtitleLost
<1>2. Typed /\ FilesInv /\ WholeInv /\ SubtitleInv /\ [Next]_vars => SubtitleInv'
  <2> SUFFICES ASSUME Typed, FilesInv, WholeInv, SubtitleInv, [Next]_vars PROVE SubtitleInv'
    OBVIOUS
  <2>1. CASE UNCHANGED vars
    BY <2>1 DEF SubtitleInv, NoSubtitleLost, DealtWith, vars
  <2> QED
    BY <2>1, LookKeepsSubtitles, WriteKeepsSubtitles, AccidentKeepsSubtitles DEF Next
<1> QED
  BY <1>1, <1>2, TypedHolds, FilesInvHolds, WholeKept, PTL DEF Spec

(* No subtitle beside the source is lost when *arr is told to leave extra  *)
(* files alone: _split_missing, select and _drop_unreadable each leave a   *)
(* code for what they pass over, and extra_files hands those back.         *)
THEOREM SubtitlesSurvive == ASSUME SingleTrack PROVE Spec => []NoSubtitleLost
<1>1. SubtitleInv => NoSubtitleLost
  BY DEF SubtitleInv
<1> QED
  BY <1>1, SubtitlesKept, PTL

-----------------------------------------------------------------------------
(* Before the pipeline splits and identifies them, Discovery has found the *)
(* tracks.                                                                 *)

(* Replacing titles shows in the titles only. *)
LEMMA RenamedKeepsTheRest ==
    ASSUME NEW names, NEW proposed
    PROVE  {Unnamed(t) : t \in Renamed(names, proposed)} = {Unnamed(t) : t \in names}
  <1> DEFINE better(t) == {p \in proposed : p.path = t.path /\ p.title # NoTitle}
             r(t) == IF better(t) = {} THEN t
                     ELSE Titled(t, (CHOOSE p \in better(t) : TRUE).title)
  <1>1. ASSUME NEW t PROVE Unnamed(r(t)) = Unnamed(t)
    <2>1. CASE better(t) = {}
      BY <2>1
    <2>2. CASE better(t) # {}
      <3>1. \A x : Unnamed(Titled(t, x)) = Unnamed(t)
        BY DEF Unnamed, Titled
      <3>2. QED
        BY <2>2, <3>1
    <2>3. QED
      BY <2>1, <2>2
  <1>2. Renamed(names, proposed) = {r(t) : t \in names}
    BY DEF Renamed
  <1> HIDE DEF r
  <1>3. QED
    BY <1>1, <1>2

(* The provider's answer meets the two conditions, once it was asked for. *)
LEMMA SettledIsFaithful ==
    ASSUME NEW names, NEW proposed, ShouldConsult(names)
    PROVE  /\ settings.mode \in {"off", "verify"} => Settled(names, proposed) = names
           /\ ~WantsAiSelection(names) =>
                {Unnamed(t) : t \in Settled(names, proposed)} = {Unnamed(t) : t \in names}
  <1>1. settings.mode # "off"
    BY DEF ShouldConsult
  <1>2. settings.mode = "verify" => Settled(names, proposed) = names
    BY DEF Settled
  <1>3. ASSUME ~WantsAiSelection(names)
        PROVE  {Unnamed(t) : t \in Settled(names, proposed)} = {Unnamed(t) : t \in names}
    <2>1. names # {} /\ settings.mode = "fallback"
      BY <1>3 DEF WantsAiSelection
    <2>2. settings.nameTracks
      BY <1>3, <2>1 DEF ShouldConsult
    <2>3. Settled(names, proposed) \in {names, Renamed(names, proposed)}
      BY <1>3, <2>1, <2>2 DEF Settled
    <2>4. QED
      BY <2>3, RenamedKeepsTheRest
  <1>4. QED
    BY <1>1, <1>2, <1>3

(* Whoever asks the provider has a reason to. *)
Asking == {"consult", "asking", "sent", "answered"}

Asked ==
    /\ at = [v \in Videos |-> at[v]]
    /\ found = [v \in Videos |-> found[v]]
    /\ tracks = [v \in Videos |-> tracks[v]]
    /\ \A v \in Videos : at[v] \in Asking => ShouldConsult(found[v])

Faithful(result, names) ==
    /\ settings.mode \in {"off", "verify"} => result = names
    /\ ~WantsAiSelection(names) => {Unnamed(t) : t \in result} = {Unnamed(t) : t \in names}

LabelInv == Asked /\ \A v \in Videos : at[v] = "done" => Faithful(tracks[v], found[v])

LEMMA InitLabels == DiscoveryInit => LabelInv
  BY DEF DiscoveryInit, LabelInv, Asked, Asking

(* What a step must leave behind for its own import. *)
LEMMA LookKeepsLabels ==
    ASSUME LabelInv, NEW v \in Videos, UNCHANGED settings, NEW to, NEW names, NEW result,
           at' = [at EXCEPT ![v] = to],
           found' = [found EXCEPT ![v] = names],
           tracks' = [tracks EXCEPT ![v] = result],
           to \in Asking => ShouldConsult(names),
           to = "done" => Faithful(result, names)
    PROVE  LabelInv'
  <1>1. \A w \in Videos : /\ at'[w] = IF w = v THEN to ELSE at[w]
                          /\ found'[w] = IF w = v THEN names ELSE found[w]
                          /\ tracks'[w] = IF w = v THEN result ELSE tracks[w]
    BY DEF LabelInv, Asked
  <1>2. /\ at' = [w \in Videos |-> at'[w]]
        /\ found' = [w \in Videos |-> found'[w]]
        /\ tracks' = [w \in Videos |-> tracks'[w]]
    BY DEF LabelInv, Asked
  <1>3. \A w \in Videos : at'[w] \in Asking => ShouldConsult(found'[w])
    BY <1>1 DEF LabelInv, Asked
  <1>4. \A w \in Videos : at'[w] = "done" => Faithful(tracks'[w], found'[w])
    BY <1>1 DEF LabelInv
  <1>5. QED
    BY <1>2, <1>3, <1>4 DEF LabelInv, Asked, ShouldConsult, WantsAiSelection, Faithful

(* A step that leaves the imports alone. *)
LEMMA FolderKeepsLabels ==
    ASSUME LabelInv, UNCHANGED <<settings, discovery>>
    PROVE  LabelInv'
  BY DEF LabelInv, Asked, ShouldConsult, WantsAiSelection, Faithful, discovery

LEMMA ConsultingKeepsLabels == ASSUME LabelInv, NEW v \in Videos, Step(v) PROVE LabelInv'
  <1>1. /\ found = [found EXCEPT ![v] = found[v]]
        /\ tracks = [tracks EXCEPT ![v] = tracks[v]]
    BY DEF LabelInv, Asked
  <1>2. at[v] \in Asking => ShouldConsult(found[v])
    BY DEF LabelInv, Asked
  <1>3. Faithful(found[v], found[v])
    BY DEF Faithful
  <1>4. CASE List(v)
    BY <1>1, <1>4, LookKeepsLabels DEF List, Moves, Asking
  <1>5. CASE Classify(v)
    <2> DEFINE names == HeuristicTracks(v, listed[v], contents)
    <2>1. /\ at' = [at EXCEPT ![v] = IF ShouldConsult(names) THEN "consult" ELSE "done"]
          /\ found' = [found EXCEPT ![v] = names]
          /\ tracks' = [tracks EXCEPT ![v] = IF ShouldConsult(names) THEN {} ELSE names]
          /\ UNCHANGED settings
      BY <1>5 DEF Classify, Moves
    <2>2. Faithful(names, names)
      BY DEF Faithful
    <2> HIDE DEF names
    <2>3. CASE ShouldConsult(names)
      BY <2>1, <2>3, LookKeepsLabels DEF Asking
    <2>4. CASE ~ShouldConsult(names)
      BY <2>1, <2>2, <2>4, LookKeepsLabels DEF Asking
    <2>5. QED
      BY <2>3, <2>4
  <1>6. CASE BuildPrompt(v)
    <2> DEFINE release == ReleaseFolder(v, contents)
               index == {f \in release.candidates \ {v} : Embeddable(f, contents)}
               nothing == index = {} \/ Cardinality(index) > MaxEntries
    <2>1. /\ at[v] = "consult" /\ UNCHANGED <<settings, found>>
          /\ at' = [at EXCEPT ![v] = IF nothing THEN "done" ELSE "asking"]
          /\ tracks' = [tracks EXCEPT ![v] = IF nothing THEN found[v] ELSE {}]
      BY <1>6 DEF BuildPrompt, Moves
    <2> HIDE DEF nothing
    <2>2. CASE nothing
      BY <1>1, <1>2, <1>3, <2>1, <2>2, LookKeepsLabels DEF Asking
    <2>3. CASE ~nothing
      BY <1>1, <1>2, <2>1, <2>3, LookKeepsLabels DEF Asking
    <2>4. QED
      BY <2>2, <2>3
  <1>7. CASE Post(v)
    BY <1>1, <1>2, <1>7, LookKeepsLabels DEF Post, Moves, Asking
  <1>8. CASE RejectFormat(v)
    <2>1. at[v] = "sent" /\ at' = [at EXCEPT ![v] = "asking"] /\ UNCHANGED <<settings, found, tracks>>
      BY <1>8 DEF RejectFormat, Moves
    <2>2. QED
      BY <1>1, <1>2, <2>1, LookKeepsLabels DEF Asking
  <1>9. CASE ProviderFails(v)
    BY <1>1, <1>3, <1>9, LookKeepsLabels DEF ProviderFails, Moves, Asking
  <1>10. CASE Answer(v)
    BY <1>1, <1>2, <1>10, LookKeepsLabels DEF Answer, Moves, Asking
  <1>11. CASE Conclude(v)
    <2> DEFINE proposed == Materialise(ask[v].reply, ask[v].index, ask[v].tagged, contents)
    <2>1. /\ at[v] = "answered" /\ UNCHANGED <<settings, found>>
          /\ at' = [at EXCEPT ![v] = "done"]
          /\ tracks' = [tracks EXCEPT ![v] = Settled(found[v], proposed)]
      BY <1>11 DEF Conclude, Moves
    <2> HIDE DEF proposed
    <2>2. Faithful(Settled(found[v], proposed), found[v])
      BY <1>2, <2>1, SettledIsFaithful DEF Faithful, Asking
    <2>3. QED
      BY <1>1, <2>1, <2>2, LookKeepsLabels DEF Asking
  <1>12. QED
    BY <1>4, <1>5, <1>6, <1>7, <1>8, <1>9, <1>10, <1>11 DEF Step, Reply

(* Where the names are conclusive, and in off and verify mode, the provider  *)
(* changes no file, language or flag, whatever it replies and however the    *)
(* folder changes meanwhile.                                                 *)
THEOREM OnlyLabelsChange == DiscoverySpec => []LabelsOnly
  <1>1. LabelInv /\ [DiscoveryNext]_discoveryVars => LabelInv'
    <2>1. ASSUME LabelInv, NEW v \in Videos, Step(v) PROVE LabelInv'
      BY <2>1, ConsultingKeepsLabels
    <2>2. ASSUME LabelInv, NEW f \in Files, Leaves(f) \/ Arrives(f) PROVE LabelInv'
      BY <2>2, FolderKeepsLabels DEF Leaves, Arrives
    <2>3. ASSUME LabelInv, UNCHANGED discoveryVars PROVE LabelInv'
      BY <2>3, FolderKeepsLabels DEF discoveryVars, discovery
    <2>4. QED
      BY <2>1, <2>2, <2>3 DEF DiscoveryNext
  <1>2. LabelInv => LabelsOnly
    BY DEF LabelInv, LabelsOnly, Faithful
  <1>3. QED
    BY InitLabels, <1>1, <1>2, PTL DEF DiscoverySpec

-----------------------------------------------------------------------------
(* What the names and the provider can say, whatever they are. *)

LEMMA LeastOf ==
    ASSUME NEW T \in SUBSET Nat, T # {}
    PROVE  \E n \in T : \A m \in T : n <= m
  <1>1. \E x \in T : \A y \in T : ~ (<<y, x>> \in OpToRel(<, Nat))
    BY NatLessThanWellFounded, WFMin
  <1>2. \A x, y \in Nat : y < x => <<y, x>> \in OpToRel(<, Nat)
    BY Zenon DEF OpToRel
  <1>3. \A x \in T : x \in Nat
    OBVIOUS
  <1>4. \E x \in T : \A y \in T : ~ (y < x)
    BY <1>1, <1>2, <1>3, Zenon
  <1>5. QED
    BY <1>3, <1>4

LEMMA MinOf ==
    ASSUME NEW T \in SUBSET Nat, T # {}
    PROVE  Min(T) \in T /\ \A m \in T : Min(T) <= m
  <1>1. \E n \in T : \A m \in T : n <= m
    BY LeastOf
  <1>2. QED
    BY <1>1 DEF Min

LEMMA MaxOf ==
    ASSUME NEW n \in Nat, NEW T \in SUBSET (1..n), T # {}
    PROVE  Max(T) \in T /\ \A m \in T : m <= Max(T)
  <1> DEFINE below == {m \in Nat : \E t \in T : m = n - t}
  <1>1. below \in SUBSET Nat /\ below # {}
    <2>1. PICK t \in T : TRUE
      OBVIOUS
    <2>2. n - t \in Nat
      OBVIOUS
    <2>3. QED
      BY <2>1, <2>2
  <1>2. PICK m \in below : \A k \in below : m <= k
    BY <1>1, LeastOf
  <1>3. PICK t \in T : m = n - t
    BY <1>2
  <1>4. \A u \in T : t >= u
    <2> TAKE u \in T
    <2>1. n - u \in below /\ t \in 1..n /\ u \in 1..n
      OBVIOUS
    <2>2. QED
      BY <1>2, <1>3, <2>1
  <1>5. QED
    BY <1>4 DEF Max

(* What the names tell has its type. *)
Attributes == [language : LanguageCodes, forced : BOOLEAN, hearingImpaired : BOOLEAN,
               signs : BOOLEAN, variant : STRING, title : Titles]

LEMMA CodesAreStrings == \A code \in LanguageCodes : code \in STRING
  <1>1. Undetermined \in STRING
    BY DiscoveryAssumption
  <1>2. \A code \in Range(Alias) : code \in STRING
    BY DiscoveryAssumption
  <1>3. QED
    BY <1>1, <1>2, Zenon DEF LanguageCodes

LEMMA TitleTyped ==
    ASSUME NEW language \in LanguageCodes, NEW forced \in BOOLEAN,
           NEW hearingImpaired \in BOOLEAN, NEW signs \in BOOLEAN, NEW variant \in STRING
    PROVE  BuildTitle(language, forced, hearingImpaired, signs, variant) \in Titles
  <1> DEFINE group == IF variant # "" THEN <<variant>> ELSE <<>>
             flag == IF signs THEN <<"Signs">> ELSE IF forced THEN <<"Forced">> ELSE <<>>
             sdh == IF hearingImpaired THEN <<"SDH">> ELSE <<>>
             name == IF language = Undetermined THEN "" ELSE language
  <1>1. group \in Seq(STRING) /\ flag \in Seq(STRING) /\ sdh \in Seq(STRING)
    <2>0. \A S : \A word \in S : <<word>> \in Seq(S)
      OBVIOUS
    <2>1. \A word \in STRING : <<word>> \in Seq(STRING)
      BY <2>0, Zenon
    <2>2. "Signs" \in STRING /\ "Forced" \in STRING /\ "SDH" \in STRING
      BY DiscoveryAssumption
    <2>3. <<"Signs">> \in Seq(STRING) /\ <<"Forced">> \in Seq(STRING) /\ <<"SDH">> \in Seq(STRING)
      BY <2>1, <2>2
    <2>4. << >> \in Seq(STRING)
      OBVIOUS
    <2>5. QED
      BY <2>1, <2>3, <2>4, Zenon
  <1>2. name \in STRING
    <2>1. "" \in STRING
      BY DiscoveryAssumption
    <2>2. QED
      BY <2>1, CodesAreStrings, Zenon
  <1>3. BuildTitle(language, forced, hearingImpaired, signs, variant) =
            [name |-> name, qualifiers |-> group \o flag \o sdh]
    BY DEF BuildTitle
  <1> HIDE DEF group, flag, sdh, name
  <1>4. group \o flag \o sdh \in Seq(STRING)
    BY <1>1
  <1>5. QED
    BY <1>2, <1>3, <1>4 DEF Titles

LEMMA LanguageTyped ==
    ASSUME NEW tokens \in Seq(STRING)
    PROVE  RightmostLanguage(tokens) \in LanguageCodes
  <1> DEFINE named == {i \in DOMAIN tokens : NamesLanguage(tokens[i])}
  <1>1. CASE named = {}
    BY <1>1 DEF RightmostLanguage, LanguageCodes
  <1>2. CASE named # {}
    <2>1. Len(tokens) \in Nat /\ DOMAIN tokens = 1..Len(tokens)
      OBVIOUS
    <2>2. Max(named) \in named
      BY <1>2, <2>1, MaxOf
    <2>3. tokens[Max(named)] \in DOMAIN Alias
      BY <2>2 DEF NamesLanguage
    <2>4. RightmostLanguage(tokens) = Alias[tokens[Max(named)]]
      BY <1>2 DEF RightmostLanguage
    <2>5. QED
      BY <2>3, <2>4 DEF LanguageCodes, Range
  <1>3. QED
    BY <1>1, <1>2

LEMMA NamesTyped ==
    ASSUME NEW names \in Seq(Seq(STRING))
    PROVE  InferLanguage(names) \in LanguageCodes /\ VariantTag(names) \in STRING
  <1>0. DOMAIN names \in SUBSET Nat /\ \A i \in DOMAIN names : names[i] \in Seq(STRING)
    OBVIOUS
  <1>1. InferLanguage(names) \in LanguageCodes
    <2> DEFINE told == {i \in DOMAIN names : RightmostLanguage(names[i]) # Undetermined}
    <2>1. CASE told = {}
      BY <2>1 DEF InferLanguage, LanguageCodes
    <2>2. CASE told # {}
      <3>1. Min(told) \in DOMAIN names
        BY <1>0, <2>2, MinOf
      <3>2. InferLanguage(names) = RightmostLanguage(names[Min(told)])
        BY <2>2 DEF InferLanguage
      <3>3. QED
        BY <1>0, <3>1, <3>2, LanguageTyped
    <2>3. QED
      BY <2>1, <2>2
  <1>2. VariantTag(names) \in STRING
    <2> DEFINE groups(name) == {i \in DOMAIN name : IsVariant(name[i])}
               told == {i \in DOMAIN names : groups(names[i]) # {}}
               nearest == names[Min(told)]
    <2>1. CASE told = {}
      <3>1. VariantTag(names) = ""
        BY <2>1, Zenon DEF VariantTag
      <3>2. "" \in STRING
        BY DiscoveryAssumption
      <3>3. QED
        BY <3>1, <3>2, Zenon
    <2>2. CASE told # {}
      <3>1. Min(told) \in told
        BY <1>0, <2>2, MinOf
      <3>2. nearest \in Seq(STRING) /\ groups(nearest) # {}
        BY <1>0, <3>1
      <3>3. VariantTag(names) = nearest[Max(groups(nearest))]
        BY <2>2 DEF VariantTag
      <3> HIDE DEF nearest
      <3>4. Len(nearest) \in Nat /\ DOMAIN nearest = 1..Len(nearest)
        BY <3>2
      <3>5. Max(groups(nearest)) \in DOMAIN nearest
        BY <3>2, <3>4, MaxOf
      <3>6. QED
        BY <3>2, <3>3, <3>5
    <2>3. QED
      BY <2>1, <2>2
  <1>3. QED
    BY <1>1, <1>2

LEMMA StripTyped ==
    ASSUME NEW stem \in Seq(STRING), NEW videoStem \in Seq(STRING)
    PROVE  StripVideoStem(stem, videoStem) \in Seq(STRING)
  <1>1. CASE ~ IsPrefix(videoStem, stem)
    BY <1>1 DEF StripVideoStem
  <1>2. CASE IsPrefix(videoStem, stem)
    <2>1. StripVideoStem(stem, videoStem) = SubSeq(stem, Len(videoStem) + 1, Len(stem))
      BY <1>2 DEF StripVideoStem
    <2>2. QED
      BY <2>1
  <1>3. QED
    BY <1>1, <1>2

LEMMA InferTyped ==
    ASSUME NEW stem \in Seq(STRING), NEW videoStem \in Seq(STRING),
           NEW context \in Seq(Seq(STRING))
    PROVE  Infer(stem, videoStem, context) \in Attributes
  <1> DEFINE own == StripVideoStem(stem, videoStem)
             names == <<own>> \o context
             combined == UNION {Range(names[i]) : i \in DOMAIN names}
             signs == combined \cap SignsTokens # {}
             forced == \/ signs
                       \/ combined \cap ForcedTokens # {}
                       \/ {"foreign", "parts"} \subseteq combined
             hearingImpaired == combined \cap HearingImpairedTokens # {}
  <1>1. own \in Seq(STRING)
    BY StripTyped
  <1> HIDE DEF own
  <1>2. names \in Seq(Seq(STRING))
    BY <1>1
  <1> DEFINE attrs == [language |-> InferLanguage(names), forced |-> forced,
                       hearingImpaired |-> hearingImpaired, signs |-> signs,
                       variant |-> VariantTag(names),
                       title |-> BuildTitle(InferLanguage(names), forced, hearingImpaired,
                                            signs, VariantTag(names))]
  <1>3. Infer(stem, videoStem, context) = attrs
    BY Zenon DEF Infer, own
  <1>4. signs \in BOOLEAN /\ forced \in BOOLEAN /\ hearingImpaired \in BOOLEAN
    OBVIOUS
  <1> HIDE DEF names, signs, forced, hearingImpaired
  <1>5. InferLanguage(names) \in LanguageCodes /\ VariantTag(names) \in STRING
    BY <1>2, NamesTyped
  <1>6. BuildTitle(InferLanguage(names), forced, hearingImpaired, signs, VariantTag(names)) \in Titles
    BY <1>4, <1>5, TitleTyped
  <1>7. QED
    BY <1>3, <1>4, <1>5, <1>6 DEF Attributes

(* A track of a file of the folder has its type, whoever described it. *)
LEMMA TrackTyped ==
    ASSUME NEW f \in Files, NEW attrs,
           attrs.forced \in BOOLEAN, attrs.hearingImpaired \in BOOLEAN, attrs.variant \in STRING,
           NEW language \in LanguageCodes, NEW title \in Titles,
           NEW by \in {"heuristic", "tags", "ai"}
    PROVE  Track(f, attrs, language, title, by) \in Tracks
  <1>1. KindOf(f) \in {"audio", "subtitles"} /\ (f.suffix = ".idx") \in BOOLEAN
    BY DEF KindOf
  <1> HIDE DEF KindOf
  <1>2. QED
    BY <1>1 DEF Track, Tracks

LEMMA ExternalTrackTyped ==
    ASSUME NEW video \in Videos, NEW f \in Files, NEW present
    PROVE  ToExternalTrack(video, f, present) \in Tracks
  <1> DEFINE attrs == Infer(f.stem, video.stem, f.folder)
             declared == EmbeddedLanguage(f, present)
             derived == BuildTitle(declared, attrs.forced, attrs.hearingImpaired,
                                   attrs.signs, attrs.variant)
  <1>1. f \in File /\ video \in File
    BY DiscoveryAssumption
  <1>2. /\ f.stem \in Seq(STRING) /\ video.stem \in Seq(STRING)
        /\ f.folder \in Seq(Seq(STRING))
    BY <1>1 DEF File
  <1>3. attrs \in Attributes
    BY <1>2, InferTyped
  <1>4. declared \in LanguageCodes
    BY DEF EmbeddedLanguage, NormaliseLanguage, LanguageCodes, Range
  <1>5. \/ ToExternalTrack(video, f, present) =
                Track(f, attrs, attrs.language, attrs.title, "heuristic")
        \/ ToExternalTrack(video, f, present) = Track(f, attrs, declared, derived, "tags")
    BY Zenon DEF ToExternalTrack
  <1> HIDE DEF attrs, declared
  <1>6. /\ attrs.language \in LanguageCodes /\ attrs.title \in Titles
        /\ attrs.forced \in BOOLEAN /\ attrs.hearingImpaired \in BOOLEAN
        /\ attrs.signs \in BOOLEAN /\ attrs.variant \in STRING
    BY <1>3 DEF Attributes
  <1>7. derived \in Titles
    BY <1>4, <1>6, TitleTyped
  <1> HIDE DEF derived
  <1>8. QED
    BY <1>4, <1>5, <1>6, <1>7, TrackTyped

LEMMA HeuristicsTyped ==
    ASSUME NEW video \in Videos, NEW release, release.candidates \subseteq Files, NEW present
    PROVE  HeuristicTracks(video, release, present) \subseteq Tracks
  BY ExternalTrackTyped DEF HeuristicTracks

(* Whatever the provider replies, the proposal has tracks of listed files. *)
LEMMA ProposalTyped ==
    ASSUME NEW reply \in Seq(Items), NEW index, index \subseteq Files, NEW tagged,
           Range(tagged) \subseteq LanguageCodes, NEW present
    PROVE  Materialise(reply, index, tagged, present) \subseteq Tracks
  <1>1. ASSUME NEW item \in Items, item.file \in Files
        PROVE  ToTrack(item, tagged) \in Tracks
    <2> DEFINE language == IF item.language = Undetermined /\ item.file \in DOMAIN tagged
                           THEN tagged[item.file] ELSE item.language
               title == IF item.title # NoTitle THEN item.title
                        ELSE BuildTitle(language, FALSE, FALSE, FALSE, "")
    <2>1. item.language \in LanguageCodes /\ item.title \in Titles /\ "" \in STRING
      BY DiscoveryAssumption
    <2>2. language \in LanguageCodes
      BY <2>1 DEF Range
    <2>3. ToTrack(item, tagged) = Track(item.file, Shrug, language, title, "ai")
      BY Zenon DEF ToTrack
    <2> HIDE DEF language
    <2>4. title \in Titles
      BY <2>1, <2>2, TitleTyped
    <2> HIDE DEF title
    <2>5. /\ Shrug.forced \in BOOLEAN /\ Shrug.hearingImpaired \in BOOLEAN
          /\ Shrug.variant \in STRING
      BY <2>1 DEF Shrug
    <2>6. "ai" \in {"heuristic", "tags", "ai"}
      OBVIOUS
    <2>7. Track(item.file, Shrug, language, title, "ai") \in Tracks
      BY <1>1, <2>2, <2>4, <2>5, <2>6, TrackTyped
    <2>8. QED
      BY <2>3, <2>7
  <1>2. \A i \in DOMAIN reply : reply[i] \in Items
    OBVIOUS
  <1>3. \A t \in Materialise(reply, index, tagged, present) :
           \E i \in DOMAIN reply : reply[i].file \in index /\ t = ToTrack(reply[i], tagged)
    BY DEF Materialise
  <1>4. QED
    BY <1>1, <1>2, <1>3

LEMMA SettledTyped ==
    ASSUME NEW names \in SUBSET Tracks, NEW proposed \in SUBSET Tracks
    PROVE  Settled(names, proposed) \subseteq Tracks
  <1>1. ASSUME NEW t \in Tracks, NEW title \in Titles
        PROVE  Titled(t, title) \in Tracks
    BY DEF Titled, Tracks
  <1>2. Renamed(names, proposed) \subseteq Tracks
    <2> DEFINE better(t) == {p \in proposed : p.path = t.path /\ p.title # NoTitle}
    <2>1. ASSUME NEW t \in names, better(t) # {}
          PROVE  Titled(t, (CHOOSE p \in better(t) : TRUE).title) \in Tracks
      <3>1. PICK p : p = CHOOSE q \in better(t) : TRUE
        OBVIOUS
      <3>2. p \in better(t)
        BY <2>1, <3>1
      <3>3. p \in Tracks
        BY <3>2
      <3>4. p.title \in Titles
        BY <3>3 DEF Tracks
      <3>5. QED
        BY <1>1, <3>1, <3>4
    <2>2. QED
      BY <2>1 DEF Renamed
  <1>3. QED
    BY <1>2 DEF Settled

LEMMA ReleaseTyped ==
    ASSUME NEW v \in Files, NEW present \in SUBSET Files
    PROVE  ReleaseFolder(v, present) \in [candidates : SUBSET Files, videos : SUBSET Files]
  <1>1. IndexCandidates(present) \subseteq Files
    BY DEF IndexCandidates
  <1>2. QED
    BY <1>1 DEF ReleaseFolder

(* The type invariant in the form that steps keep: every variable is a     *)
(* function into a set that no step need look into.                        *)
Places == {"idle", "listed", "consult", "asking", "sent", "answered", "done"}

Listing == [candidates : SUBSET Files, videos : SUBSET Files]

Question ==
    {q \in [index : SUBSET Files, tagged : UNION {[d -> LanguageCodes] : d \in SUBSET Files},
            format : BOOLEAN, reply : Seq(Items)] :
        DOMAIN q.tagged \subseteq q.index}

LooksTyped ==
    /\ at \in [Videos -> Places]
    /\ listed \in [Videos -> Listing]
    /\ found \in [Videos -> SUBSET Tracks]
    /\ tracks \in [Videos -> SUBSET Tracks]
    /\ ask \in [Videos -> Question]

FolderTyped ==
    contents \subseteq Files /\ settings \in Settings /\ folderChanges \in 0..MaxFolderChanges

LEMMA QuestionTyped ==
    ASSUME NEW q \in Question
    PROVE  /\ q.index \subseteq Files /\ DOMAIN q.tagged \subseteq q.index
           /\ Range(q.tagged) \subseteq LanguageCodes
           /\ q.format \in BOOLEAN /\ q.reply \in Seq(Items)
           /\ q = [index |-> q.index, tagged |-> q.tagged, format |-> q.format,
                   reply |-> q.reply]
  <1>1. PICK d \in SUBSET Files : q.tagged \in [d -> LanguageCodes]
    BY DEF Question
  <1>2. Range(q.tagged) \subseteq LanguageCodes
    BY <1>1 DEF Range
  <1>3. QED
    BY <1>2 DEF Question

LEMMA QuestionIsTyped ==
    ASSUME NEW index \in SUBSET Files, NEW d \in SUBSET index,
           NEW tags \in [d -> LanguageCodes], NEW format \in BOOLEAN,
           NEW reply \in Seq(Items)
    PROVE  [index |-> index, tagged |-> tags, format |-> format, reply |-> reply] \in Question
  <1>1. d \in SUBSET Files /\ DOMAIN tags = d
    OBVIOUS
  <1>2. tags \in UNION {[e -> LanguageCodes] : e \in SUBSET Files}
    BY <1>1
  <1>3. QED
    BY <1>1, <1>2 DEF Question

LEMMA NoQuestionTyped == NoQuestion \in Question
  <1>1. NoTags \in [{} -> LanguageCodes]
    BY DEF NoTags
  <1>2. << >> \in Seq(Items)
    OBVIOUS
  <1> HIDE DEF NoTags
  <1>3. QED
    BY <1>1, <1>2, QuestionIsTyped DEF NoQuestion

LEMMA TypedForms == FolderTyped /\ LooksTyped => DiscoveryTypeOK
  <1> SUFFICES ASSUME FolderTyped, LooksTyped PROVE DiscoveryTypeOK
    OBVIOUS
  <1>1. \A v \in Videos :
           /\ ask[v].index \subseteq Files /\ DOMAIN ask[v].tagged \subseteq ask[v].index
           /\ Range(ask[v].tagged) \subseteq LanguageCodes
           /\ ask[v].format \in BOOLEAN /\ ask[v].reply \in Seq(Items)
    BY QuestionTyped DEF LooksTyped
  <1>2. DOMAIN ask = Videos
    BY DEF LooksTyped
  <1>3. QED
    BY <1>1, <1>2 DEF DiscoveryTypeOK, FolderTyped, LooksTyped, Places, Listing

LEMMA BoundsAreNatural == MaxFolderChanges \in Nat /\ MaxItems \in Nat
  BY DiscoveryAssumption, Zenon DEF DiscoveryAssumption

LEMMA StepsKeepTypes ==
    ASSUME FolderTyped, LooksTyped, NEW v \in Videos, Step(v)
    PROVE  LooksTyped'
  <1>1. contents \in SUBSET Files /\ ask[v] \in Question /\ listed[v] \in Listing
    BY DEF FolderTyped, LooksTyped
  <1>2. ask[v].index \in SUBSET Files
    BY <1>1, QuestionTyped
  <1>3. \A p \in Places : at' = [at EXCEPT ![v] = p] => at' \in [Videos -> Places]
    BY DEF LooksTyped
  <1>4. \A s \in SUBSET Tracks : tracks' = [tracks EXCEPT ![v] = s]
           => tracks' \in [Videos -> SUBSET Tracks]
    BY DEF LooksTyped
  <1>5. \A q \in Question : ask' = [ask EXCEPT ![v] = q] => ask' \in [Videos -> Question]
    BY DEF LooksTyped
  <1>6. /\ "listed" \in Places /\ "consult" \in Places /\ "asking" \in Places
        /\ "sent" \in Places /\ "answered" \in Places /\ "done" \in Places
    BY DEF Places
  <1>7. found[v] \in SUBSET Tracks
    BY DEF LooksTyped
  <1>8. CASE List(v)
    <2>1. v \in Files /\ ReleaseFolder(v, contents) \in Listing
      BY <1>1, <1>8, ReleaseTyped DEF List, Listing
    <2>2. listed' \in [Videos -> Listing]
      BY <1>8, <2>1 DEF List, LooksTyped
    <2>3. at' \in [Videos -> Places]
      BY <1>3, <1>6, <1>8 DEF List, Moves
    <2>4. QED
      BY <1>8, <2>2, <2>3 DEF List, LooksTyped
  <1>9. CASE Classify(v)
    <2> DEFINE names == HeuristicTracks(v, listed[v], contents)
               to == IF ShouldConsult(names) THEN "consult" ELSE "done"
               result == IF ShouldConsult(names) THEN {} ELSE names
    <2>1. names \in SUBSET Tracks
      BY <1>1, HeuristicsTyped DEF Listing
    <2>2. /\ at' = [at EXCEPT ![v] = to]
          /\ tracks' = [tracks EXCEPT ![v] = result]
          /\ found' = [found EXCEPT ![v] = names]
          /\ listed' = [listed EXCEPT ![v] = NoListing]
          /\ ask' = ask
      BY <1>9 DEF Classify, Moves
    <2> HIDE DEF names
    <2>3. to \in Places /\ result \in SUBSET Tracks
      BY <1>6, <2>1
    <2> HIDE DEF to, result
    <2>4. NoListing \in Listing
      BY DEF NoListing, Listing
    <2>5. found' \in [Videos -> SUBSET Tracks] /\ listed' \in [Videos -> Listing]
      BY <2>1, <2>2, <2>4 DEF LooksTyped
    <2>6. QED
      BY <1>3, <1>4, <2>2, <2>3, <2>5 DEF LooksTyped
  <1>10. CASE BuildPrompt(v)
    <2> DEFINE release == ReleaseFolder(v, contents)
               index == {f \in release.candidates \ {v} : Embeddable(f, contents)}
               nothing == index = {} \/ Cardinality(index) > MaxEntries
               worth == WorthDescribing(v, index, Cardinality(release.videos))
               declared(d) == {f \in d : EmbeddedLanguage(f, contents) # Undetermined}
               tags(d) == [f \in declared(d) |-> EmbeddedLanguage(f, contents)]
               to == IF nothing THEN "done" ELSE "asking"
               result == IF nothing THEN found[v] ELSE {}
    <2>1. index \in SUBSET Files
      <3>1. index \subseteq IndexCandidates(contents)
        BY DEF ReleaseFolder
      <3>2. QED
        BY <1>1, <3>1 DEF IndexCandidates
    <2>2. /\ at' = [at EXCEPT ![v] = to]
          /\ tracks' = [tracks EXCEPT ![v] = result]
          /\ UNCHANGED <<listed, found>>
      BY <1>10 DEF BuildPrompt, Moves
    <2>3. \/ ask' = ask
          \/ \E d \in worth :
                ask' = [ask EXCEPT ![v] = [index |-> index, tagged |-> tags(d),
                                           format |-> TRUE, reply |-> << >>]]
      BY <1>10 DEF BuildPrompt
    <2>4. to \in Places /\ result \in SUBSET Tracks
      BY <1>6, <1>7
    <2>5. worth \subseteq SUBSET index
      BY DEF WorthDescribing
    <2> HIDE DEF index, nothing, worth, to, result
    <2>6. ask' \in [Videos -> Question]
      <3>1. CASE ask' = ask
        BY <3>1 DEF LooksTyped
      <3>2. ASSUME NEW d \in worth,
                   ask' = [ask EXCEPT ![v] = [index |-> index, tagged |-> tags(d),
                                              format |-> TRUE, reply |-> << >>]]
            PROVE  ask' \in [Videos -> Question]
        <4>1. declared(d) \in SUBSET index
          BY <2>5
        <4>2. \A f : EmbeddedLanguage(f, contents) \in LanguageCodes
          BY DEF EmbeddedLanguage, NormaliseLanguage, LanguageCodes, Range
        <4>3. tags(d) \in [declared(d) -> LanguageCodes]
          BY <4>2
        <4>4. << >> \in Seq(Items)
          OBVIOUS
        <4> HIDE DEF declared, tags
        <4>5. [index |-> index, tagged |-> tags(d), format |-> TRUE, reply |-> << >>]
                 \in Question
          BY <2>1, <4>1, <4>3, <4>4, QuestionIsTyped
        <4>6. QED
          BY <1>5, <3>2, <4>5
      <3>3. QED
        BY <2>3, <3>1, <3>2
    <2>7. QED
      BY <1>3, <1>4, <2>2, <2>4, <2>6 DEF LooksTyped
  <1>11. CASE Post(v)
    <2>1. at' \in [Videos -> Places]
      BY <1>3, <1>6, <1>11 DEF Post, Moves
    <2>2. QED
      BY <1>11, <2>1 DEF Post, LooksTyped
  <1>12. CASE RejectFormat(v)
    <2> DEFINE question == [ask[v] EXCEPT !.format = FALSE]
    <2>1. question \in Question
      BY <1>1 DEF Question
    <2>2. ask' = [ask EXCEPT ![v] = question]
      BY <1>12 DEF RejectFormat
    <2> HIDE DEF question
    <2>3. at' \in [Videos -> Places]
      BY <1>3, <1>6, <1>12 DEF RejectFormat, Moves
    <2>4. QED
      BY <1>5, <1>12, <2>1, <2>2, <2>3 DEF RejectFormat, LooksTyped
  <1>13. CASE ProviderFails(v)
    <2>1. at' \in [Videos -> Places] /\ tracks' \in [Videos -> SUBSET Tracks]
      BY <1>3, <1>4, <1>6, <1>7, <1>13 DEF ProviderFails, Moves
    <2>2. ask' \in [Videos -> Question]
      BY <1>5, <1>13, NoQuestionTyped DEF ProviderFails
    <2>3. QED
      BY <1>13, <2>1, <2>2 DEF ProviderFails, LooksTyped
  <1>14. CASE Answer(v)
    <2>1. PICK reply \in BoundedSeq(Items, MaxItems) : ask' = [ask EXCEPT ![v].reply = reply]
      BY <1>14 DEF Answer
    <2>2. reply \in Seq(Items)
      <3>1. PICK m \in 0..MaxItems : reply \in [1..m -> Items]
        BY DEF BoundedSeq, SeqOf
      <3>2. m \in Nat
        BY <3>1, BoundsAreNatural
      <3>3. QED
        BY <3>1, <3>2, SeqDef
    <2> DEFINE question == [ask[v] EXCEPT !.reply = reply]
    <2>3. question \in Question
      BY <1>1, <2>2 DEF Question
    <2>4. ask' = [ask EXCEPT ![v] = question]
      BY <2>1
    <2> HIDE DEF question
    <2>5. at' \in [Videos -> Places]
      BY <1>3, <1>6, <1>14 DEF Answer, Moves
    <2>6. QED
      BY <1>5, <1>14, <2>3, <2>4, <2>5 DEF Answer, LooksTyped
  <1>15. CASE Conclude(v)
    <2> DEFINE proposed == Materialise(ask[v].reply, ask[v].index, ask[v].tagged, contents)
    <2>1. proposed \in SUBSET Tracks
      BY <1>1, QuestionTyped, ProposalTyped
    <2>2. /\ at' = [at EXCEPT ![v] = "done"]
          /\ tracks' = [tracks EXCEPT ![v] = Settled(found[v], proposed)]
          /\ ask' = [ask EXCEPT ![v] = NoQuestion]
          /\ UNCHANGED <<listed, found>>
      BY <1>15 DEF Conclude, Moves
    <2> HIDE DEF proposed
    <2>3. Settled(found[v], proposed) \in SUBSET Tracks
      BY <1>7, <2>1, SettledTyped
    <2>4. QED
      BY <1>3, <1>4, <1>5, <1>6, <2>2, <2>3, NoQuestionTyped DEF LooksTyped
  <1>16. QED
    BY <1>8, <1>9, <1>10, <1>11, <1>12, <1>13, <1>14, <1>15 DEF Step, Reply

LEMMA LooksTypedHolds == DiscoverySpec => [](FolderTyped /\ LooksTyped)
  <1>1. DiscoveryInit => FolderTyped /\ LooksTyped
    <2> SUFFICES ASSUME DiscoveryInit PROVE FolderTyped /\ LooksTyped
      OBVIOUS
    <2>1. NoListing \in Listing /\ "idle" \in Places
      BY DEF NoListing, Listing, Places
    <2>2. LooksTyped
      BY <2>1, NoQuestionTyped DEF DiscoveryInit, LooksTyped
    <2>3. contents \subseteq Files
      BY DEF DiscoveryInit, Files
    <2>4. folderChanges \in 0..MaxFolderChanges
      BY BoundsAreNatural DEF DiscoveryInit
    <2>5. QED
      BY <2>2, <2>3, <2>4 DEF DiscoveryInit, FolderTyped
  <1>2. FolderTyped /\ LooksTyped /\ [DiscoveryNext]_discoveryVars => (FolderTyped /\ LooksTyped)'
    <2> SUFFICES ASSUME FolderTyped, LooksTyped, [DiscoveryNext]_discoveryVars
                 PROVE  FolderTyped' /\ LooksTyped'
      OBVIOUS
    <2>1. ASSUME NEW v \in Videos, Step(v) PROVE FolderTyped' /\ LooksTyped'
      <3>1. UNCHANGED <<contents, settings, folderChanges>>
        BY <2>1 DEF Step, Reply, List, Classify, BuildPrompt, Post, RejectFormat, ProviderFails,
                    Answer, Conclude
      <3>2. QED
        BY <2>1, <3>1, StepsKeepTypes DEF FolderTyped
    <2>2. ASSUME NEW f \in Files, Leaves(f) \/ Arrives(f) PROVE FolderTyped' /\ LooksTyped'
      <3>1. LooksTyped'
        BY <2>2 DEF Leaves, Arrives, discovery, LooksTyped
      <3>2. contents' \subseteq Files /\ settings' \in Settings
        BY <2>2 DEF Leaves, Arrives, FolderTyped
      <3>3. folderChanges' \in 0..MaxFolderChanges
        BY <2>2, BoundsAreNatural DEF Leaves, Arrives, FolderTyped
      <3>4. QED
        BY <3>1, <3>2, <3>3 DEF FolderTyped
    <2>3. CASE UNCHANGED discoveryVars
      BY <2>3 DEF discoveryVars, discovery, FolderTyped, LooksTyped
    <2>4. QED
      BY <2>1, <2>2, <2>3 DEF DiscoveryNext
  <1>3. QED
    BY <1>1, <1>2, PTL DEF DiscoverySpec

(* Every track is of a file that the folder held, has a known language and *)
(* a source, whatever the provider replies and however the folder changes. *)
THEOREM DiscoveryTypeCorrect == DiscoverySpec => []DiscoveryTypeOK
  BY LooksTypedHolds, TypedForms, PTL

-----------------------------------------------------------------------------
(* Two imports from one folder. *)

(* The videos that are, or were, in the folder. *)
Passed(v) == v \in contents \/ at[v] # "idle"

(* A video that takes, or may still take, what no name gives it. *)
Sole(v) ==
    \/ at[v] = "listed" /\ listed[v].candidates # {} /\ Cardinality(listed[v].videos) <= 1
    \/ \E t \in found[v] : ~ MeantFor(t.path, v)

OneFilm ==
    \A v, w \in Videos : v # w /\ Passed(v) /\ Passed(w) => EpisodeOf[v] # NoEpisode

(* Whoever is sole saw no other video, so the others had gone. *)
SoleInv ==
    \A v, w \in Videos :
        /\ v # w /\ EpisodeOf[v] # NoEpisode /\ EpisodeOf[w] # NoEpisode
        /\ Sole(v)
        => w \notin contents /\ ~ Sole(w)

(* What the names give is found, and is meant for the video or for nobody. *)
NamesInv ==
    \A v \in Videos :
        /\ at[v] \in {"idle", "listed"} => found[v] = {}
        /\ \A t \in ByName(v) : \E u \in found[v] : u.path = t.path
        /\ \A t \in found[v] :
              \/ EpisodeOf[v] = NoEpisode
              \/ MeantFor(t.path, v)
              \/ ParseEpisodeMarker(Path(t.path)) = NoEpisode

SharingInv == OneFilm /\ SoleInv /\ NamesInv

(* A listing with at most one video holds no video beside the listed one. *)
LEMMA SoleListing ==
    ASSUME CompleteRelease, NEW v \in Videos, NEW w \in Videos, v # w,
           NEW present \in SUBSET Files, v \in present, w \in present,
           ReleaseFolder(v, present).candidates # {}
    PROVE  ~ (Cardinality(ReleaseFolder(v, present).videos) <= 1)
  <1> DEFINE videos == ReleaseFolder(v, present).videos
  <1>1. v \in IndexCandidates(present) /\ w \in IndexCandidates(present)
    <2>1. \A f \in Videos : f \in present => Len(f.folder) <= MaxScanDepth /\ Range(f.folder) = {}
      <3> TAKE f \in Videos
      <3>1. Len(f.folder) = 0 /\ f.folder = << >>
        BY DEF CompleteRelease
      <3>2. Range(f.folder) = {}
        BY <3>1 DEF Range
      <3>3. QED
        BY <3>1, <3>2 DEF MaxScanDepth
    <2>2. QED
      BY <2>1 DEF IndexCandidates
  <1>2. videos = {f \in IndexCandidates(present) : f.folder = << >> /\ IsVideo(f)}
    BY DEF ReleaseFolder
  <1>3. v \in videos /\ w \in videos
    BY <1>1, <1>2 DEF CompleteRelease
  <1>4. IsFiniteSet(videos)
    <2>1. videos \subseteq Files
      BY <1>2 DEF IndexCandidates
    <2>2. IsFiniteSet(Files)
      BY DiscoveryAssumption, Zenon DEF DiscoveryAssumption
    <2>3. QED
      BY <2>1, <2>2, FS_Subset
  <1>5. Cardinality({v, w}) = 2
    <2>1. IsFiniteSet({v}) /\ Cardinality({v}) = 1
      BY FS_Singleton
    <2>2. w \notin {v} /\ {v, w} = {v} \cup {w}
      OBVIOUS
    <2>3. Cardinality({v} \cup {w}) = Cardinality({v}) + 1
      BY <2>1, <2>2, FS_AddElement, Zenon
    <2>4. QED
      BY <2>1, <2>2, <2>3
  <1>6. Cardinality({v, w}) <= Cardinality(videos) /\ Cardinality(videos) \in Nat
    <2>1. {v, w} \subseteq videos
      BY <1>3
    <2>2. QED
      BY <1>4, <2>1, FS_Subset, FS_CardinalityType
  <1> HIDE DEF videos
  <1>7. QED
    BY <1>5, <1>6 DEF videos

(* The names give a video what is meant for it, or what is meant for nobody *)
(* while it is alone.                                                      *)
LEMMA NamesAreMeant ==
    ASSUME NEW v \in Videos, NEW release, NEW present,
           NEW t \in HeuristicTracks(v, release, present)
    PROVE  /\ t.path \in release.candidates
           /\ \/ EpisodeOf[v] = NoEpisode
              \/ MeantFor(t.path, v)
              \/ /\ ParseEpisodeMarker(Path(t.path)) = NoEpisode
                 /\ Cardinality(release.videos) <= 1
  <1>1. PICK f \in release.candidates \ {v} :
           /\ t = ToExternalTrack(v, f, present)
           /\ BelongsTo(Path(f), EpisodeOf[v], Cardinality(release.videos))
    BY DEF HeuristicTracks
  <1>2. t.path = f
    BY <1>1 DEF ToExternalTrack, Track
  <1>3. QED
    BY <1>1, <1>2 DEF BelongsTo, MeantFor

(* The provider adds nothing to what the names give. *)
LEMMA SettledAddsNoName ==
    ASSUME NEW names, NEW reply, NEW index, NEW tagged, NEW present,
           NEW t \in Settled(names, Materialise(reply, index, tagged, present)), t.source # "ai"
    PROVE  \E u \in names : u.path = t.path
  <1> DEFINE proposed == Materialise(reply, index, tagged, present)
  <1>1. \A p \in proposed : p.source = "ai"
    <2>1. \A item : ToTrack(item, tagged).source = "ai"
      BY DEF ToTrack, Track
    <2>2. \A p \in proposed : \E i \in DOMAIN reply : p = ToTrack(reply[i], tagged)
      BY DEF Materialise
    <2>3. QED
      BY <2>1, <2>2
  <1> HIDE DEF proposed
  <1>2. \A r \in Renamed(names, proposed) : \E u \in names : u.path = r.path
    BY DEF Renamed, Titled
  <1>3. t \in Settled(names, proposed)
    BY DEF proposed
  <1>4. QED
    BY <1>1, <1>2, <1>3 DEF Settled

(* What the steps after Classify leave behind. *)
LEMMA AskingKeepsSharing ==
    ASSUME LooksTyped, SharingInv, NEW v \in Videos, NEW to,
           at[v] \notin {"idle", "listed"}, to \notin {"idle", "listed"},
           at' = [at EXCEPT ![v] = to], UNCHANGED <<contents, listed, found>>,
           \A w \in Videos : w # v => tracks'[w] = tracks[w],
           \A t \in tracks'[v] : t.source # "ai" => \E u \in found[v] : u.path = t.path
    PROVE  SharingInv'
  <1>1. /\ at'[v] = to
        /\ \A w \in Videos : w # v => at'[w] = at[w]
    BY DEF LooksTyped
  <1>2. \A w \in Videos : Passed(w)' => Passed(w)
    BY <1>1 DEF Passed
  <1>3. \A w \in Videos : Sole(w)' => Sole(w)
    BY <1>1 DEF Sole, MeantFor
  <1>4. OneFilm'
    BY <1>2 DEF SharingInv, OneFilm
  <1>5. SoleInv'
    BY <1>3 DEF SharingInv, SoleInv
  <1>6. NamesInv'
    BY <1>1 DEF SharingInv, NamesInv, ByName, MeantFor
  <1>7. QED
    BY <1>4, <1>5, <1>6 DEF SharingInv

LEMMA StepsKeepSharing ==
    ASSUME CompleteRelease, FolderTyped, LooksTyped, SharingInv, NEW v \in Videos, Step(v)
    PROVE  SharingInv'
  <1>1. contents \in SUBSET Files
    BY DEF FolderTyped
  <1>2. CASE List(v)
    <2> DEFINE release == ReleaseFolder(v, contents)
    <2>1. /\ v \in contents /\ at[v] = "idle" /\ at' = [at EXCEPT ![v] = "listed"]
          /\ listed' = [listed EXCEPT ![v] = release]
          /\ UNCHANGED <<contents, found, tracks>>
      BY <1>2 DEF List, Moves
    <2>2. /\ at'[v] = "listed" /\ listed'[v] = release
          /\ \A w \in Videos : w # v => at'[w] = at[w] /\ listed'[w] = listed[w]
      BY <2>1 DEF LooksTyped
    <2>3. \A w \in Videos : v # w /\ release.candidates # {} /\ Cardinality(release.videos) <= 1
                            => w \notin contents
      BY <1>1, <2>1, SoleListing
    <2> HIDE DEF release
    <2>4. \A w \in Videos : Passed(w)' => Passed(w)
      BY <2>1, <2>2 DEF Passed
    <2>5. OneFilm'
      BY <2>4 DEF SharingInv, OneFilm
    <2>6. found[v] = {}
      BY <2>1 DEF SharingInv, NamesInv
    <2>7. /\ \A w \in Videos : w # v => (Sole(w)' <=> Sole(w))
          /\ Sole(v)' => release.candidates # {} /\ Cardinality(release.videos) <= 1
      BY <2>1, <2>2, <2>6 DEF Sole, MeantFor
    <2>8. SoleInv'
      BY <2>1, <2>3, <2>7 DEF SharingInv, SoleInv
    <2>9. NamesInv'
      BY <2>1, <2>2, <2>6 DEF SharingInv, NamesInv, ByName, MeantFor
    <2>10. QED
      BY <2>5, <2>8, <2>9 DEF SharingInv
  <1>3. CASE Classify(v)
    <2> DEFINE names == HeuristicTracks(v, listed[v], contents)
               to == IF ShouldConsult(names) THEN "consult" ELSE "done"
               result == IF ShouldConsult(names) THEN {} ELSE names
    <2>1. /\ at[v] = "listed" /\ at' = [at EXCEPT ![v] = to]
          /\ found' = [found EXCEPT ![v] = names]
          /\ tracks' = [tracks EXCEPT ![v] = result]
          /\ listed' = [listed EXCEPT ![v] = NoListing]
          /\ contents' = contents
      BY <1>3 DEF Classify, Moves
    <2>2. \A t \in names :
             /\ listed[v].candidates # {}
             /\ \/ EpisodeOf[v] = NoEpisode
                \/ MeantFor(t.path, v)
                \/ /\ ParseEpisodeMarker(Path(t.path)) = NoEpisode
                   /\ Cardinality(listed[v].videos) <= 1
      BY NamesAreMeant
    <2>3. to \in {"consult", "done"} /\ result \subseteq names
      OBVIOUS
    <2> HIDE DEF names, to, result
    <2>4. /\ at'[v] = to /\ found'[v] = names /\ tracks'[v] = result
          /\ \A w \in Videos : w # v => /\ at'[w] = at[w] /\ listed'[w] = listed[w]
                                        /\ found'[w] = found[w] /\ tracks'[w] = tracks[w]
      BY <2>1 DEF LooksTyped
    <2>5. \A w \in Videos : Passed(w)' => Passed(w)
      BY <2>1, <2>4 DEF Passed
    <2>6. OneFilm'
      BY <2>5 DEF SharingInv, OneFilm
    <2>7. /\ \A w \in Videos : w # v => (Sole(w)' <=> Sole(w))
          /\ EpisodeOf[v] # NoEpisode => (Sole(v)' => Sole(v))
      BY <2>1, <2>2, <2>3, <2>4 DEF Sole, MeantFor
    <2>8. SoleInv'
      BY <2>1, <2>7 DEF SharingInv, SoleInv
    <2>9. NamesInv'
      BY <2>2, <2>3, <2>4 DEF SharingInv, NamesInv, ByName, MeantFor
    <2>10. QED
      BY <2>6, <2>8, <2>9 DEF SharingInv
  <1>4. CASE BuildPrompt(v)
    <2>1. PICK to \in {"done", "asking"}, result \in {found[v], {}} :
             /\ at' = [at EXCEPT ![v] = to] /\ tracks' = [tracks EXCEPT ![v] = result]
      BY <1>4 DEF BuildPrompt, Moves
    <2>2. at[v] = "consult" /\ UNCHANGED <<contents, listed, found>>
      BY <1>4 DEF BuildPrompt, Moves
    <2>3. /\ tracks'[v] = result
          /\ \A w \in Videos : w # v => tracks'[w] = tracks[w]
      BY <2>1 DEF LooksTyped
    <2>4. QED
      BY <2>1, <2>2, <2>3, AskingKeepsSharing
  <1>5. CASE Post(v) \/ RejectFormat(v) \/ Answer(v)
    <2>1. PICK to \in {"sent", "asking", "answered"} : at' = [at EXCEPT ![v] = to]
      BY <1>5 DEF Post, RejectFormat, Answer, Moves
    <2>2. at[v] \in {"asking", "sent"} /\ UNCHANGED <<contents, listed, found, tracks>>
      BY <1>5 DEF Post, RejectFormat, Answer, Moves
    <2>3. \A t \in tracks'[v] : t.source # "ai" => \E u \in found[v] : u.path = t.path
      BY <2>2 DEF SharingInv, NamesInv, ByName
    <2>4. QED
      BY <2>1, <2>2, <2>3, AskingKeepsSharing
  <1>6. CASE ProviderFails(v) \/ Conclude(v)
    <2>1. /\ at' = [at EXCEPT ![v] = "done"]
          /\ at[v] \in {"sent", "answered"} /\ UNCHANGED <<contents, listed, found>>
      BY <1>6 DEF ProviderFails, Conclude, Moves
    <2>2. PICK result : /\ tracks' = [tracks EXCEPT ![v] = result]
                        /\ \A t \in result : t.source # "ai" => \E u \in found[v] : u.path = t.path
      <3>1. CASE ProviderFails(v)
        <4>1. tracks' = [tracks EXCEPT ![v] = found[v]]
          BY <3>1 DEF ProviderFails
        <4>2. QED
          BY <4>1
      <3>2. CASE Conclude(v)
        <4> DEFINE given == Settled(found[v], Materialise(ask[v].reply, ask[v].index,
                                                         ask[v].tagged, contents))
        <4>1. tracks' = [tracks EXCEPT ![v] = given]
          BY <3>2 DEF Conclude
        <4>2. \A t \in given : t.source # "ai" => \E u \in found[v] : u.path = t.path
          BY SettledAddsNoName
        <4> HIDE DEF given
        <4>3. QED
          BY <4>1, <4>2
      <3>3. QED
        BY <1>6, <3>1, <3>2
    <2>3. /\ tracks'[v] = result
          /\ \A w \in Videos : w # v => tracks'[w] = tracks[w]
      BY <2>2 DEF LooksTyped
    <2>4. QED
      BY <2>1, <2>2, <2>3, AskingKeepsSharing
  <1>7. QED
    BY <1>2, <1>3, <1>4, <1>5, <1>6 DEF Step, Reply

(* No sidecar is muxed into two videos on the strength of its name, unless *)
(* the name says so, however the imports interleave and whatever leaves    *)
(* the folder meanwhile (belongs_to, against the count of one listing).    *)
THEOREM SidecarsAreNotShared == ASSUME CompleteRelease PROVE DiscoverySpec => []NotShared
  <1>1. DiscoveryInit => SharingInv
    <2> SUFFICES ASSUME DiscoveryInit PROVE SharingInv
      OBVIOUS
    <2>1. \A v \in Videos : at[v] = "idle" /\ found[v] = {} /\ tracks[v] = {}
      BY DEF DiscoveryInit
    <2>2. contents \in Layouts
      BY DEF DiscoveryInit
    <2>3. OneFilm
      BY <2>1, <2>2 DEF OneFilm, Passed, CompleteRelease
    <2>4. SoleInv
      BY <2>1 DEF SoleInv, Sole
    <2>5. NamesInv
      BY <2>1 DEF NamesInv, ByName
    <2>6. QED
      BY <2>3, <2>4, <2>5 DEF SharingInv
  <1>2. FolderTyped /\ LooksTyped /\ SharingInv /\ [DiscoveryNext]_discoveryVars => SharingInv'
    <2> SUFFICES ASSUME FolderTyped, LooksTyped, SharingInv, [DiscoveryNext]_discoveryVars
                 PROVE  SharingInv'
      OBVIOUS
    <2>1. ASSUME NEW v \in Videos, Step(v) PROVE SharingInv'
      BY <2>1, StepsKeepSharing
    <2>2. ASSUME UNCHANGED discovery, \A v \in Videos : v \in contents' => v \in contents
          PROVE  SharingInv'
      <3>1. UNCHANGED <<at, listed, found, tracks>>
        BY <2>2 DEF discovery
      <3>2. \A v \in Videos : /\ Passed(v)' => Passed(v)
                              /\ Sole(v)' <=> Sole(v)
        BY <2>2, <3>1 DEF Passed, Sole, MeantFor
      <3>3. OneFilm'
        BY <3>2 DEF SharingInv, OneFilm
      <3>4. SoleInv'
        BY <2>2, <3>2 DEF SharingInv, SoleInv
      <3>5. NamesInv'
        BY <3>1 DEF SharingInv, NamesInv, ByName, MeantFor
      <3>6. QED
        BY <3>3, <3>4, <3>5 DEF SharingInv
    <2>3. ASSUME NEW f \in Files, Leaves(f) \/ Arrives(f) PROVE SharingInv'
      <3>1. UNCHANGED discovery
        BY <2>3 DEF Leaves, Arrives
      <3>2. \A v \in Videos : v \in contents' => v \in contents
        BY <2>3 DEF Leaves, Arrives, CompleteRelease
      <3>3. QED
        BY <2>2, <3>1, <3>2
    <2>4. CASE UNCHANGED discoveryVars
      BY <2>2, <2>4 DEF discoveryVars
    <2>5. QED
      BY <2>1, <2>3, <2>4 DEF DiscoveryNext
  <1>3. SharingInv => NotShared
    <2> SUFFICES ASSUME SharingInv, NEW v \in Videos, NEW w \in Videos, v # w,
                        NEW t \in ByName(v), NEW u \in ByName(w), t.path = u.path
                 PROVE  MeantFor(t.path, v) /\ MeantFor(t.path, w)
      BY DEF NotShared
    <2>1. PICK a \in found[v], b \in found[w] : a.path = t.path /\ b.path = t.path
      BY DEF SharingInv, NamesInv
    <2>2. Passed(v) /\ Passed(w)
      BY <2>1 DEF SharingInv, NamesInv, Passed
    <2>3. EpisodeOf[v] # NoEpisode /\ EpisodeOf[w] # NoEpisode
      BY <2>2 DEF SharingInv, OneFilm
    <2>4. ~ (Sole(v) /\ Sole(w))
      BY <2>3 DEF SharingInv, SoleInv
    <2>5. MeantFor(t.path, v) \/ MeantFor(t.path, w)
      BY <2>1, <2>4 DEF Sole
    <2>6. ParseEpisodeMarker(Path(t.path)) # NoEpisode
      BY <2>5 DEF MeantFor, NoEpisode
    <2>7. QED
      BY <2>1, <2>3, <2>6 DEF SharingInv, NamesInv
  <1>4. QED
    BY <1>1, <1>2, <1>3, LooksTypedHolds, PTL DEF DiscoverySpec

-----------------------------------------------------------------------------
(* A provider that shrugs. *)

(* The folder never holds more than one of the layouts and what arrives,   *)
(* nor less than what does not leave, and the videos that are listed are   *)
(* among that.                                                             *)
Within(held) ==
    /\ held \ Leaving \subseteq contents
    /\ contents \subseteq held \cup Arriving
    /\ \A v \in Videos : at[v] # "idle" => v \in held \cup Arriving

WithinInv == \E held \in Layouts : Within(held)

LEMMA StepsStayWithin ==
    ASSUME WithinInv, LooksTyped, NEW v \in Videos, contents' = contents,
           at[v] # "idle" \/ v \in contents, NEW to, at' = [at EXCEPT ![v] = to]
    PROVE  WithinInv'
  <1>1. PICK held \in Layouts : Within(held)
    BY DEF WithinInv
  <1>2. \A w \in Videos : at'[w] # "idle" => w \in held \cup Arriving
    BY <1>1 DEF LooksTyped, Within
  <1>3. QED
    BY <1>1, <1>2 DEF Within, WithinInv

LEMMA ChangesStayWithin ==
    ASSUME WithinInv, at' = at, contents' \subseteq contents \cup Arriving,
           contents \ Leaving \subseteq contents'
    PROVE  WithinInv'
  BY DEF WithinInv, Within

(* The question tells the provider all that the video's own files declare. *)
AskInv ==
    \A v \in Videos :
        /\ \A f \in ask[v].index : Owns(v, f) /\ Declared(f) # Undetermined
                                      => f \in DOMAIN ask[v].tagged
        /\ \A f \in DOMAIN ask[v].tagged : ask[v].tagged[f] # Undetermined

KeepsTags(v, chosen) ==
    \A t \in chosen : t.source = "ai" /\ Owns(v, t.path) /\ Declared(t.path) # Undetermined
                         => t.language # Undetermined

FoundByName == \A v \in Videos : \A t \in found[v] : t.source # "ai"

TagsInv == WithinInv /\ AskInv /\ FoundByName /\ TagsSurviveShrug

(* The video's own files come first and there is room for all of them. *)
LEMMA OwnAreDescribed ==
    ASSUME AllOwnDescribed, FolderTyped, WithinInv, NEW v \in Videos, at[v] # "idle",
           NEW videos,
           NEW index \in SUBSET IndexCandidates(contents),
           \A f \in index : Embeddable(f, contents),
           NEW described \in WorthDescribing(v, index, videos),
           NEW f \in index, Owns(v, f)
    PROVE  f \in described
  <1> DEFINE own == {g \in index : BelongsTo(Path(g), EpisodeOf[v], videos)}
  <1>1. f \in own
    BY DEF Owns, BelongsTo
  <1>2. /\ described \in SUBSET index
        /\ Cardinality(described) = Min({MaxDescribed, Cardinality(index)})
        /\ own \subseteq described \/ described \subseteq own
    BY DEF WorthDescribing
  <1>3. PICK held \in Layouts : contents \subseteq held \cup Arriving /\ v \in held \cup Arriving
    BY DEF WithinInv, Within
  <1> DEFINE all == held \cup Arriving
             may == {g \in IndexCandidates(all) : /\ Embeddable(g, all)
                                                  /\ BelongsTo(Path(g), EpisodeOf[v], 1)}
  <1>4. Cardinality(may) <= MaxDescribed
    BY <1>3 DEF AllOwnDescribed
  <1>5. own \subseteq may
    <2>1. \A g \in index : g \in IndexCandidates(all)
      BY <1>3 DEF IndexCandidates
    <2>2. \A g \in index : Embeddable(g, all)
      BY <1>3 DEF Embeddable
    <2>3. \A g \in own : BelongsTo(Path(g), EpisodeOf[v], 1)
      BY DEF BelongsTo
    <2>4. QED
      BY <2>1, <2>2, <2>3
  <1>6. IsFiniteSet(may) /\ IsFiniteSet(index)
    <2>1. IsFiniteSet(Files)
      BY DiscoveryAssumption, Zenon DEF DiscoveryAssumption
    <2>2. all \subseteq Files
      BY <1>3 DEF Files
    <2>3. contents \subseteq Files
      BY DEF FolderTyped
    <2> HIDE DEF all
    <2>4. may \subseteq Files /\ index \subseteq Files
      BY <2>2, <2>3 DEF IndexCandidates
    <2> HIDE DEF may
    <2>5. QED
      BY <2>1, <2>4, FS_Subset
  <1> HIDE DEF may, own
  <1>7. /\ IsFiniteSet(own) /\ Cardinality(own) <= Cardinality(may)
        /\ Cardinality(own) \in Nat /\ Cardinality(may) \in Nat
    BY <1>5, <1>6, FS_Subset, FS_CardinalityType
  <1>8. own \subseteq index
    BY DEF own
  <1>9. Cardinality(own) <= Cardinality(index) /\ Cardinality(index) \in Nat
    BY <1>6, <1>8, FS_Subset, FS_CardinalityType
  <1>10. MaxDescribed \in Nat
    BY DiscoveryAssumption, Zenon DEF DiscoveryAssumption
  <1>11. Cardinality(described) \in {MaxDescribed, Cardinality(index)}
    <2>1. {MaxDescribed, Cardinality(index)} \in SUBSET Nat
      BY <1>9, <1>10
    <2>2. QED
      BY <1>2, <2>1, MinOf
  <1>12. Cardinality(own) <= Cardinality(described)
    BY <1>4, <1>7, <1>9, <1>10, <1>11
  <1>13. CASE described \subseteq own
    <2>1. Cardinality(described) <= Cardinality(own)
      BY <1>7, <1>13, FS_Subset
    <2>2. Cardinality(described) = Cardinality(own)
      BY <1>7, <1>9, <1>10, <1>11, <1>12, <2>1
    <2>3. described = own
      BY <1>7, <1>13, <2>2, FS_Subset
    <2>4. QED
      BY <1>1, <2>3
  <1>14. QED
    BY <1>1, <1>2, <1>13

(* A shrug is answered with what the question told. *)
LEMMA ShrugKeepsTags ==
    ASSUME NEW v \in Videos, NEW reply, NEW index, NEW tagged, NEW present,
           \A f \in index : Owns(v, f) /\ Declared(f) # Undetermined => f \in DOMAIN tagged,
           \A f \in DOMAIN tagged : tagged[f] # Undetermined
    PROVE  KeepsTags(v, Materialise(reply, index, tagged, present))
  <1>1. \A item : /\ ToTrack(item, tagged).path = item.file
                  /\ item.file \in DOMAIN tagged => ToTrack(item, tagged).language # Undetermined
    BY DEF ToTrack, Track
  <1>2. \A t \in Materialise(reply, index, tagged, present) :
           \E i \in DOMAIN reply : reply[i].file \in index /\ t = ToTrack(reply[i], tagged)
    BY DEF Materialise
  <1>3. QED
    BY <1>1, <1>2 DEF KeepsTags

LEMMA SettledKeepsTags ==
    ASSUME NEW v, NEW names, NEW proposed, KeepsTags(v, proposed),
           \A t \in names : t.source # "ai"
    PROVE  KeepsTags(v, Settled(names, proposed))
  <1>1. \A r \in Renamed(names, proposed) : r.source # "ai"
    BY DEF Renamed, Titled
  <1>2. QED
    BY <1>1 DEF Settled, KeepsTags

(* What a step must leave behind for its own import. *)
LEMMA StepKeepsTags ==
    ASSUME LooksTyped, TagsInv, NEW v \in Videos, contents' = contents,
           at[v] # "idle" \/ v \in contents,
           NEW to, at' = [at EXCEPT ![v] = to],
           NEW names, found' = [found EXCEPT ![v] = names],
           NEW result, tracks' = [tracks EXCEPT ![v] = result],
           NEW question, ask' = [ask EXCEPT ![v] = question],
           \A t \in names : t.source # "ai",
           KeepsTags(v, result),
           \A f \in question.index : Owns(v, f) /\ Declared(f) # Undetermined
                                        => f \in DOMAIN question.tagged,
           \A f \in DOMAIN question.tagged : question.tagged[f] # Undetermined
    PROVE  TagsInv'
  <1>1. /\ at'[v] = to /\ found'[v] = names /\ tracks'[v] = result /\ ask'[v] = question
        /\ \A w \in Videos : w # v => /\ at'[w] = at[w] /\ found'[w] = found[w]
                                      /\ tracks'[w] = tracks[w] /\ ask'[w] = ask[w]
    BY DEF LooksTyped
  <1>2. WithinInv'
    BY StepsStayWithin DEF TagsInv
  <1>3. AskInv'
    BY <1>1 DEF TagsInv, AskInv, Owns, Declared
  <1>4. FoundByName'
    BY <1>1 DEF TagsInv, FoundByName
  <1>5. TagsSurviveShrug'
    BY <1>1 DEF TagsInv, TagsSurviveShrug, KeepsTags, Owns, Declared
  <1>6. QED
    BY <1>2, <1>3, <1>4, <1>5 DEF TagsInv

LEMMA StepsKeepTags ==
    ASSUME AllOwnDescribed, FolderTyped, LooksTyped, TagsInv, NEW v \in Videos, Step(v)
    PROVE  TagsInv'
  <1>1. /\ found = [found EXCEPT ![v] = found[v]]
        /\ tracks = [tracks EXCEPT ![v] = tracks[v]]
        /\ ask = [ask EXCEPT ![v] = ask[v]]
    BY DEF LooksTyped
  <1>2. /\ \A t \in found[v] : t.source # "ai"
        /\ KeepsTags(v, found[v]) /\ KeepsTags(v, tracks[v]) /\ KeepsTags(v, {})
    BY DEF TagsInv, FoundByName, TagsSurviveShrug, KeepsTags
  <1>3. /\ \A f \in ask[v].index : Owns(v, f) /\ Declared(f) # Undetermined
                                      => f \in DOMAIN ask[v].tagged
        /\ \A f \in DOMAIN ask[v].tagged : ask[v].tagged[f] # Undetermined
    BY DEF TagsInv, AskInv
  <1>4. NoQuestion.index = {} /\ DOMAIN NoQuestion.tagged = {}
    BY DEF NoQuestion, NoTags
  <1>5. CASE List(v)
    <2>1. /\ at' = [at EXCEPT ![v] = "listed"] /\ v \in contents
          /\ UNCHANGED <<contents, found, tracks, ask>>
      BY <1>5 DEF List, Moves
    <2>2. QED
      BY <1>1, <1>2, <1>3, <2>1, StepKeepsTags
  <1>6. CASE Classify(v)
    <2> DEFINE names == HeuristicTracks(v, listed[v], contents)
               to == IF ShouldConsult(names) THEN "consult" ELSE "done"
               result == IF ShouldConsult(names) THEN {} ELSE names
    <2>1. \A t \in names : t.source # "ai"
      <3>1. \A f : ToExternalTrack(v, f, contents).source # "ai"
        BY DEF ToExternalTrack, Track
      <3>2. QED
        BY <3>1 DEF HeuristicTracks
    <2>2. /\ at[v] = "listed" /\ at' = [at EXCEPT ![v] = to]
          /\ found' = [found EXCEPT ![v] = names]
          /\ tracks' = [tracks EXCEPT ![v] = result]
          /\ UNCHANGED <<contents, ask>>
      BY <1>6 DEF Classify, Moves
    <2>3. result \subseteq names
      OBVIOUS
    <2> HIDE DEF names, to, result
    <2>4. KeepsTags(v, result)
      BY <2>1, <2>3 DEF KeepsTags
    <2>5. QED
      BY <1>1, <1>3, <2>1, <2>2, <2>4, StepKeepsTags
  <1>7. CASE BuildPrompt(v)
    <2> DEFINE release == ReleaseFolder(v, contents)
               index == {f \in release.candidates \ {v} : Embeddable(f, contents)}
               nothing == index = {} \/ Cardinality(index) > MaxEntries
               worth == WorthDescribing(v, index, Cardinality(release.videos))
               declared(d) == {f \in d : EmbeddedLanguage(f, contents) # Undetermined}
               tags(d) == [f \in declared(d) |-> EmbeddedLanguage(f, contents)]
               question(d) == [index |-> index, tagged |-> tags(d),
                               format |-> TRUE, reply |-> << >>]
               to == IF nothing THEN "done" ELSE "asking"
               result == IF nothing THEN found[v] ELSE {}
    <2>1. /\ at[v] = "consult" /\ at' = [at EXCEPT ![v] = to]
          /\ tracks' = [tracks EXCEPT ![v] = result]
          /\ UNCHANGED <<contents, found>>
      BY <1>7 DEF BuildPrompt, Moves
    <2>2. \/ ask' = ask
          \/ \E d \in worth : ask' = [ask EXCEPT ![v] = question(d)]
      BY <1>7 DEF BuildPrompt
    <2>3. KeepsTags(v, result)
      BY <1>2
    <2>4. index \in SUBSET IndexCandidates(contents) /\ \A f \in index : Embeddable(f, contents)
      BY DEF ReleaseFolder
    <2>5. worth = WorthDescribing(v, index, Cardinality(release.videos))
      OBVIOUS
    <2> HIDE DEF index, nothing, worth, to, result
    <2>6. CASE ask' = ask
      BY <1>1, <1>2, <1>3, <2>1, <2>3, <2>6, StepKeepsTags
    <2>7. ASSUME NEW d \in worth, ask' = [ask EXCEPT ![v] = question(d)] PROVE TagsInv'
      <3>1. \A f \in index : Owns(v, f) => f \in d
        BY <2>1, <2>4, <2>5, OwnAreDescribed DEF TagsInv
      <3>2. \A f \in index : EmbeddedLanguage(f, contents) = Declared(f)
        BY <2>4 DEF EmbeddedLanguage, Declared, IndexCandidates
      <3>3. /\ DOMAIN tags(d) = declared(d)
            /\ \A f \in declared(d) : tags(d)[f] # Undetermined
        OBVIOUS
      <3>4. \A f \in index : Owns(v, f) /\ Declared(f) # Undetermined => f \in declared(d)
        BY <3>1, <3>2
      <3> HIDE DEF tags, declared
      <3>5. question(d).index = index /\ question(d).tagged = tags(d)
        OBVIOUS
      <3>6. ask' = [ask EXCEPT ![v] = question(d)]
        BY <2>7
      <3> HIDE DEF question
      <3>7. /\ \A f \in question(d).index : Owns(v, f) /\ Declared(f) # Undetermined
                                             => f \in DOMAIN question(d).tagged
            /\ \A f \in DOMAIN question(d).tagged : question(d).tagged[f] # Undetermined
        BY <3>3, <3>4, <3>5
      <3>8. found' = [found EXCEPT ![v] = found[v]]
        BY <1>1, <2>1
      <3>9. QED
        BY <1>2, <2>1, <2>3, <3>6, <3>7, <3>8, StepKeepsTags
    <2>8. QED
      BY <2>2, <2>6, <2>7
  <1>8. CASE Post(v)
    <2>1. /\ at[v] = "asking" /\ at' = [at EXCEPT ![v] = "sent"]
          /\ UNCHANGED <<contents, found, tracks, ask>>
      BY <1>8 DEF Post, Moves
    <2>2. QED
      BY <1>1, <1>2, <1>3, <2>1, StepKeepsTags
  <1>9. CASE RejectFormat(v) \/ Answer(v)
    <2>1. PICK to \in {"asking", "answered"} : at' = [at EXCEPT ![v] = to]
      BY <1>9 DEF RejectFormat, Answer, Moves
    <2>2. at[v] = "sent" /\ UNCHANGED <<contents, found, tracks>>
      BY <1>9 DEF RejectFormat, Answer, Moves
    <2>3. PICK question : /\ ask' = [ask EXCEPT ![v] = question]
                          /\ question.index = ask[v].index /\ question.tagged = ask[v].tagged
      <3>1. ask[v] \in Question
        BY DEF LooksTyped
      <3>2. CASE RejectFormat(v)
        <4> DEFINE q == [ask[v] EXCEPT !.format = FALSE]
        <4>1. ask' = [ask EXCEPT ![v] = q]
          BY <3>2 DEF RejectFormat
        <4>2. q.index = ask[v].index /\ q.tagged = ask[v].tagged
          BY <3>1 DEF Question
        <4> HIDE DEF q
        <4>3. QED
          BY <4>1, <4>2
      <3>3. CASE Answer(v)
        <4>1. PICK reply : ask' = [ask EXCEPT ![v].reply = reply]
          BY <3>3 DEF Answer
        <4> DEFINE q == [ask[v] EXCEPT !.reply = reply]
        <4>2. ask' = [ask EXCEPT ![v] = q]
          BY <4>1
        <4>3. q.index = ask[v].index /\ q.tagged = ask[v].tagged
          BY <3>1 DEF Question
        <4> HIDE DEF q
        <4>4. QED
          BY <4>2, <4>3
      <3>4. QED
        BY <1>9, <3>2, <3>3
    <2>4. /\ \A f \in question.index : Owns(v, f) /\ Declared(f) # Undetermined
                                           => f \in DOMAIN question.tagged
          /\ \A f \in DOMAIN question.tagged : question.tagged[f] # Undetermined
      BY <1>3, <2>3
    <2>5. ask' = [ask EXCEPT ![v] = question]
      BY <2>3
    <2>6. /\ found' = [found EXCEPT ![v] = found[v]]
          /\ tracks' = [tracks EXCEPT ![v] = tracks[v]]
      BY <1>1, <2>2
    <2>7. QED
      BY <1>2, <2>1, <2>2, <2>4, <2>5, <2>6, StepKeepsTags
  <1>10. CASE ProviderFails(v)
    <2>1. /\ at[v] = "sent" /\ at' = [at EXCEPT ![v] = "done"]
          /\ tracks' = [tracks EXCEPT ![v] = found[v]]
          /\ ask' = [ask EXCEPT ![v] = NoQuestion]
          /\ UNCHANGED <<contents, found>>
      BY <1>10 DEF ProviderFails, Moves
    <2>2. QED
      BY <1>1, <1>2, <1>4, <2>1, StepKeepsTags
  <1>11. CASE Conclude(v)
    <2> DEFINE proposed == Materialise(ask[v].reply, ask[v].index, ask[v].tagged, contents)
    <2>1. /\ at[v] = "answered" /\ at' = [at EXCEPT ![v] = "done"]
          /\ tracks' = [tracks EXCEPT ![v] = Settled(found[v], proposed)]
          /\ ask' = [ask EXCEPT ![v] = NoQuestion]
          /\ UNCHANGED <<contents, found>>
      BY <1>11 DEF Conclude, Moves
    <2>2. KeepsTags(v, proposed)
      BY <1>3, ShrugKeepsTags
    <2> HIDE DEF proposed
    <2>3. KeepsTags(v, Settled(found[v], proposed))
      BY <1>2, <2>2, SettledKeepsTags
    <2>4. QED
      BY <1>1, <1>2, <1>4, <2>1, <2>3, StepKeepsTags
  <1>12. QED
    BY <1>5, <1>6, <1>7, <1>8, <1>9, <1>10, <1>11 DEF Step, Reply

(* A provider that does not know a language never hides the one in a       *)
(* file's own header (_to_track), if that file was the video's own: what   *)
(* _worth_describing leaves out is somebody else's.                        *)
THEOREM ShrugsHideNoTag == ASSUME AllOwnDescribed PROVE DiscoverySpec => []TagsSurviveShrug
  <1>1. DiscoveryInit => TagsInv
    <2> SUFFICES ASSUME DiscoveryInit PROVE TagsInv
      OBVIOUS
    <2>1. \A v \in Videos : /\ at[v] = "idle" /\ found[v] = {} /\ tracks[v] = {}
                            /\ ask[v].index = {} /\ DOMAIN ask[v].tagged = {}
      BY DEF DiscoveryInit, NoQuestion, NoTags
    <2>2. contents \in Layouts
      BY DEF DiscoveryInit
    <2>3. WithinInv
      BY <2>1, <2>2 DEF WithinInv, Within
    <2>4. QED
      BY <2>1, <2>3 DEF TagsInv, AskInv, FoundByName, TagsSurviveShrug
  <1>2. FolderTyped /\ LooksTyped /\ TagsInv /\ [DiscoveryNext]_discoveryVars => TagsInv'
    <2> SUFFICES ASSUME FolderTyped, LooksTyped, TagsInv, [DiscoveryNext]_discoveryVars
                 PROVE  TagsInv'
      OBVIOUS
    <2>1. ASSUME NEW v \in Videos, Step(v) PROVE TagsInv'
      BY <2>1, StepsKeepTags
    <2>2. ASSUME UNCHANGED discovery, contents' \subseteq contents \cup Arriving,
                 contents \ Leaving \subseteq contents'
          PROVE  TagsInv'
      <3>1. UNCHANGED <<at, found, ask, tracks>>
        BY <2>2 DEF discovery
      <3>2. WithinInv'
        BY <2>2, <3>1, ChangesStayWithin DEF TagsInv
      <3>3. AskInv' /\ FoundByName' /\ TagsSurviveShrug'
        BY <3>1 DEF TagsInv, AskInv, FoundByName, TagsSurviveShrug, Owns, Declared
      <3>4. QED
        BY <3>2, <3>3 DEF TagsInv
    <2>3. ASSUME NEW f \in Files, Leaves(f) \/ Arrives(f) PROVE TagsInv'
      BY <2>2, <2>3 DEF Leaves, Arrives
    <2>4. CASE UNCHANGED discoveryVars
      BY <2>2, <2>4 DEF discoveryVars
    <2>5. QED
      BY <2>1, <2>3, <2>4 DEF DiscoveryNext
  <1>3. TagsInv => TagsSurviveShrug
    BY DEF TagsInv
  <1>4. QED
    BY <1>1, <1>2, <1>3, LooksTypedHolds, PTL DEF DiscoverySpec

-----------------------------------------------------------------------------
(* A folder shared with another download. *)

(* Nothing is listed, so nothing is found and nothing is asked. *)
NothingFor(v) ==
    /\ at[v] = "listed" => listed[v].candidates = {}
    /\ found[v] = {} /\ tracks[v] = {} /\ at[v] \notin {"asking", "sent", "answered"}

LEMMA StrangersHideAll ==
    ASSUME NEW v, NEW s, NEW present, s \in present, Stranger(v, s)
    PROVE  ReleaseFolder(v, present).candidates = {}
  <1>1. s \in IndexCandidates(present)
    BY DEF Stranger, IndexCandidates
  <1>2. QED
    BY <1>1 DEF ReleaseFolder, Stranger

(* Beside the video of another download, for as long as that stays, an     *)
(* import takes no sidecar at all: the names cannot claim one, and the     *)
(* provider is not asked (release_folder).                                 *)
THEOREM SharedFoldersYieldNothing ==
    ASSUME NEW v \in Videos, NEW s, Stranger(v, s), s \notin Leaving
    PROVE  s \in contents /\ DiscoverySpec => [](tracks[v] = {})
  <1> DEFINE Inv == s \in contents /\ NothingFor(v)
  <1>1. s \in contents /\ DiscoveryInit => Inv
    BY DEF DiscoveryInit, NothingFor
  <1>2. LooksTyped /\ Inv /\ [DiscoveryNext]_discoveryVars => Inv'
    <2> SUFFICES ASSUME LooksTyped, Inv, [DiscoveryNext]_discoveryVars PROVE Inv'
      OBVIOUS
    <2>1. ASSUME NEW w \in Videos, Step(w), w # v PROVE Inv'
      <3>1. /\ contents' = contents
            /\ at'[v] = at[v] /\ listed'[v] = listed[v]
            /\ found'[v] = found[v] /\ tracks'[v] = tracks[v]
        BY <2>1 DEF LooksTyped, Step, Reply, List, Classify, BuildPrompt, Post, RejectFormat,
                    ProviderFails, Answer, Conclude, Moves
      <3>2. QED
        BY <3>1 DEF NothingFor
    <2>2. CASE List(v)
      <3>1. /\ at'[v] = "listed" /\ listed'[v] = ReleaseFolder(v, contents)
            /\ UNCHANGED <<contents, found, tracks>>
        BY <2>2 DEF LooksTyped, List, Moves
      <3>2. QED
        BY <3>1, StrangersHideAll DEF NothingFor
    <2>3. CASE Classify(v)
      <3> DEFINE names == HeuristicTracks(v, listed[v], contents)
      <3>1. names = {}
        BY <2>3 DEF NothingFor, Classify, Moves, HeuristicTracks
      <3>2. /\ at' = [at EXCEPT ![v] = IF ShouldConsult(names) THEN "consult" ELSE "done"]
            /\ found' = [found EXCEPT ![v] = names]
            /\ tracks' = [tracks EXCEPT ![v] = IF ShouldConsult(names) THEN {} ELSE names]
            /\ contents' = contents
        BY <2>3 DEF Classify, Moves
      <3> HIDE DEF names
      <3>3. at'[v] \in {"consult", "done"} /\ found'[v] = {} /\ tracks'[v] = {}
        BY <3>1, <3>2 DEF LooksTyped
      <3>4. QED
        BY <3>2, <3>3 DEF NothingFor
    <2>4. CASE BuildPrompt(v)
      <3> DEFINE release == ReleaseFolder(v, contents)
                 index == {f \in release.candidates \ {v} : Embeddable(f, contents)}
                 nothing == index = {} \/ Cardinality(index) > MaxEntries
      <3>1. nothing
        BY StrangersHideAll
      <3>2. /\ at' = [at EXCEPT ![v] = IF nothing THEN "done" ELSE "asking"]
            /\ tracks' = [tracks EXCEPT ![v] = IF nothing THEN found[v] ELSE {}]
            /\ UNCHANGED <<contents, listed, found>>
        BY <2>4 DEF BuildPrompt, Moves
      <3> HIDE DEF nothing
      <3>3. at'[v] = "done" /\ tracks'[v] = found[v]
        BY <3>1, <3>2 DEF LooksTyped
      <3>4. QED
        BY <3>2, <3>3 DEF NothingFor
    <2>5. ~ (Post(v) \/ Reply(v) \/ Conclude(v))
      BY DEF NothingFor, Post, Reply, RejectFormat, ProviderFails, Answer, Conclude, Moves
    <2>6. ASSUME UNCHANGED discovery, s \in contents' PROVE Inv'
      BY <2>6 DEF discovery, NothingFor
    <2>7. ASSUME NEW f \in Files, Leaves(f) \/ Arrives(f) PROVE Inv'
      BY <2>6, <2>7 DEF Leaves, Arrives
    <2>8. CASE UNCHANGED discoveryVars
      BY <2>6, <2>8 DEF discoveryVars
    <2>9. QED
      BY <2>1, <2>2, <2>3, <2>4, <2>5, <2>7, <2>8 DEF DiscoveryNext, Step
  <1>3. Inv => tracks[v] = {}
    BY DEF NothingFor
  <1>4. QED
    BY <1>1, <1>2, <1>3, LooksTypedHolds, PTL DEF DiscoverySpec

-----------------------------------------------------------------------------
(* Whose files are taken, and in which language. *)

LEMMA LastWordCounts ==
    ASSUME NEW name \in Seq(STRING), NEW language \in Tongues
    PROVE  EndsWith(name, language) <=> RightmostLanguage(name) = language
  <1> DEFINE named == {i \in DOMAIN name : NamesLanguage(name[i])}
  <1>1. CASE named = {}
    <2>1. RightmostLanguage(name) # language
      BY <1>1 DEF RightmostLanguage, Tongues
    <2>2. ~ EndsWith(name, language)
      BY <1>1 DEF EndsWith
    <2>3. QED
      BY <2>1, <2>2
  <1>2. CASE named # {}
    <2>1. Len(name) \in Nat /\ DOMAIN name = 1..Len(name)
      OBVIOUS
    <2>2. Max(named) \in named /\ \A i \in named : i <= Max(named)
      BY <1>2, <2>1, MaxOf
    <2>3. RightmostLanguage(name) = Alias[name[Max(named)]]
      BY <1>2 DEF RightmostLanguage
    <2>4. EndsWith(name, language) <=>
             \E i \in named : Alias[name[i]] = language /\ \A k \in named : k <= i
      BY DEF EndsWith
    <2>5. ASSUME NEW i \in named, \A k \in named : k <= i PROVE i = Max(named)
      <3>1. i \in Nat /\ Max(named) \in Nat /\ Max(named) <= i /\ i <= Max(named)
        BY <2>1, <2>2, <2>5
      <3>2. QED
        BY <3>1
    <2> HIDE DEF named
    <2>6. QED
      BY <2>2, <2>3, <2>4, <2>5, Zenon
  <1>3. QED
    BY <1>1, <1>2

(* A language of a folder counts when nothing nearer names one. *)
LEMMA NamesTellTheTruth ==
    ASSUME NamesAreTrue, NEW v \in Videos, NEW f \in Files, Together(v, f),
           BelongsTo(Path(f), EpisodeOf[v], 1)
    PROVE  InferLanguage(NamesOf(v, f)) \in {Undetermined, Spoken[f]}
  <1> DEFINE names == NamesOf(v, f)
             told == {i \in DOMAIN names : RightmostLanguage(names[i]) # Undetermined}
  <1>1. names \in Seq(Seq(STRING))
    <2>1. f \in File /\ v \in File
      BY DiscoveryAssumption
    <2>2. f.stem \in Seq(STRING) /\ v.stem \in Seq(STRING) /\ f.folder \in Seq(Seq(STRING))
      BY <2>1 DEF File
    <2>3. StripVideoStem(f.stem, v.stem) \in Seq(STRING)
      BY <2>2, StripTyped
    <2>4. QED
      BY <2>2, <2>3 DEF NamesOf
  <1>2. ASSUME NEW n \in DOMAIN names, NEW language \in Tongues, EndsWith(names[n], language),
               \A k \in 1..(n-1), other \in Tongues : ~ EndsWith(names[k], other)
        PROVE  language = Spoken[f]
    BY <1>2 DEF NamesAreTrue
  <1>3. InferLanguage(names) = IF told = {} THEN Undetermined ELSE RightmostLanguage(names[Min(told)])
    BY DEF InferLanguage
  <1> HIDE DEF names
  <1>4. Len(names) \in Nat /\ DOMAIN names = 1..Len(names)
    BY <1>1
  <1>5. \A n \in DOMAIN names : names[n] \in Seq(STRING)
    BY <1>1
  <1>6. CASE told # {}
    <2>1. Min(told) \in told /\ \A n \in told : Min(told) <= n
      <3>1. told \in SUBSET Nat
        BY <1>4
      <3> HIDE DEF told
      <3>2. QED
        BY <1>6, <3>1, MinOf
    <2> DEFINE n == Min(told)
    <2> HIDE DEF n
    <2>2. n \in 1..Len(names) /\ \A k \in 1..(n-1) : k \in DOMAIN names /\ k \notin told
      <3>1. told \subseteq 1..Len(names)
        BY <1>4
      <3> HIDE DEF told
      <3>2. n \in 1..Len(names) /\ \A k \in told : n <= k
        BY <2>1, <3>1 DEF n
      <3>3. QED
        BY <1>4, <3>2
    <2>3. RightmostLanguage(names[n]) \in Tongues
      BY <1>4, <1>5, <2>1, LanguageTyped DEF Tongues, n
    <2>4. EndsWith(names[n], RightmostLanguage(names[n]))
      BY <1>4, <1>5, <2>2, <2>3, LastWordCounts
    <2>5. ASSUME NEW k \in 1..(n-1), NEW other \in Tongues
          PROVE  ~ EndsWith(names[k], other)
      <3>1. k \in DOMAIN names /\ RightmostLanguage(names[k]) = Undetermined
        BY <2>2
      <3>2. other # Undetermined
        BY DEF Tongues
      <3>3. QED
        BY <1>5, <3>1, <3>2, LastWordCounts
    <2>6. RightmostLanguage(names[n]) = Spoken[f]
      BY <1>2, <1>4, <2>2, <2>3, <2>4, <2>5
    <2>7. QED
      BY <1>3, <1>6, <2>6 DEF n, names
  <1>7. QED
    BY <1>3, <1>6 DEF names

Ours(v, f) == f \in Files /\ Together(v, f) /\ Release[f] = Release[v]

TrueTrack(v, t) ==
    /\ Release[t.path] = Release[v]
    /\ t.source # "ai" => t.language \in {Undetermined, Spoken[t.path]}

LEMMA EmbeddableIsSidecar == ASSUME NEW f, NEW present, Embeddable(f, present) PROVE IsSidecar(f)
  BY DEF Embeddable, IsSidecar, SubtitleExtensions

LEMMA NamedTracksAreTrue ==
    ASSUME NamesAreTrue, TagsAreTrue, NEW v \in Videos, NEW release, NEW present,
           \A f \in release.candidates : IsSidecar(f) => Ours(v, f),
           NEW t \in HeuristicTracks(v, release, present)
    PROVE  TrueTrack(v, t)
  <1>1. PICK f \in release.candidates :
           /\ t = ToExternalTrack(v, f, present) /\ Embeddable(f, present)
           /\ BelongsTo(Path(f), EpisodeOf[v], Cardinality(release.videos))
    BY DEF HeuristicTracks
  <1>2. Ours(v, f) /\ BelongsTo(Path(f), EpisodeOf[v], 1)
    BY <1>1, EmbeddableIsSidecar DEF BelongsTo
  <1> DEFINE attrs == Infer(f.stem, v.stem, f.folder)
             declared == EmbeddedLanguage(f, present)
             derived == BuildTitle(declared, attrs.forced, attrs.hearingImpaired,
                                   attrs.signs, attrs.variant)
  <1>3. attrs.language = InferLanguage(NamesOf(v, f))
    BY DEF Infer, NamesOf
  <1>4. attrs.language \in {Undetermined, Spoken[f]}
    BY <1>2, <1>3, NamesTellTheTruth DEF Ours
  <1>5. declared \in {Undetermined, Spoken[f]}
    <2>1. Declared(f) \in {Undetermined, Spoken[f]}
      BY <1>2 DEF TagsAreTrue, Ours
    <2>2. QED
      BY <2>1 DEF EmbeddedLanguage, Declared
  <1>6. \/ ToExternalTrack(v, f, present) =
                Track(f, attrs, attrs.language, attrs.title, "heuristic")
        \/ ToExternalTrack(v, f, present) = Track(f, attrs, declared, derived, "tags")
    BY Zenon DEF ToExternalTrack
  <1> HIDE DEF attrs, declared, derived
  <1>7. t.path = f /\ t.language \in {attrs.language, declared}
    BY <1>1, <1>6 DEF Track
  <1>8. QED
    BY <1>2, <1>4, <1>5, <1>7 DEF TrueTrack, Ours

(* A listing that another download's video does not empty is the release's. *)
LEMMA ListingIsOurs ==
    ASSUME StrangersAreSeen, FolderTyped, WithinInv, NEW v \in Videos,
           at[v] # "idle" \/ v \in contents,
           NEW f \in ReleaseFolder(v, contents).candidates, IsSidecar(f)
    PROVE  Ours(v, f)
  <1>1. PICK held \in Layouts : Within(held)
    BY DEF WithinInv
  <1>2. f \in contents
    BY DEF ReleaseFolder, IndexCandidates
  <1>3. {v, f} \subseteq held \cup Arriving /\ f \in Files
    BY <1>1, <1>2 DEF Within, FolderTyped
  <1>4. ~ \E s \in held \ Leaving : Stranger(v, s)
    BY <1>1, StrangersHideAll DEF Within
  <1>5. Release[f] = Release[v]
    BY <1>3, <1>4 DEF StrangersAreSeen
  <1>6. QED
    BY <1>3, <1>5 DEF Ours, Together

(* The provider can choose among the files that it was shown, and rename.  *)
LEMMA SettledIsTrue ==
    ASSUME NEW v, NEW names, \A t \in names : TrueTrack(v, t), NEW reply, NEW index,
           \A f \in index : Ours(v, f), NEW tagged, NEW present,
           NEW t \in Settled(names, Materialise(reply, index, tagged, present))
    PROVE  TrueTrack(v, t)
  <1> DEFINE proposed == Materialise(reply, index, tagged, present)
  <1>1. \A p \in proposed : TrueTrack(v, p)
    <2>1. \A item : ToTrack(item, tagged).path = item.file /\ ToTrack(item, tagged).source = "ai"
      BY DEF ToTrack, Track
    <2>2. \A p \in proposed :
             \E i \in DOMAIN reply : reply[i].file \in index /\ p = ToTrack(reply[i], tagged)
      BY DEF Materialise
    <2>3. QED
      BY <2>1, <2>2 DEF TrueTrack, Ours
  <1> HIDE DEF proposed
  <1>2. \A r \in Renamed(names, proposed) : TrueTrack(v, r)
    BY DEF Renamed, Titled, TrueTrack
  <1>3. t \in Settled(names, proposed)
    BY DEF proposed
  <1>4. QED
    BY <1>1, <1>2, <1>3 DEF Settled

(* What is listed, asked, found and taken is the video's own release's.     *)
TruthInv ==
    /\ WithinInv
    /\ \A v \in Videos :
          /\ \A f \in listed[v].candidates : IsSidecar(f) => Ours(v, f)
          /\ \A f \in ask[v].index : Ours(v, f)
          /\ \A t \in found[v] \cup tracks[v] : TrueTrack(v, t)

(* What a step must leave behind for its own import. *)
LEMMA StepKeepsTruth ==
    ASSUME LooksTyped, TruthInv, NEW v \in Videos, contents' = contents,
           at[v] # "idle" \/ v \in contents,
           NEW to, at' = [at EXCEPT ![v] = to],
           NEW listing, listed' = [listed EXCEPT ![v] = listing],
           NEW names, found' = [found EXCEPT ![v] = names],
           NEW result, tracks' = [tracks EXCEPT ![v] = result],
           NEW question, ask' = [ask EXCEPT ![v] = question],
           \A f \in listing.candidates : IsSidecar(f) => Ours(v, f),
           \A t \in names \cup result : TrueTrack(v, t),
           \A f \in question.index : Ours(v, f)
    PROVE  TruthInv'
  <1>1. /\ listed'[v] = listing /\ found'[v] = names /\ tracks'[v] = result
        /\ ask'[v] = question
        /\ \A w \in Videos : w # v => /\ listed'[w] = listed[w] /\ found'[w] = found[w]
                                      /\ tracks'[w] = tracks[w] /\ ask'[w] = ask[w]
    BY DEF LooksTyped
  <1>2. WithinInv'
    BY StepsStayWithin DEF TruthInv
  <1>3. ASSUME NEW w \in Videos
        PROVE  /\ \A f \in listed'[w].candidates : IsSidecar(f) => Ours(w, f)
               /\ \A f \in ask'[w].index : Ours(w, f)
               /\ \A t \in found'[w] \cup tracks'[w] : TrueTrack(w, t)
    BY <1>1 DEF TruthInv
  <1>4. QED
    BY <1>2, <1>3 DEF TruthInv, Ours, TrueTrack, IsSidecar, Together

LEMMA StepsKeepTruth ==
    ASSUME StrangersAreSeen, NamesAreTrue, TagsAreTrue,
           FolderTyped, LooksTyped, TruthInv, NEW v \in Videos, Step(v)
    PROVE  TruthInv'
  <1>1. /\ listed = [listed EXCEPT ![v] = listed[v]]
        /\ found = [found EXCEPT ![v] = found[v]]
        /\ tracks = [tracks EXCEPT ![v] = tracks[v]]
        /\ ask = [ask EXCEPT ![v] = ask[v]]
    BY DEF LooksTyped
  <1>2. /\ WithinInv
        /\ \A f \in listed[v].candidates : IsSidecar(f) => Ours(v, f)
        /\ \A f \in ask[v].index : Ours(v, f)
        /\ \A t \in found[v] \cup tracks[v] : TrueTrack(v, t)
    BY DEF TruthInv
  <1>3. NoListing.candidates = {} /\ NoQuestion.index = {}
    BY DEF NoListing, NoQuestion
  <1>4. CASE List(v)
    <2> DEFINE listing == ReleaseFolder(v, contents)
    <2>1. /\ at' = [at EXCEPT ![v] = "listed"] /\ v \in contents
          /\ listed' = [listed EXCEPT ![v] = listing]
          /\ UNCHANGED <<contents, found, tracks, ask>>
      BY <1>4 DEF List, Moves
    <2>2. \A f \in listing.candidates : IsSidecar(f) => Ours(v, f)
      BY <1>2, <2>1, ListingIsOurs
    <2> HIDE DEF listing
    <2>3. QED
      BY <1>1, <1>2, <2>1, <2>2, StepKeepsTruth
  <1>5. CASE Classify(v)
    <2> DEFINE names == HeuristicTracks(v, listed[v], contents)
               to == IF ShouldConsult(names) THEN "consult" ELSE "done"
               result == IF ShouldConsult(names) THEN {} ELSE names
    <2>1. \A t \in names : TrueTrack(v, t)
      BY <1>2, NamedTracksAreTrue
    <2>2. /\ at[v] = "listed" /\ at' = [at EXCEPT ![v] = to]
          /\ listed' = [listed EXCEPT ![v] = NoListing]
          /\ found' = [found EXCEPT ![v] = names]
          /\ tracks' = [tracks EXCEPT ![v] = result]
          /\ UNCHANGED <<contents, ask>>
      BY <1>5 DEF Classify, Moves
    <2>3. result \subseteq names
      OBVIOUS
    <2> HIDE DEF names, to, result
    <2>4. \A t \in names \cup result : TrueTrack(v, t)
      BY <2>1, <2>3
    <2>5. QED
      BY <1>1, <1>2, <1>3, <2>2, <2>4, StepKeepsTruth
  <1>6. CASE BuildPrompt(v)
    <2> DEFINE release == ReleaseFolder(v, contents)
               index == {f \in release.candidates \ {v} : Embeddable(f, contents)}
               nothing == index = {} \/ Cardinality(index) > MaxEntries
               worth == WorthDescribing(v, index, Cardinality(release.videos))
               declared(d) == {f \in d : EmbeddedLanguage(f, contents) # Undetermined}
               tags(d) == [f \in declared(d) |-> EmbeddedLanguage(f, contents)]
               question(d) == [index |-> index, tagged |-> tags(d),
                               format |-> TRUE, reply |-> << >>]
               to == IF nothing THEN "done" ELSE "asking"
               result == IF nothing THEN found[v] ELSE {}
    <2>1. /\ at[v] = "consult" /\ at' = [at EXCEPT ![v] = to]
          /\ tracks' = [tracks EXCEPT ![v] = result]
          /\ UNCHANGED <<contents, listed, found>>
      BY <1>6 DEF BuildPrompt, Moves
    <2>2. \/ ask' = ask
          \/ \E d \in worth : ask' = [ask EXCEPT ![v] = question(d)]
      BY <1>6 DEF BuildPrompt
    <2>3. \A f \in index : Ours(v, f)
      <3>1. at[v] # "idle"
        BY <2>1
      <3>2. \A f \in index : f \in ReleaseFolder(v, contents).candidates /\ IsSidecar(f)
        BY EmbeddableIsSidecar
      <3> HIDE DEF index
      <3>3. QED
        BY <1>2, <3>1, <3>2, ListingIsOurs
    <2>4. result \subseteq found[v]
      OBVIOUS
    <2> HIDE DEF index, to, result, worth
    <2>5. \A t \in found[v] \cup result : TrueTrack(v, t)
      BY <1>2, <2>4
    <2>6. CASE ask' = ask
      BY <1>1, <1>2, <2>1, <2>5, <2>6, StepKeepsTruth
    <2>7. ASSUME NEW d \in worth, ask' = [ask EXCEPT ![v] = question(d)] PROVE TruthInv'
      <3>1. question(d).index = index
        OBVIOUS
      <3> HIDE DEF question
      <3>2. QED
        BY <1>1, <1>2, <2>1, <2>3, <2>5, <2>7, <3>1, StepKeepsTruth
    <2>8. QED
      BY <2>2, <2>6, <2>7
  <1>7. CASE Post(v) \/ RejectFormat(v) \/ Answer(v)
    <2>1. /\ at[v] # "idle" /\ \E to : at' = [at EXCEPT ![v] = to]
          /\ UNCHANGED <<contents, listed, found, tracks>>
      BY <1>7 DEF Post, RejectFormat, Answer, Moves
    <2>2. PICK question : ask' = [ask EXCEPT ![v] = question] /\ question.index = ask[v].index
      <3>1. ask[v] \in Question
        BY DEF LooksTyped
      <3>2. CASE Post(v)
        BY <1>1, <3>2 DEF Post
      <3>3. CASE RejectFormat(v)
        <4>1. [ask[v] EXCEPT !.format = FALSE].index = ask[v].index
          BY <3>1 DEF Question
        <4>2. QED
          BY <3>3, <4>1 DEF RejectFormat
      <3>4. CASE Answer(v)
        <4>1. PICK reply : ask' = [ask EXCEPT ![v].reply = reply]
          BY <3>4 DEF Answer
        <4>2. [ask[v] EXCEPT !.reply = reply].index = ask[v].index
          BY <3>1 DEF Question
        <4>3. QED
          BY <4>1, <4>2
      <3>5. QED
        BY <1>7, <3>2, <3>3, <3>4
    <2>3. \A f \in question.index : Ours(v, f)
      BY <1>2, <2>2
    <2>4. QED
      BY <1>1, <1>2, <2>1, <2>2, <2>3, StepKeepsTruth
  <1>8. CASE ProviderFails(v) \/ Conclude(v)
    <2> DEFINE given == Settled(found[v], Materialise(ask[v].reply, ask[v].index,
                                                     ask[v].tagged, contents))
    <2>1. /\ at[v] # "idle" /\ at' = [at EXCEPT ![v] = "done"]
          /\ ask' = [ask EXCEPT ![v] = NoQuestion] /\ UNCHANGED <<contents, listed, found>>
      BY <1>8 DEF ProviderFails, Conclude, Moves
    <2>2. \E result \in {found[v], given} : tracks' = [tracks EXCEPT ![v] = result]
      BY <1>8 DEF ProviderFails, Conclude
    <2>3. \A t \in given : TrueTrack(v, t)
      BY <1>2, SettledIsTrue
    <2> HIDE DEF given
    <2>4. PICK result : /\ tracks' = [tracks EXCEPT ![v] = result]
                        /\ \A t \in result : TrueTrack(v, t)
      BY <1>2, <2>2, <2>3
    <2>5. \A t \in found[v] \cup result : TrueTrack(v, t)
      BY <1>2, <2>4
    <2>6. QED
      BY <1>1, <1>2, <1>3, <2>1, <2>4, <2>5, StepKeepsTruth
  <1>9. QED
    BY <1>4, <1>5, <1>6, <1>7, <1>8 DEF Step, Reply

(* Where whoever shares the folder is to be seen there, and names and tags *)
(* are as they are usually given, no import takes a sidecar of another     *)
(* download, whatever the provider answers, and none that the names chose  *)
(* is labelled with a language that is not spoken in it (infer, belongs_to *)
(* and release_folder), however the imports interleave.                    *)
THEOREM TracksAreTheReleasesOwn ==
    ASSUME StrangersAreSeen, NamesAreTrue, TagsAreTrue
    PROVE  DiscoverySpec => []NeverMislabelled
  <1>1. DiscoveryInit => TruthInv
    <2> SUFFICES ASSUME DiscoveryInit PROVE TruthInv
      OBVIOUS
    <2>1. \A v \in Videos : /\ at[v] = "idle" /\ found[v] = {} /\ tracks[v] = {}
                            /\ listed[v].candidates = {} /\ ask[v].index = {}
      BY DEF DiscoveryInit, NoQuestion, NoListing
    <2>2. WithinInv
      BY <2>1 DEF DiscoveryInit, WithinInv, Within
    <2>3. QED
      BY <2>1, <2>2 DEF TruthInv
  <1>2. FolderTyped /\ LooksTyped /\ TruthInv /\ [DiscoveryNext]_discoveryVars => TruthInv'
    <2> SUFFICES ASSUME FolderTyped, LooksTyped, TruthInv, [DiscoveryNext]_discoveryVars
                 PROVE  TruthInv'
      OBVIOUS
    <2>1. ASSUME NEW v \in Videos, Step(v) PROVE TruthInv'
      BY <2>1, StepsKeepTruth
    <2>2. ASSUME UNCHANGED discovery, contents' \subseteq contents \cup Arriving,
                 contents \ Leaving \subseteq contents'
          PROVE  TruthInv'
      <3>1. UNCHANGED <<at, listed, found, ask, tracks>>
        BY <2>2 DEF discovery
      <3>2. WithinInv'
        BY <2>2, <3>1, ChangesStayWithin DEF TruthInv
      <3>3. QED
        BY <3>1, <3>2 DEF TruthInv, Ours, TrueTrack, IsSidecar, Together
    <2>3. ASSUME NEW f \in Files, Leaves(f) \/ Arrives(f) PROVE TruthInv'
      BY <2>2, <2>3 DEF Leaves, Arrives
    <2>4. CASE UNCHANGED discoveryVars
      BY <2>2, <2>4 DEF discoveryVars
    <2>5. QED
      BY <2>1, <2>3, <2>4 DEF DiscoveryNext
  <1>3. TruthInv => NeverMislabelled
    BY DEF TruthInv, TrueTrack, NeverMislabelled, ByName
  <1>4. QED
    BY <1>1, <1>2, <1>3, LooksTypedHolds, PTL DEF DiscoverySpec

-----------------------------------------------------------------------------
(* Which sidecars Select embeds. *)

(* Of any candidates some have the least of a number. *)
LEMMA LeastAmong ==
    ASSUME NEW C, C # {}, NEW rank \in [C -> Nat]
    PROVE  \E D \in SUBSET C :
              /\ D # {}
              /\ \A s \in D : \A r \in C : rank[s] <= rank[r]
              /\ \A s \in D : \A r \in C \ D : rank[s] < rank[r]
  <1> DEFINE ranks == {rank[s] : s \in C}
  <1>1. ranks \in SUBSET Nat /\ ranks # {}
    OBVIOUS
  <1>2. PICK least \in ranks : \A m \in ranks : least <= m
    BY <1>1, LeastOf
  <1> DEFINE D == {s \in C : rank[s] = least}
  <1>3. D \in SUBSET C /\ D # {}
    BY <1>2
  <1>4. \A r \in C : rank[r] \in Nat /\ least <= rank[r]
    BY <1>2
  <1>5. least \in Nat
    BY <1>1
  <1>6. \A s \in D : rank[s] = least
    OBVIOUS
  <1>7. \A s \in D : \A r \in C : rank[s] <= rank[r]
    BY <1>4, <1>6
  <1>8. \A r \in C \ D : least < rank[r]
    BY <1>4, <1>5
  <1>9. \A s \in D : \A r \in C \ D : rank[s] < rank[r]
    BY <1>6, <1>8
  <1>10. QED
    BY <1>3, <1>7, <1>9

(* E are those of D whose key is the least in its i-th part. *)
LeastBy(D, E, i) ==
    /\ E \subseteq D /\ E # {}
    /\ \A s \in E : \A r \in D : SortKey(s)[i] <= SortKey(r)[i]
    /\ \A s \in E : \A r \in D \ E : SortKey(s)[i] < SortKey(r)[i]

(* The order of the candidates has a first one.  Each part of the key     *)
(* leaves those with its least value, and none of these comes after one    *)
(* that was left out.                                                      *)
LEMMA FirstIsCandidate ==
    ASSUME NEW C \in SUBSET ExternalTracks, C # {}
    PROVE  First(C) \in C
  <1>1. \A s \in C : /\ SortKey(s)[1] \in Nat /\ SortKey(s)[2] \in Nat
                     /\ SortKey(s)[3] \in Nat /\ SortKey(s)[4] \in Nat
                     /\ SortKey(s)[5] \in Nat
    <2> TAKE s \in C
    <2>1. /\ s.kind \in DOMAIN KindOrder /\ s.language \in Languages
          /\ s.file \in Nat
      BY SelectionAssumption
    <2>2. KindOrder[s.kind] \in Nat
      BY <2>1 DEF KindOrder
    <2>3. LanguageOrder[s.language] \in Nat
      BY <2>1, SelectionAssumption
    <2>4. AsNumber(s.forced) \in Nat /\ AsNumber(s.hi) \in Nat
      BY DEF AsNumber
    <2>5. QED
      BY <2>1, <2>2, <2>3, <2>4 DEF SortKey
  <1>2. ASSUME NEW D, D \subseteq C, D # {}, NEW i \in 1..5
        PROVE  \E E : LeastBy(D, E, i)
    <2> DEFINE rank == [s \in D |-> SortKey(s)[i]]
    <2>1. \A s \in D : SortKey(s)[i] \in Nat
      <3>1. i = 1 \/ i = 2 \/ i = 3 \/ i = 4 \/ i = 5
        BY <1>2
      <3>2. QED
        BY <1>1, <1>2, <3>1
    <2>2. rank \in [D -> Nat]
      BY <2>1
    <2>3. \A s \in D : rank[s] = SortKey(s)[i]
      OBVIOUS
    <2> HIDE DEF rank
    <2>4. PICK E \in SUBSET D :
             /\ E # {}
             /\ \A s \in E : \A r \in D : rank[s] <= rank[r]
             /\ \A s \in E : \A r \in D \ E : rank[s] < rank[r]
      BY <1>2, <2>2, LeastAmong
    <2>5. LeastBy(D, E, i)
      BY <2>3, <2>4 DEF LeastBy
    <2>6. QED
      BY <2>5
  <1>3. PICK C1 : LeastBy(C, C1, 1)
    BY <1>2
  <1>4. PICK C2 : LeastBy(C1, C2, 2)
    <2>1. C1 \subseteq C /\ C1 # {}
      BY <1>3 DEF LeastBy
    <2>2. QED
      BY <1>2, <2>1
  <1>5. PICK C3 : LeastBy(C2, C3, 3)
    <2>1. C2 \subseteq C /\ C2 # {}
      BY <1>3, <1>4 DEF LeastBy
    <2>2. QED
      BY <1>2, <2>1
  <1>6. PICK C4 : LeastBy(C3, C4, 4)
    <2>1. C3 \subseteq C /\ C3 # {}
      BY <1>3, <1>4, <1>5 DEF LeastBy
    <2>2. QED
      BY <1>2, <2>1
  <1>7. PICK C5 : LeastBy(C4, C5, 5)
    <2>1. C4 \subseteq C /\ C4 # {}
      BY <1>3, <1>4, <1>5, <1>6 DEF LeastBy
    <2>2. QED
      BY <1>2, <2>1
  <1>8. PICK s \in C5 : TRUE
    BY <1>7 DEF LeastBy
  <1>9. \A r \in C : ~ Precedes(r, s)
    <2> SUFFICES ASSUME NEW r \in C, NEW i \in 1..5,
                        SortKey(r)[i] < SortKey(s)[i],
                        \A k \in 1..(i - 1) : SortKey(r)[k] = SortKey(s)[k]
                 PROVE  FALSE
      BY DEF Precedes
    <2>1. s \in C /\ s \in C1 /\ s \in C2 /\ s \in C3 /\ s \in C4
      BY <1>3, <1>4, <1>5, <1>6, <1>7, <1>8 DEF LeastBy
    <2>2. CASE i = 1
      BY <1>1, <1>3, <2>1, <2>2 DEF LeastBy
    <2>3. CASE i = 2
      <3>1. SortKey(r)[1] = SortKey(s)[1]
        BY <2>3
      <3>2. r \in C1
        BY <1>1, <1>3, <2>1, <3>1 DEF LeastBy
      <3>3. QED
        BY <1>1, <1>4, <2>1, <2>3, <3>2 DEF LeastBy
    <2>4. CASE i = 3
      <3>1. SortKey(r)[1] = SortKey(s)[1] /\ SortKey(r)[2] = SortKey(s)[2]
        BY <2>4
      <3>2. r \in C1
        BY <1>1, <1>3, <2>1, <3>1 DEF LeastBy
      <3>3. r \in C2
        BY <1>1, <1>4, <2>1, <3>1, <3>2 DEF LeastBy
      <3>4. QED
        BY <1>1, <1>5, <2>1, <2>4, <3>3 DEF LeastBy
    <2>5. CASE i = 4
      <3>1. /\ SortKey(r)[1] = SortKey(s)[1] /\ SortKey(r)[2] = SortKey(s)[2]
            /\ SortKey(r)[3] = SortKey(s)[3]
        BY <2>5
      <3>2. r \in C1
        BY <1>1, <1>3, <2>1, <3>1 DEF LeastBy
      <3>3. r \in C2
        BY <1>1, <1>4, <2>1, <3>1, <3>2 DEF LeastBy
      <3>4. r \in C3
        BY <1>1, <1>5, <2>1, <3>1, <3>3 DEF LeastBy
      <3>5. QED
        BY <1>1, <1>6, <2>1, <2>5, <3>4 DEF LeastBy
    <2>6. CASE i = 5
      <3>1. /\ SortKey(r)[1] = SortKey(s)[1] /\ SortKey(r)[2] = SortKey(s)[2]
            /\ SortKey(r)[3] = SortKey(s)[3] /\ SortKey(r)[4] = SortKey(s)[4]
        BY <2>6
      <3>2. r \in C1
        BY <1>1, <1>3, <2>1, <3>1 DEF LeastBy
      <3>3. r \in C2
        BY <1>1, <1>4, <2>1, <3>1, <3>2 DEF LeastBy
      <3>4. r \in C3
        BY <1>1, <1>5, <2>1, <3>1, <3>3 DEF LeastBy
      <3>5. r \in C4
        BY <1>1, <1>6, <2>1, <3>1, <3>4 DEF LeastBy
      <3>6. QED
        BY <1>1, <1>7, <2>1, <2>6, <3>5 DEF LeastBy
    <2>7. QED
      BY <2>2, <2>3, <2>4, <2>5, <2>6
  <1>10. s \in C
    BY <1>3, <1>4, <1>5, <1>6, <1>7, <1>8 DEF LeastBy
  <1>11. QED
    BY <1>9, <1>10 DEF First

(* What holds of the selection while the candidates are considered, one    *)
(* after the other: nothing is accepted that the container or another of   *)
(* the accepted stands for, and only what one of these stands for is       *)
(* rejected as present.                                                    *)
SelectionInv(sofar, present, candidates, p) ==
    /\ sofar.left \subseteq candidates
    /\ sofar.accepted \subseteq candidates
    /\ sofar.rejected \subseteq candidates \X RejectCodes
    /\ \A s \in candidates :
           \/ s \in sofar.left
           \/ s \in sofar.accepted
           \/ \E why \in RejectCodes : <<s, why>> \in sofar.rejected
    /\ IsFiniteSet(sofar.accepted) /\ Cardinality(sofar.accepted) <= p.max
    /\ \A s \in sofar.accepted :
           /\ PolicyRejection(s, p) = "none"
           /\ p.dedupe # "off" => Signature(s, s.variant, p) \notin Seen(present, p)
    /\ Seen(present, p) \subseteq sofar.seen
    /\ \A sig \in sofar.seen :
           \/ sig \in Seen(present, p)
           \/ \E s \in sofar.accepted : sig = Signature(s, s.variant, p)
    /\ \A s \in candidates : <<s, "already_present">> \in sofar.rejected =>
           p.dedupe # "off" /\ Signature(s, s.variant, p) \in sofar.seen

LEMMA ConsiderKeeps ==
    ASSUME NEW present, NEW candidates \in SUBSET ExternalTracks, NEW p, p.max \in Nat,
           NEW sofar,
           SelectionInv(sofar, present, candidates, p), sofar.left # {}
    PROVE  /\ SelectionInv(Consider(sofar, p), present, candidates, p)
           /\ Consider(sofar, p).left = sofar.left \ {First(sofar.left)}
           /\ First(sofar.left) \in sofar.left
  <1> DEFINE s == First(sofar.left)
             sig == Signature(s, s.variant, p)
             code == PolicyRejection(s, p)
             Rejected(why) == [left |-> sofar.left \ {s}, accepted |-> sofar.accepted,
                               rejected |-> sofar.rejected \cup {<<s, why>>},
                               seen |-> sofar.seen]
             took == [left |-> sofar.left \ {s}, accepted |-> sofar.accepted \cup {s},
                      rejected |-> sofar.rejected, seen |-> sofar.seen \cup {sig}]
  <1>1. s \in sofar.left /\ s \in candidates
    BY FirstIsCandidate DEF SelectionInv
  <1>2. \/ code # "none" /\ Consider(sofar, p) = Rejected(code)
        \/ /\ code = "none" /\ sig # <<>> /\ sig \in sofar.seen
           /\ Consider(sofar, p) = Rejected("already_present")
        \/ code = "none" /\ Consider(sofar, p) = Rejected("track_limit")
        \/ /\ code = "none" /\ ~ (sig # <<>> /\ sig \in sofar.seen)
           /\ ~ (Cardinality(sofar.accepted) >= p.max)
           /\ Consider(sofar, p) = took
    BY DEF Consider
  <1>3. code \in RejectCodes \cup {"none"} /\ code # "already_present"
    BY DEF PolicyRejection, RejectCodes
  <1>4. p.dedupe = "off" => sig = <<>>
    BY DEF Signature
  <1>5. p.dedupe # "off" => sig # <<>>
    BY DEF Signature
  <1> HIDE DEF s, sig, code
  <1>6. ASSUME NEW why \in RejectCodes, Consider(sofar, p) = Rejected(why),
               why = "already_present" => p.dedupe # "off" /\ sig \in sofar.seen
        PROVE  SelectionInv(Consider(sofar, p), present, candidates, p)
    <2>1. /\ Consider(sofar, p).left = sofar.left \ {s}
          /\ Consider(sofar, p).accepted = sofar.accepted
          /\ Consider(sofar, p).rejected = sofar.rejected \cup {<<s, why>>}
          /\ Consider(sofar, p).seen = sofar.seen
      BY <1>6
    <2>2. ASSUME NEW x \in candidates,
                 <<x, "already_present">> \in sofar.rejected \cup {<<s, why>>}
          PROVE  p.dedupe # "off" /\ Signature(x, x.variant, p) \in sofar.seen
      <3>1. CASE <<x, "already_present">> \in sofar.rejected
        BY <3>1 DEF SelectionInv
      <3>2. CASE <<x, "already_present">> = <<s, why>>
        BY <1>6, <3>2 DEF sig
      <3>3. QED
        BY <2>2, <3>1, <3>2
    <2>3. Consider(sofar, p).rejected \subseteq candidates \X RejectCodes
      BY <1>1, <1>6, <2>1 DEF SelectionInv
    <2>4. ASSUME NEW x \in candidates
          PROVE  \/ x \in sofar.left \ {s}
                 \/ x \in sofar.accepted
                 \/ \E y \in RejectCodes : <<x, y>> \in sofar.rejected \cup {<<s, why>>}
      BY <1>6 DEF SelectionInv
    <2>5. QED
      BY <1>6, <2>1, <2>2, <2>3, <2>4 DEF SelectionInv
  <1>7. ASSUME Consider(sofar, p) = took, code = "none",
               ~ (sig # <<>> /\ sig \in sofar.seen),
               ~ (Cardinality(sofar.accepted) >= p.max)
        PROVE  SelectionInv(Consider(sofar, p), present, candidates, p)
    <2>1. /\ Consider(sofar, p).left = sofar.left \ {s}
          /\ Consider(sofar, p).accepted = sofar.accepted \cup {s}
          /\ Consider(sofar, p).rejected = sofar.rejected
          /\ Consider(sofar, p).seen = sofar.seen \cup {sig}
      BY <1>7
    <2>2. p.dedupe # "off" => sig \notin Seen(present, p)
      BY <1>5, <1>7 DEF SelectionInv
    <2>3. \A x \in sofar.accepted \cup {s} :
             /\ PolicyRejection(x, p) = "none"
             /\ p.dedupe # "off" => Signature(x, x.variant, p) \notin Seen(present, p)
      BY <1>7, <2>2 DEF SelectionInv, sig, code
    <2>4. \A g \in sofar.seen \cup {sig} :
             \/ g \in Seen(present, p)
             \/ \E x \in sofar.accepted \cup {s} : g = Signature(x, x.variant, p)
      BY DEF SelectionInv, sig
    <2>5. /\ IsFiniteSet(sofar.accepted \cup {s})
          /\ Cardinality(sofar.accepted \cup {s}) <= p.max
      <3>1. IsFiniteSet(sofar.accepted) /\ Cardinality(sofar.accepted) \in Nat
        BY FS_CardinalityType DEF SelectionInv
      <3>2. \/ Cardinality(sofar.accepted \cup {s}) = Cardinality(sofar.accepted)
            \/ Cardinality(sofar.accepted \cup {s}) = Cardinality(sofar.accepted) + 1
        BY <3>1, FS_AddElement
      <3>3. QED
        BY <1>7, <3>1, <3>2, FS_AddElement
    <2>6. \A x \in candidates :
             \/ x \in sofar.left \ {s}
             \/ x \in sofar.accepted \cup {s}
             \/ \E why \in RejectCodes : <<x, why>> \in sofar.rejected
      BY DEF SelectionInv
    <2>7. /\ sofar.left \ {s} \subseteq candidates
          /\ sofar.accepted \cup {s} \subseteq candidates
          /\ Seen(present, p) \subseteq sofar.seen \cup {sig}
          /\ sofar.rejected \subseteq candidates \X RejectCodes
          /\ \A x \in candidates : <<x, "already_present">> \in sofar.rejected =>
                p.dedupe # "off" /\ Signature(x, x.variant, p) \in sofar.seen \cup {sig}
      BY <1>1 DEF SelectionInv
    <2>8. QED
      BY ONLY <2>1, <2>3, <2>4, <2>5, <2>6, <2>7 DEF SelectionInv
  <1>8. SelectionInv(Consider(sofar, p), present, candidates, p)
    <2>1. "already_present" \in RejectCodes /\ "track_limit" \in RejectCodes
      BY DEF RejectCodes
    <2>2. QED
      BY <1>2, <1>3, <1>4, <1>6, <1>7, <2>1
  <1>9. Consider(sofar, p).left = sofar.left \ {s}
    BY <1>2
  <1>10. QED
    BY <1>1, <1>8, <1>9 DEF s

(* All candidates are considered, so what holds at the start and after     *)
(* each of them holds of the selection.  The first half of the proof shows *)
(* that the recursion has a solution, the second that each of its values   *)
(* has the invariant; both look at the least number for which it fails.    *)
LEMMA SelectFacts ==
    ASSUME NEW present, NEW candidates \in SUBSET ExternalTracks, NEW p, p.max \in Nat
    PROVE  /\ SelectionInv(Select(present, candidates, p), present, candidates, p)
           /\ Select(present, candidates, p).left = {}
  <1> DEFINE size == Cardinality(candidates)
             start == [left |-> candidates, accepted |-> {}, rejected |-> {},
                       seen |-> Seen(present, p)]
             Solves(f, m) ==
                 f = [n \in 0..m |-> IF n = 0 THEN start ELSE Consider(f[n - 1], p)]
             sofar == CHOOSE f : Solves(f, size)
  <1>1. IsFiniteSet(candidates) /\ size \in Nat
    BY SelectionAssumption, FS_Subset, FS_CardinalityType
  <1>2. Select(present, candidates, p) = sofar[size]
    BY Zenon DEF Select
  <1> HIDE DEF size, start, sofar
  <1>3. \A m \in Nat : \E f : Solves(f, m)
    <2> DEFINE Failing == {m \in Nat : ~ \E f : Solves(f, m)}
    <2> SUFFICES ASSUME Failing # {} PROVE FALSE
      OBVIOUS
    <2>1. PICK m \in Failing : \A k \in Failing : m <= k
      BY LeastOf
    <2>2. m \in Nat /\ ~ \E f : Solves(f, m)
      BY <2>1
    <2>3. CASE m = 0
      <3>1. Solves([n \in 0..0 |-> start], 0)
        OBVIOUS
      <3>2. QED
        BY <2>2, <2>3, <3>1
    <2>4. CASE m # 0
      <3>1. m - 1 \in Nat /\ ~ (m <= m - 1)
        BY <2>2, <2>4
      <3>2. \E f : Solves(f, m - 1)
        <4> HIDE DEF Solves
        <4>1. m - 1 \notin Failing
          BY <2>1, <3>1
        <4>2. QED
          BY <3>1, <4>1
      <3>3. PICK f : Solves(f, m - 1)
        BY <3>2
      <3> DEFINE g == [n \in 0..m |-> IF n = m THEN Consider(f[m - 1], p) ELSE f[n]]
      <3>4. \A n \in 0..m : g[n] = IF n = 0 THEN start ELSE Consider(g[n - 1], p)
        <4> TAKE n \in 0..m
        <4>1. CASE n = 0
          BY <2>2, <2>4, <3>3, <4>1
        <4>2. CASE n # 0 /\ n = m
          BY <2>2, <3>3, <4>2
        <4>3. CASE n # 0 /\ n # m
          <5>1. n \in 0..(m - 1) /\ n - 1 \in 0..(m - 1) /\ n - 1 # m
            BY <2>2, <4>3
          <5>2. f[n] = Consider(f[n - 1], p)
            BY <3>3, <4>3, <5>1
          <5>3. g[n] = f[n] /\ g[n - 1] = f[n - 1]
            BY <4>3, <5>1
          <5>4. QED
            BY <4>3, <5>2, <5>3
        <4>4. QED
          BY <4>1, <4>2, <4>3
      <3>5. Solves(g, m)
        BY <3>4
      <3>6. QED
        BY <2>2, <3>5
    <2>5. QED
      BY <2>3, <2>4
  <1>4. Solves(sofar, size)
    BY <1>1, <1>3, Zenon DEF sofar
  <1>5. /\ sofar[0] = start
        /\ \A n \in 1..size : sofar[n] = Consider(sofar[n - 1], p)
    <2>1. \A n \in 0..size : sofar[n] = IF n = 0 THEN start ELSE Consider(sofar[n - 1], p)
      BY <1>4
    <2>2. QED
      BY <1>1, <2>1
  <1> HIDE DEF Solves
  <1> DEFINE Good(n) == /\ SelectionInv(sofar[n], present, candidates, p)
                        /\ IsFiniteSet(sofar[n].left)
                        /\ Cardinality(sofar[n].left) = size - n
  <1>6. Good(0)
    <2>1. SelectionInv(start, present, candidates, p)
      BY FS_EmptySet DEF SelectionInv, start
    <2>2. QED
      BY <1>1, <1>5, <2>1 DEF start, size
  <1>7. ASSUME NEW n \in 1..size, Good(n - 1) PROVE Good(n)
    <2> DEFINE before == sofar[n - 1]
    <2>1. /\ SelectionInv(before, present, candidates, p)
          /\ IsFiniteSet(before.left)
          /\ Cardinality(before.left) = size - (n - 1)
      BY <1>7
    <2>2. sofar[n] = Consider(before, p)
      BY <1>5
    <2> HIDE DEF before
    <2>3. before.left # {}
      BY <1>1, <2>1, FS_EmptySet
    <2>4. /\ SelectionInv(Consider(before, p), present, candidates, p)
          /\ Consider(before, p).left = before.left \ {First(before.left)}
          /\ First(before.left) \in before.left
      BY <2>1, <2>3, ConsiderKeeps, Zenon
    <2>5. /\ IsFiniteSet(before.left \ {First(before.left)})
          /\ Cardinality(before.left \ {First(before.left)}) = Cardinality(before.left) - 1
      BY <2>1, <2>4, FS_RemoveElement, Zenon
    <2>6. QED
      BY <1>1, <2>1, <2>2, <2>4, <2>5
  <1> HIDE DEF Good
  <1>8. Good(size)
    <2> DEFINE Failing == {m \in 0..size : ~ Good(m)}
    <2> SUFFICES ASSUME Failing # {} PROVE FALSE
      BY <1>1
    <2>1. Failing \in SUBSET Nat
      BY <1>1
    <2>2. PICK m \in Failing : \A k \in Failing : m <= k
      BY <2>1, LeastOf
    <2>3. m \in 1..size
      BY <1>1, <1>6, <2>2
    <2>4. m - 1 \in 0..size /\ m - 1 \notin Failing
      BY <1>1, <2>2, <2>3
    <2>5. QED
      BY <1>7, <2>2, <2>3, <2>4
  <1>9. Cardinality(sofar[size].left) = 0 /\ IsFiniteSet(sofar[size].left)
    BY <1>1, <1>8 DEF Good
  <1>10. sofar[size].left = {}
    BY <1>9, FS_EmptySet
  <1>11. QED
    BY <1>2, <1>8, <1>10 DEF Good

-----------------------------------------------------------------------------
(* Imports of one file. *)

LEMMA OtherFieldsAreKept ==
    ASSUME NEW p \in Policies, NEW o
    PROVE  /\ WithOriginal(p, o).dedupe = p.dedupe
           /\ WithOriginal(p, o).max = p.max /\ p.max \in Nat
  <1>1. p \in [dedupe : DedupeModes, max : Nat, skipImages : BOOLEAN,
               skipUndetermined : BOOLEAN,
               keepAudio : SUBSET (Languages \cup {"original"}),
               keepSubtitles : SUBSET (Languages \cup {"original"})]
    BY SelectionAssumption
  <1>2. QED
    BY <1>1 DEF WithOriginal

(* An import that is worth a mux, and what it selected. *)
Resolved == WithOriginal(policy, original)

KeptTracks == Prune(container, Resolved).kept

Chosen == Select(KeptTracks, folder, Resolved)

LEMMA ImportSteps ==
    ASSUME Import
    PROVE  /\ imports < MaxImports /\ imports' = imports + 1
           /\ policy' = policy /\ original' = original /\ folder' = folder
           /\ last'.accepted = Chosen.accepted /\ last'.rejected = Chosen.rejected
           /\ last'.muxed = WorthMuxing(container, Prune(container, Resolved), Chosen.accepted)
           /\ \/ /\ last'.muxed
                 /\ container' = KeptTracks \cup {Embedded(s) : s \in Chosen.accepted}
                 /\ embeds' = [s \in ExternalTracks |->
                                  embeds[s] + AsNumber(s \in Chosen.accepted)]
              \/ ~ last'.muxed /\ container' = container /\ embeds' = embeds
  <1>1. last' = [muxed |-> WorthMuxing(container, Prune(container, Resolved), Chosen.accepted),
                 accepted |-> Chosen.accepted, rejected |-> Chosen.rejected]
    BY DEF Import, Resolved, KeptTracks, Chosen
  <1>2. WorthMuxing(container, Prune(container, Resolved), Chosen.accepted) \in BOOLEAN
    BY DEF WorthMuxing
  <1>3. IF WorthMuxing(container, Prune(container, Resolved), Chosen.accepted)
        THEN /\ container' = KeptTracks \cup {Embedded(s) : s \in Chosen.accepted}
             /\ embeds' = [s \in ExternalTracks |->
                              embeds[s] + AsNumber(s \in Chosen.accepted)]
        ELSE UNCHANGED <<container, embeds>>
    BY Zenon DEF Import, Resolved, KeptTracks, Chosen
  <1>4. QED
    BY <1>1, <1>2, <1>3 DEF Import

LEMMA ChosenIsSound ==
    ASSUME SelectionTypeOK
    PROVE  SelectionInv(Chosen, KeptTracks, folder, Resolved) /\ Chosen.left = {}
  <1>1. Resolved.max \in Nat
    BY OtherFieldsAreKept DEF Resolved, SelectionTypeOK
  <1>2. QED
    BY <1>1, SelectFacts DEF SelectionTypeOK, Chosen

(* The variables hold what the specification says they hold.              *)
THEOREM SelectionTypeCorrect == SelectionSpec => []SelectionTypeOK
  <1>1. SelectionInit => SelectionTypeOK
    BY SelectionAssumption DEF SelectionInit, SelectionTypeOK, NoImport
  <1>2. SelectionTypeOK /\ [SelectionNext]_selectionVars => SelectionTypeOK'
    <2> SUFFICES ASSUME SelectionTypeOK, [SelectionNext]_selectionVars
                 PROVE  SelectionTypeOK'
      OBVIOUS
    <2>1. CASE Import
      <3>1. SelectionInv(Chosen, KeptTracks, folder, Resolved)
        BY ChosenIsSound
      <3>2. imports' \in 0..MaxImports
        BY <2>1, ImportSteps, SelectionAssumption DEF SelectionTypeOK
      <3>3. embeds' \in [ExternalTracks -> Nat]
        BY <2>1, ImportSteps DEF SelectionTypeOK, AsNumber
      <3>4. QED
        BY <2>1, <3>1, <3>2, <3>3, ImportSteps DEF SelectionTypeOK, SelectionInv
    <2>2. ASSUME NEW s \in ExternalTracks, SidecarAppears(s) PROVE SelectionTypeOK'
      BY <2>2 DEF SidecarAppears, SelectionTypeOK, NoImport
    <2>3. CASE UNCHANGED selectionVars
      BY <2>3 DEF selectionVars, SelectionTypeOK
    <2>4. QED
      BY <2>1, <2>2, <2>3 DEF SelectionNext
  <1>3. QED
    BY <1>1, <1>2, PTL DEF SelectionSpec

(* A remux never takes the last track that can be heard out of a file,     *)
(* whatever the keep lists say and whatever is embedded (_check_worth_muxing). *)
THEOREM ImportsKeepAFileAudible == SelectionSpec => NeverSilenced
  <1>1. ASSUME [SelectionNext]_selectionVars, Audio(container) # {}
        PROVE  Audio(container') # {}
    <2>1. CASE Import /\ last'.muxed
      <3>1. /\ container' = KeptTracks \cup {Embedded(s) : s \in Chosen.accepted}
            /\ WorthMuxing(container, Prune(container, Resolved), Chosen.accepted)
        BY <2>1, ImportSteps
      <3>2. Audio(KeptTracks) # {} \/ Audio(Chosen.accepted) # {}
        BY <1>1, <3>1 DEF WorthMuxing, KeptTracks
      <3>3. \A s \in Chosen.accepted : Embedded(s).kind = s.kind
        BY DEF Embedded
      <3>4. CASE Audio(KeptTracks) # {}
        BY <3>1, <3>4 DEF Audio
      <3>5. CASE Audio(Chosen.accepted) # {}
        <4>1. PICK s \in Chosen.accepted : s.kind = "audio"
          BY <3>5 DEF Audio
        <4>2. Embedded(s) \in container' /\ Embedded(s).kind = "audio"
          BY <3>1, <3>3, <4>1
        <4>3. QED
          BY <4>2 DEF Audio
      <3>6. QED
        BY <3>2, <3>4, <3>5
    <2>2. CASE container' = container
      BY <1>1, <2>2
    <2>3. QED
      BY <1>1, <2>1, <2>2, ImportSteps DEF SelectionNext, SidecarAppears, selectionVars
  <1>2. QED
    BY <1>1, PTL DEF SelectionSpec, NeverSilenced

(* An untagged sidecar that is reported as it was read is in the container *)
(* once it was embedded, since the keep lists that let it in let it stay.  *)
StaysInv ==
    policy.dedupe # "off" =>
        \A s \in ExternalTracks : s.variant = NoTag /\ AsRead(s) =>
            \/ embeds[s] = 0
            \/ /\ embeds[s] = 1
               /\ Embedded(s) \in container
               /\ Keeps(Resolved, s.kind, s.language)

LEMMA EmbeddedIsKept ==
    ASSUME FlagsAreWritten, NEW s \in ExternalTracks, Keeps(Resolved, s.kind, s.language),
           Embedded(s) \in container
    PROVE  Embedded(s) \in KeptTracks
  <1>1. /\ Embedded(s).kind = s.kind
        /\ Canonical[Embedded(s).language] = Canonical[s.language]
    BY DEF Embedded, FlagsAreWritten
  <1>2. Keeps(Resolved, Embedded(s).kind, Embedded(s).language)
    BY <1>1 DEF Keeps
  <1>3. QED
    BY <1>2 DEF KeptTracks, Prune

LEMMA AcceptedIsNew ==
    ASSUME SelectionTypeOK, policy.dedupe # "off",
           NEW s \in Chosen.accepted, s.variant = NoTag, AsRead(s)
    PROVE  Embedded(s) \notin KeptTracks /\ Keeps(Resolved, s.kind, s.language)
  <1>1. SelectionInv(Chosen, KeptTracks, folder, Resolved)
    BY ChosenIsSound
  <1>2. s \in ExternalTracks
    BY <1>1 DEF SelectionInv, SelectionTypeOK
  <1>3. Resolved.dedupe = policy.dedupe
    BY OtherFieldsAreKept DEF Resolved, SelectionTypeOK
  <1>4. /\ PolicyRejection(s, Resolved) = "none"
        /\ Signature(s, s.variant, Resolved) \notin Seen(KeptTracks, Resolved)
    BY <1>1, <1>3 DEF SelectionInv
  <1>5. Signature(Embedded(s), NoTag, Resolved) = Signature(s, s.variant, Resolved)
    BY <1>2, <1>3 DEF Signature, Embedded, AsRead
  <1>6. Keeps(Resolved, s.kind, s.language)
    BY <1>4 DEF PolicyRejection
  <1>7. QED
    BY <1>4, <1>5, <1>6 DEF Seen

LEMMA ImportKeepsStays ==
    ASSUME FlagsAreWritten, SelectionTypeOK, StaysInv, Import
    PROVE  StaysInv'
  <1>1. policy' = policy /\ Resolved' = Resolved
    BY ImportSteps DEF Resolved
  <1> SUFFICES ASSUME policy.dedupe # "off",
                      NEW s \in ExternalTracks, s.variant = NoTag, AsRead(s)
               PROVE  \/ embeds'[s] = 0
                      \/ /\ embeds'[s] = 1
                         /\ Embedded(s) \in container'
                         /\ Keeps(Resolved, s.kind, s.language)
    BY <1>1 DEF StaysInv, AsRead
  <1>2. \/ embeds[s] = 0
        \/ /\ embeds[s] = 1
           /\ Embedded(s) \in container
           /\ Keeps(Resolved, s.kind, s.language)
    BY DEF StaysInv
  <1>3. CASE ~ last'.muxed
    BY <1>2, <1>3, ImportSteps
  <1>4. CASE last'.muxed
    <2>1. /\ container' = KeptTracks \cup {Embedded(x) : x \in Chosen.accepted}
          /\ embeds'[s] = embeds[s] + AsNumber(s \in Chosen.accepted)
      BY <1>4, ImportSteps
    <2>2. CASE s \in Chosen.accepted
      <3>1. Embedded(s) \notin KeptTracks /\ Keeps(Resolved, s.kind, s.language)
        BY <2>2, AcceptedIsNew
      <3>2. embeds[s] = 0
        BY <1>2, <3>1, EmbeddedIsKept
      <3>3. QED
        BY <2>1, <2>2, <3>1, <3>2 DEF AsNumber
    <2>3. CASE s \notin Chosen.accepted
      <3>1. embeds'[s] = embeds[s]
        BY <2>1, <2>3 DEF AsNumber, SelectionTypeOK
      <3>2. QED
        BY <1>2, <2>1, <3>1, EmbeddedIsKept
    <2>4. QED
      BY <2>2, <2>3
  <1>5. QED
    BY <1>3, <1>4

LEMMA ImportLeavesCounterparts ==
    ASSUME FlagsAreWritten, SelectionTypeOK, Import
    PROVE  PresentIsPresent'
  <1>1. SelectionInv(Chosen, KeptTracks, folder, Resolved)
    BY ChosenIsSound
  <1> SUFFICES ASSUME last'.muxed, NEW s \in folder,
                      <<s, "already_present">> \in Chosen.rejected
               PROVE  \E t \in container' :
                         /\ t.kind = s.kind
                         /\ Canonical[t.language] = Canonical[s.language]
                         /\ t.forced = s.forced
                         /\ t.hi = s.hi
    BY ImportSteps DEF PresentIsPresent
  <1>2. container' = KeptTracks \cup {Embedded(x) : x \in Chosen.accepted}
    BY ImportSteps
  <1>3. Resolved.dedupe # "off" /\ Signature(s, s.variant, Resolved) \in Chosen.seen
    BY <1>1 DEF SelectionInv
  <1>4. \A t, u, v, w : Signature(t, v, Resolved) = Signature(u, w, Resolved) =>
           t.kind = u.kind /\ t.language = u.language /\ t.forced = u.forced /\ t.hi = u.hi
    BY <1>3 DEF Signature
  <1>5. CASE Signature(s, s.variant, Resolved) \in Seen(KeptTracks, Resolved)
    <2>1. PICK t \in KeptTracks :
             Signature(t, NoTag, Resolved) = Signature(s, s.variant, Resolved)
      BY <1>5 DEF Seen
    <2>2. QED
      BY <1>2, <1>4, <2>1
  <1>6. ASSUME NEW x \in Chosen.accepted,
               Signature(s, s.variant, Resolved) = Signature(x, x.variant, Resolved)
        PROVE  \E t \in container' :
                  /\ t.kind = s.kind
                  /\ Canonical[t.language] = Canonical[s.language]
                  /\ t.forced = s.forced
                  /\ t.hi = s.hi
    <2>1. x \in ExternalTracks
      BY <1>1 DEF SelectionInv, SelectionTypeOK
    <2>2. x.kind = s.kind /\ x.language = s.language /\ x.forced = s.forced /\ x.hi = s.hi
      BY <1>4, <1>6
    <2>3. /\ Embedded(x) \in container'
          /\ Embedded(x).kind = x.kind /\ Embedded(x).forced = x.forced
          /\ Embedded(x).hi = x.hi
          /\ Canonical[Embedded(x).language] = Canonical[x.language]
      BY <1>2, <2>1 DEF Embedded, FlagsAreWritten
    <2>4. QED
      BY <2>2, <2>3
  <1>7. QED
    BY <1>1, <1>3, <1>5, <1>6 DEF SelectionInv

(* Unless de-duplication is off, importing a file again and again with its *)
(* sidecars beside it embeds none twice that is untagged and reported as   *)
(* it was read, and what is passed over as present is there: for any       *)
(* policy, any source, any sidecars whose language and flag mkvmerge       *)
(* keeps, with whatever codec it reports them, and any number of imports.  *)
THEOREM ReimportsAreFaithful ==
    ASSUME FlagsAreWritten
    PROVE  SelectionSpec => []ReimportIsFaithful
  <1>1. SelectionInit => StaysInv /\ PresentIsPresent
    BY DEF SelectionInit, StaysInv, PresentIsPresent, NoImport
  <1>2. SelectionTypeOK /\ StaysInv /\ PresentIsPresent /\ [SelectionNext]_selectionVars
        => StaysInv' /\ PresentIsPresent'
    <2> SUFFICES ASSUME SelectionTypeOK, StaysInv, PresentIsPresent,
                        [SelectionNext]_selectionVars
                 PROVE  StaysInv' /\ PresentIsPresent'
      OBVIOUS
    <2>1. CASE Import
      BY <2>1, ImportKeepsStays, ImportLeavesCounterparts
    <2>2. ASSUME NEW s \in ExternalTracks, SidecarAppears(s)
          PROVE  StaysInv' /\ PresentIsPresent'
      BY <2>2 DEF SidecarAppears, StaysInv, AsRead, PresentIsPresent, NoImport, Resolved
    <2>3. CASE UNCHANGED selectionVars
      BY <2>3 DEF selectionVars, StaysInv, AsRead, PresentIsPresent, Resolved
    <2>4. QED
      BY <2>1, <2>2, <2>3 DEF SelectionNext
  <1>3. StaysInv => EmbeddedOnce
    BY DEF StaysInv, EmbeddedOnce
  <1>4. QED
    BY <1>1, <1>2, <1>3, SelectionTypeCorrect, PTL DEF SelectionSpec, ReimportIsFaithful

(* Whatever lies beside the file is embedded, within the user's limit, or  *)
(* rejected for a reason that the history can show.                        *)
THEOREM EverySidecarIsDecided ==
    SelectionSpec =>
        [][Import =>
              /\ Cardinality(last'.accepted) <= policy.max
              /\ \A s \in folder :
                    \/ s \in last'.accepted
                    \/ \E why \in RejectCodes : <<s, why>> \in last'.rejected]_selectionVars
  <1>1. ASSUME SelectionTypeOK, Import
        PROVE  /\ Cardinality(last'.accepted) <= policy.max
               /\ \A s \in folder :
                     \/ s \in last'.accepted
                     \/ \E why \in RejectCodes : <<s, why>> \in last'.rejected
    <2>1. SelectionInv(Chosen, KeptTracks, folder, Resolved) /\ Chosen.left = {}
      BY <1>1, ChosenIsSound
    <2>2. Resolved.max = policy.max
      BY <1>1, OtherFieldsAreKept DEF Resolved, SelectionTypeOK
    <2>3. last'.accepted = Chosen.accepted /\ last'.rejected = Chosen.rejected
      BY <1>1, ImportSteps
    <2>4. QED
      BY <2>1, <2>2, <2>3 DEF SelectionInv
  <1>2. QED
    BY <1>1, SelectionTypeCorrect, PTL DEF SelectionSpec

=============================================================================
