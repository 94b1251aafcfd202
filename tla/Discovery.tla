---------------------------- MODULE Discovery ----------------------------
(* How an import finds the sidecars of its video: the listing of the      *)
(* release folder, the verdict of the file names, and the AI provider     *)
(* that may be asked to choose or to name the tracks.  Imports run side   *)
(* by side, and the folder changes while they look: *arr moves imported   *)
(* videos away and the download client adds and removes files.            *)
(*                                                                        *)
(* A file is [folder, stem, suffix]: the names of the folders it is in    *)
(* below the release folder, nearest first, and its own name.             *)
EXTENDS Naming, Language

CONSTANTS Videos,      \* the files imported from the folder
          EpisodeOf,   \* the episode *arr names for each of them
          Layouts,     \* what the folder may hold at first
          Leaving,     \* the files that may go, and the ones that may turn up
          Arriving,
          Declares,    \* the language in a file's own header, where it has one
          Settings,    \* the AI modes and name_tracks choices in use
          Items,       \* what the provider may answer about one file
          Release,     \* what the files really are: the download each is of,
          Spoken,      \* and the language of a sidecar
          MaxEntries, MaxTracks, MaxDescribed, MaxItems, MaxFolderChanges

ExcludedDirNames == {<<"extras">>, <<"featurettes">>, <<"sample">>, <<"samples">>, <<"trailers">>}
MaxScanDepth == 2
AudioExtensions == {".ac3", ".aac", ".flac", ".m4a", ".mka"}
SubtitleExtensions == {".ass", ".idx", ".srt", ".ssa", ".sub", ".sup", ".vtt"}
VideoExtensions == {".avi", ".mkv", ".mp4"}
TaggedSidecarSuffixes == {".idx", ".m4a", ".mka", ".mks"}

File == [folder : Seq(Seq(STRING)), stem : Seq(STRING), suffix : STRING]
Files == (UNION Layouts) \cup Arriving
Titles == [name : STRING, qualifiers : Seq(STRING)]

ASSUME DiscoveryAssumption ==
    /\ \A f \in Files \cup Videos : f \in File
    /\ \A code \in Range(Alias) : code \in STRING
    /\ \A text \in {"", Undetermined, "Signs", "Forced", "SDH"} : text \in STRING
    /\ \A item \in Items : item.language \in LanguageCodes /\ item.title \in Titles
    /\ IsFiniteSet(Files)
    /\ MaxFolderChanges \in Nat /\ MaxItems \in Nat /\ MaxDescribed \in Nat

VARIABLES contents,   \* what the folder holds
          settings,   \* [mode, nameTracks], read when the pipeline was built
          at,         \* where each video's discovery is
          listed,     \* the folder as it was listed
          found,      \* the tracks by the file names
          ask,        \* [index, tagged, format, reply]: the question and the answer
          tracks,     \* the result
          folderChanges \* how often the folder has changed

discovery == <<at, listed, found, ask, tracks>>
discoveryVars == <<contents, settings, discovery, folderChanges>>

-----------------------------------------------------------------------------
(* The listing *)

Path(f) == f.stem \o <<f.suffix>>
IsVideo(f) == f.suffix \in VideoExtensions

\* A file is listed to a depth of two, outside the folders that hold extras.
IndexCandidates(present) ==
    {f \in present : /\ Len(f.folder) <= MaxScanDepth
                     /\ Range(f.folder) \cap ExcludedDirNames = {}}

\* Beside another release's video nothing is the video's own.
ReleaseFolder(video, present) ==
    LET indexed == IndexCandidates(present)
        strangers == {f \in indexed : IsVideo(f) /\ ~SameRelease(video.stem, f.stem)}
    IN IF strangers # {} THEN [candidates |-> {}, videos |-> {video}]
       ELSE [candidates |-> indexed, videos |-> {f \in indexed : f.folder = <<>> /\ IsVideo(f)}]

Companion(f) == [f EXCEPT !.suffix = ".sub"]

\* A track by its extension; the .sub of a VobSub pair comes with its .idx.
Embeddable(f, present) ==
    \/ f.suffix \in AudioExtensions
    \/ f.suffix \in SubtitleExtensions \ {".sub", ".idx"}
    \/ f.suffix = ".idx" /\ Companion(f) \in present

KindOf(f) == IF f.suffix \in AudioExtensions THEN "audio" ELSE "subtitles"

\* The language a file's own header declares, as far as it can be read.
EmbeddedLanguage(f, present) ==
    IF f \in present \cap DOMAIN Declares /\ f.suffix \in TaggedSidecarSuffixes
    THEN NormaliseLanguage(Declares[f]) ELSE Undetermined

-----------------------------------------------------------------------------
(* The verdict of the file names *)

Track(f, attrs, language, title, source) ==
    [path |-> f, kind |-> KindOf(f), paired |-> f.suffix = ".idx", language |-> language,
     forced |-> attrs.forced, hearingImpaired |-> attrs.hearingImpaired,
     variant |-> attrs.variant, title |-> title, source |-> source]

\* The header is asked only when the names say nothing.
ToExternalTrack(video, f, present) ==
    LET attrs == Infer(f.stem, video.stem, f.folder)
        declared == EmbeddedLanguage(f, present)
    IN IF attrs.language # Undetermined \/ declared = Undetermined
       THEN Track(f, attrs, attrs.language, attrs.title, "heuristic")
       ELSE Track(f, attrs, declared,
                  BuildTitle(declared, attrs.forced, attrs.hearingImpaired, attrs.signs,
                             attrs.variant), "tags")

HeuristicTracks(video, folder, present) ==
    {ToExternalTrack(video, f, present) :
        f \in {c \in folder.candidates \ {video} :
                  /\ BelongsTo(Path(c), EpisodeOf[video], Cardinality(folder.videos))
                  /\ Embeddable(c, present)}}

-----------------------------------------------------------------------------
(* The question to the provider and its answer *)

WantsAiSelection(names) ==
    \/ settings.mode # "fallback"
    \/ names = {}
    \/ \E t \in names : t.language = Undetermined

ShouldConsult(names) ==
    /\ settings.mode # "off"
    /\ \/ settings.mode \in {"always", "verify"}
       \/ settings.nameTracks
       \/ WantsAiSelection(names)

\* What may be described: at most so many files, the episode's own first.
WorthDescribing(video, candidates, videos) ==
    LET own == {f \in candidates : BelongsTo(Path(f), EpisodeOf[video], videos)}
    IN {d \in SUBSET candidates :
          /\ Cardinality(d) = Min({MaxDescribed, Cardinality(candidates)})
          /\ own \subseteq d \/ d \subseteq own}

Shrug == [forced |-> FALSE, hearingImpaired |-> FALSE, variant |-> ""]

(* Mutant: the provider's "und" is an answer like any other. *)
ToTrackShrugged(item, tagged) ==
    Track(item.file, Shrug, item.language,
          IF item.title # NoTitle THEN item.title
          ELSE BuildTitle(item.language, FALSE, FALSE, FALSE, ""), "ai")

\* A shrug keeps what the file declares, and a missing title is derived.
ToTrack(item, tagged) ==
    LET language == IF item.language = Undetermined /\ item.file \in DOMAIN tagged
                    THEN tagged[item.file] ELSE item.language
    IN Track(item.file, Shrug, language,
             IF item.title # NoTitle THEN item.title
             ELSE BuildTitle(language, FALSE, FALSE, FALSE, ""), "ai")

\* The first answer about each listed, usable file, up to the limit.
Materialise(reply, index, tagged, present) ==
    LET usable(i) == reply[i].file \in index /\ Embeddable(reply[i].file, present)
        kept == {i \in DOMAIN reply : /\ usable(i)
                                      /\ \A j \in 1..(i-1) : reply[j].file # reply[i].file}
        first == {i \in kept : Cardinality({j \in kept : j < i}) < MaxTracks}
    IN {ToTrack(reply[i], tagged) : i \in first}

Titled(t, title) ==
    [path |-> t.path, kind |-> t.kind, paired |-> t.paired, language |-> t.language,
     forced |-> t.forced, hearingImpaired |-> t.hearingImpaired, variant |-> t.variant,
     title |-> title, source |-> t.source]

\* The titles of the answer on the tracks of the file names.
Renamed(names, proposed) ==
    LET better(t) == {p \in proposed : p.path = t.path /\ p.title # NoTitle}
    IN {IF better(t) = {} THEN t ELSE Titled(t, (CHOOSE p \in better(t) : TRUE).title) :
            t \in names}

(* Mutant: asked for names only, the provider's selection is taken. *)
SettledTakesProposal(names, proposed) ==
    IF proposed = {} \/ settings.mode = "verify" THEN names ELSE proposed

\* No answer keeps the result of the names, and so does verify mode.
Settled(names, proposed) ==
    IF proposed = {} \/ settings.mode = "verify" THEN names
    ELSE IF settings.nameTracks /\ names # {} /\ ~WantsAiSelection(names)
         THEN Renamed(names, proposed)
         ELSE proposed

-----------------------------------------------------------------------------
(* One discovery *)

NoListing == [candidates |-> {}, videos |-> {}]
NoTags == [f \in {} |-> Undetermined]
NoQuestion == [index |-> {}, tagged |-> NoTags, format |-> TRUE, reply |-> <<>>]

DiscoveryInit ==
    /\ contents \in Layouts
    /\ settings \in Settings
    /\ at = [v \in Videos |-> "idle"]
    /\ listed = [v \in Videos |-> NoListing]
    /\ found = [v \in Videos |-> {}]
    /\ ask = [v \in Videos |-> NoQuestion]
    /\ tracks = [v \in Videos |-> {}]
    /\ folderChanges = 0

Moves(v, from, to) == at[v] = from /\ at' = [at EXCEPT ![v] = to]

\* The source has just been probed, so it is there.
List(v) ==
    /\ Moves(v, "idle", "listed") /\ v \in contents
    /\ listed' = [listed EXCEPT ![v] = ReleaseFolder(v, contents)]
    /\ UNCHANGED <<contents, settings, found, ask, tracks, folderChanges>>

\* The listed files are classified later than they are listed.
Classify(v) ==
    LET names == HeuristicTracks(v, listed[v], contents)
        consults == ShouldConsult(names)
    IN /\ Moves(v, "listed", IF consults THEN "consult" ELSE "done")
       /\ found' = [found EXCEPT ![v] = names]
       /\ tracks' = [tracks EXCEPT ![v] = IF consults THEN {} ELSE names]
       /\ listed' = [listed EXCEPT ![v] = NoListing]
       /\ UNCHANGED <<contents, settings, ask, folderChanges>>

\* The folder is listed again, and every usable file of it may be named in
\* the answer, the other episodes' too.
BuildPrompt(v) ==
    LET folder == ReleaseFolder(v, contents)
        index == {f \in folder.candidates \ {v} : Embeddable(f, contents)}
        nothing == index = {} \/ Cardinality(index) > MaxEntries
    IN /\ Moves(v, "consult", IF nothing THEN "done" ELSE "asking")
       /\ tracks' = [tracks EXCEPT ![v] = IF nothing THEN found[v] ELSE {}]
       /\ IF nothing THEN UNCHANGED ask
          ELSE \E described \in WorthDescribing(v, index, Cardinality(folder.videos)) :
                 LET declared == {f \in described : EmbeddedLanguage(f, contents) # Undetermined}
                 IN ask' = [ask EXCEPT ![v] =
                        [index |-> index,
                         tagged |-> [f \in declared |-> EmbeddedLanguage(f, contents)],
                         format |-> TRUE, reply |-> <<>>]]
       /\ UNCHANGED <<contents, settings, listed, found, folderChanges>>

Post(v) ==
    /\ Moves(v, "asking", "sent")
    /\ UNCHANGED <<contents, settings, listed, found, ask, tracks, folderChanges>>

\* A provider that refuses response_format is asked once more without it.
RejectFormat(v) ==
    /\ Moves(v, "sent", "asking") /\ ask[v].format
    /\ ask' = [ask EXCEPT ![v].format = FALSE]
    /\ UNCHANGED <<contents, settings, listed, found, tracks, folderChanges>>

\* A timeout, an error status, an empty or oversized reply.
ProviderFails(v) ==
    /\ Moves(v, "sent", "done")
    /\ tracks' = [tracks EXCEPT ![v] = found[v]]
    /\ ask' = [ask EXCEPT ![v] = NoQuestion]
    /\ UNCHANGED <<contents, settings, listed, found, folderChanges>>

\* Any reply at all: files the folder never held, a file twice, no files.
Answer(v) ==
    /\ Moves(v, "sent", "answered")
    /\ \E reply \in BoundedSeq(Items, MaxItems) : ask' = [ask EXCEPT ![v].reply = reply]
    /\ UNCHANGED <<contents, settings, listed, found, tracks, folderChanges>>

Conclude(v) ==
    LET proposed == Materialise(ask[v].reply, ask[v].index, ask[v].tagged, contents)
    IN /\ Moves(v, "answered", "done")
       /\ tracks' = [tracks EXCEPT ![v] = Settled(found[v], proposed)]
       /\ ask' = [ask EXCEPT ![v] = NoQuestion]
       /\ UNCHANGED <<contents, settings, listed, found, folderChanges>>

\* *arr moves an imported video away, someone deletes a sidecar.
Leaves(f) ==
    /\ f \in contents \cap Leaving /\ folderChanges < MaxFolderChanges
    /\ contents' = contents \ {f} /\ folderChanges' = folderChanges + 1
    /\ UNCHANGED <<settings, discovery>>

\* The download client writes another sidecar, or another download.
Arrives(f) ==
    /\ f \notin contents /\ f \in Arriving /\ folderChanges < MaxFolderChanges
    /\ contents' = contents \cup {f} /\ folderChanges' = folderChanges + 1
    /\ UNCHANGED <<settings, discovery>>

Reply(v) == RejectFormat(v) \/ ProviderFails(v) \/ Answer(v)

Step(v) == List(v) \/ Classify(v) \/ BuildPrompt(v) \/ Post(v) \/ Reply(v) \/ Conclude(v)

DiscoveryNext ==
    \/ \E v \in Videos : Step(v)
    \/ \E f \in Files : Leaves(f) \/ Arrives(f)

DiscoverySpec == DiscoveryInit /\ [][DiscoveryNext]_discoveryVars

-----------------------------------------------------------------------------
(* Properties *)

Tracks == [path : Files, kind : {"audio", "subtitles"}, paired : BOOLEAN,
           language : LanguageCodes,
           forced : BOOLEAN, hearingImpaired : BOOLEAN, variant : STRING,
           title : Titles,
           source : {"heuristic", "tags", "ai"}]

\* In particular a track is of a file the folder held, whatever was replied.
DiscoveryTypeOK ==
    /\ contents \subseteq Files
    /\ settings \in Settings
    /\ at \in [Videos -> {"idle", "listed", "consult", "asking", "sent", "answered", "done"}]
    /\ listed \in [Videos -> [candidates : SUBSET Files, videos : SUBSET Files]]
    /\ found \in [Videos -> SUBSET Tracks]
    /\ tracks \in [Videos -> SUBSET Tracks]
    /\ DOMAIN ask = Videos
    /\ \A v \in Videos :
         /\ ask[v].index \subseteq Files /\ DOMAIN ask[v].tagged \subseteq ask[v].index
         /\ Range(ask[v].tagged) \subseteq LanguageCodes
         /\ ask[v].format \in BOOLEAN /\ ask[v].reply \in Seq(Items)
    /\ folderChanges \in 0..MaxFolderChanges

\* The tracks the file names chose.
ByName(v) == {t \in tracks[v] : t.source # "ai"}

\* The file's marker names an episode of the video's.
MeantFor(f, v) ==
    LET marker == ParseEpisodeMarker(Path(f))
    IN /\ marker.season = EpisodeOf[v].season
       /\ marker.episodes \cap EpisodeOf[v].episodes # {}

\* Two imports never take one sidecar on the strength of its name, unless
\* the name says that it is for both, while the folder's videos come and go
\* in their own time: the count of videos and the markers are read from one
\* listing.
NotShared ==
    \A v, w \in Videos :
        \A t \in ByName(v), u \in ByName(w) :
            t.path = u.path /\ v # w => MeantFor(t.path, v) /\ MeantFor(t.path, w)

\* A folder that is complete when its imports begin: its videos lie at its
\* top, none turns up later, and a film, with no episode to tell its sidecars
\* by, has no other imported video beside it.
CompleteRelease ==
    /\ \A v \in Videos : v.folder = << >> /\ IsVideo(v) /\ v \notin Arriving
    /\ \A v \in Videos : EpisodeOf[v] = NoEpisode =>
          \A held \in Layouts : v \in held => Videos \cap held \subseteq {v}

\* The titles aside, a track.
Unnamed(t) == Titled(t, NoTitle)

\* With the names conclusive, and in verify mode, the provider changes no
\* track, no language and no flag: at most the titles, and in verify nothing.
LabelsOnly ==
    \A v \in Videos : at[v] = "done" =>
        /\ settings.mode \in {"off", "verify"} => tracks[v] = found[v]
        /\ ~WantsAiSelection(found[v]) =>
              {Unnamed(t) : t \in tracks[v]} = {Unnamed(t) : t \in found[v]}

\* A file that is the video's own however many videos the folder holds, and
\* the language that its own header declares.
Owns(v, f) == BelongsTo(Path(f), EpisodeOf[v], 2)
Declared(f) == EmbeddedLanguage(f, {f})

\* All that could ever be a video's own, its folder being what it is, may be
\* described to the provider.
AllOwnDescribed ==
    \A held \in Layouts, v \in Videos :
        LET all == held \cup Arriving
            own == {f \in IndexCandidates(all) : /\ Embeddable(f, all)
                                                 /\ BelongsTo(Path(f), EpisodeOf[v], 1)}
        IN v \in all => Cardinality(own) <= MaxDescribed

\* When the provider shrugs at a file of the video's own, the language its
\* header declares stands: the video's own files are described first.
TagsSurviveShrug ==
    \A v \in Videos : \A t \in tracks[v] :
        t.source = "ai" /\ Owns(v, t.path) /\ Declared(t.path) # Undetermined
        => t.language # Undetermined

\* Video s, if it lies there, shows that the folder is shared with another
\* download than v's.
Stranger(v, s) ==
    s \in IndexCandidates({s}) /\ IsVideo(s) /\ ~SameRelease(v.stem, s.stem)

Together(v, f) == \E held \in Layouts : {v, f} \subseteq held \cup Arriving

IsSidecar(f) == f.suffix \in AudioExtensions \cup SubtitleExtensions

\* Another download's sidecars lie there with a video of it, which stays.
StrangersAreSeen ==
    \A held \in Layouts, v \in Videos, f \in Files :
        /\ {v, f} \subseteq held \cup Arriving /\ Release[f] # Release[v]
        /\ IsSidecar(f)
        => \E s \in held \ Leaving : Stranger(v, s)

\* The names that tell about a file: its own, as far as it is not the video's,
\* then its folders', the nearest first.
NamesOf(v, f) == <<StripVideoStem(f.stem, v.stem)>> \o f.folder

\* The last language that a name has a word for.
EndsWith(name, language) ==
    \E i \in DOMAIN name :
        /\ NamesLanguage(name[i]) /\ Alias[name[i]] = language
        /\ \A k \in DOMAIN name : NamesLanguage(name[k]) => k <= i

Tongues == LanguageCodes \ {Undetermined}

\* Whoever named what may be the video's wrote the language last, on the file
\* or else on the nearest folder that has one, and tagged no file wrongly.
NamesAreTrue ==
    \A v \in Videos, f \in Files :
        /\ Together(v, f) /\ BelongsTo(Path(f), EpisodeOf[v], 1)
        => \A n \in DOMAIN NamesOf(v, f), language \in Tongues :
               /\ EndsWith(NamesOf(v, f)[n], language)
               /\ \A m \in 1..(n-1), other \in Tongues : ~EndsWith(NamesOf(v, f)[m], other)
               => language = Spoken[f]

TagsAreTrue == \A f \in Files : Declared(f) \in {Undetermined, Spoken[f]}

\* No import takes a file of another download, beside its video or below,
\* and a language the names or the header settled is the one spoken: a folder
\* shared with a stranger, the title of the show, a folder further out and a
\* group's name mislead nobody.
NeverMislabelled ==
    \A v \in Videos :
        /\ \A t \in tracks[v] : Release[t.path] = Release[v]
        /\ \A t \in ByName(v) : t.language \in {Undetermined, Spoken[t.path]}
==========================================================================
