------------------------------ MODULE Selection ------------------------------
(***************************************************************************)
(* domain/selection.py: which of the source's own tracks survive a remux,  *)
(* which sidecars are embedded, and what that does to a file that is       *)
(* imported again and again with its sidecars still beside it.             *)
(*                                                                         *)
(* A track is what the prober reports of it.  A sidecar is what discovery  *)
(* says of a file, and "stored" is the track the prober will report once   *)
(* mkvmerge has embedded it: mkvmerge writes its own language and codec    *)
(* names, which need not be the ones discovery read off the file name.     *)
(* Nothing reads the order of a container's tracks, nor that of the        *)
(* accepted sidecars: both are sets.  The order in which candidates are    *)
(* considered decides what is accepted, and is kept.                       *)
(***************************************************************************)
EXTENDS Integers, FiniteSets

CONSTANTS
    ExternalTracks, \* sidecars that may lie beside the source
    Sources,        \* what the source may hold: sets of tracks
    Policies,       \* the user's selection policies
    Originals,      \* original languages *arr may report; "none": it did not
    Canonical,      \* canonical_language: one spelling per language
    LanguageOrder,  \* the order of the language codes as strings
    CaseFold,       \* lower(), on variant tags; <<>> stands for no tag
    ImageCodecs,    \* IMAGE_SUBTITLE_FAMILIES
    MaxImports      \* bound: imports of the same file

Languages == DOMAIN Canonical

KindOrder == [video |-> 0, audio |-> 1, subtitles |-> 2]

DedupeModes == {"off", "language", "language_codec"}

ASSUME SelectionAssumption ==
    /\ MaxImports \in Nat
    /\ \A l \in Languages : Canonical[Canonical[l]] = Canonical[l]
    /\ LanguageOrder \in [Languages -> Nat]
    /\ IsFiniteSet(ExternalTracks)
    /\ \A s \in ExternalTracks :
           s \in [file : Nat, kind : DOMAIN KindOrder, language : Languages,
                  codec : STRING, forced : BOOLEAN, hi : BOOLEAN,
                  variant : DOMAIN CaseFold,
                  stored : [language : Languages, codec : STRING, hi : BOOLEAN]]
    /\ \A p \in Policies :
           p \in [dedupe : DedupeModes, max : Nat, skipImages : BOOLEAN,
                  skipUndetermined : BOOLEAN,
                  keepAudio : SUBSET (Languages \cup {"original"}),
                  keepSubtitles : SUBSET (Languages \cup {"original"})]

-----------------------------------------------------------------------------
(* Keep lists. *)

KeepList(policy, kind) ==
    CASE kind = "audio" -> policy.keepAudio
      [] kind = "subtitles" -> policy.keepSubtitles
      [] OTHER -> {}

Keeps(policy, kind, language) ==
    KeepList(policy, kind) = {} \/ Canonical[language] \in KeepList(policy, kind)

ResolveOriginal(wanted, original) ==
    IF "original" \notin wanted THEN wanted
    ELSE IF original = "none" THEN {}
    ELSE (wanted \ {"original"}) \cup {Canonical[original]}

WithOriginal(policy, original) ==
    [policy EXCEPT !.keepAudio = ResolveOriginal(@, original),
                   !.keepSubtitles = ResolveOriginal(@, original)]

Prune(tracks, policy) ==
    [kept    |-> {t \in tracks : Keeps(policy, t.kind, t.language)},
     removed |-> {t \in tracks : ~ Keeps(policy, t.kind, t.language)}]

-----------------------------------------------------------------------------
(* De-duplication. *)

(* Mutant: the hearing-impaired flag is no part of a track's identity. *)
SignatureWithoutHi(t, variant, policy) ==
    IF policy.dedupe = "off" THEN <<>>
    ELSE <<t.kind, t.language,
           IF policy.dedupe = "language" THEN "any" ELSE t.codec,
           t.forced, CaseFold[variant]>>

(* <<>> when de-duplication is off. *)
Signature(t, variant, policy) ==
    IF policy.dedupe = "off" THEN <<>>
    ELSE <<t.kind, t.language,
           IF policy.dedupe = "language" THEN "any" ELSE t.codec,
           t.forced, t.hi, CaseFold[variant]>>

NoTag == <<>>

Seen(tracks, policy) == {Signature(t, NoTag, policy) : t \in tracks}

PolicyRejection(s, policy) ==
    CASE policy.skipImages /\ s.codec \in ImageCodecs -> "image_subtitle"
      [] policy.skipUndetermined /\ s.language = "und" -> "undetermined_language"
      [] ~ Keeps(policy, s.kind, s.language) -> "language_not_kept"
      [] OTHER -> "none"

RejectCodes == {"image_subtitle", "undetermined_language", "language_not_kept",
                "already_present", "track_limit"}

AsNumber(b) == IF b THEN 1 ELSE 0

SortKey(s) == <<KindOrder[s.kind], LanguageOrder[s.language],
                AsNumber(s.forced), AsNumber(s.hi), s.file>>

(* Audio before subtitles, then by language, forced last within one. *)
Precedes(r, s) ==
    \E i \in 1..5 : /\ SortKey(r)[i] < SortKey(s)[i]
                    /\ \A k \in 1..(i - 1) : SortKey(r)[k] = SortKey(s)[k]

First(candidates) ==
    CHOOSE s \in candidates : \A r \in candidates : ~ Precedes(r, s)

(* What the next candidate adds to the selection made so far. *)
Consider(sofar, policy) ==
    LET s == First(sofar.left)
        sig == Signature(s, s.variant, policy)
        code == PolicyRejection(s, policy)
        rest == sofar.left \ {s}
        Reject(why) ==
            [left |-> rest, accepted |-> sofar.accepted,
             rejected |-> sofar.rejected \cup {<<s, why>>}, seen |-> sofar.seen]
    IN  IF code # "none" THEN Reject(code)
        ELSE IF sig # <<>> /\ sig \in sofar.seen THEN Reject("already_present")
        ELSE IF Cardinality(sofar.accepted) >= policy.max THEN Reject("track_limit")
        ELSE [left |-> rest, accepted |-> sofar.accepted \cup {s},
              rejected |-> sofar.rejected, seen |-> sofar.seen \cup {sig}]

Select(tracks, candidates, policy) ==
    LET sofar[n \in 0..Cardinality(candidates)] ==
            IF n = 0
            THEN [left |-> candidates, accepted |-> {}, rejected |-> {},
                  seen |-> Seen(tracks, policy)]
            ELSE Consider(sofar[n - 1], policy)
    IN  sofar[Cardinality(candidates)]

-----------------------------------------------------------------------------
(* Whether the result is worth a mux (_check_worth_muxing). *)

Audio(tracks) == {t \in tracks : t.kind = "audio"}

(* Mutant: a file may be left silent. *)
WorthMuxingSilent(tracks, pruning, accepted) ==
    accepted # {} \/ pruning.removed # {}

WorthMuxing(tracks, pruning, accepted) ==
    /\ accepted # {} \/ pruning.removed # {}
    /\ Audio(tracks) # {} => Audio(pruning.kept) # {} \/ Audio(accepted) # {}

(* What the prober reports of an embedded sidecar. *)
Embedded(s) == [kind |-> s.kind, language |-> s.stored.language,
                codec |-> s.stored.codec, forced |-> s.forced, hi |-> s.stored.hi]

-----------------------------------------------------------------------------
(* The same file, imported repeatedly. *)

VARIABLES
    policy,     \* the settings' selection policy
    original,   \* what *arr reports of this title
    container,  \* the tracks of the file
    folder,     \* the sidecars beside it
    imports,    \* how often it was imported
    embeds,     \* auxiliary: how often each sidecar was embedded
    last        \* auxiliary: what the last import decided

selectionVars == <<policy, original, container, folder, imports, embeds, last>>

NoImport == [muxed |-> FALSE, accepted |-> {}, rejected |-> {}]

SelectionInit ==
    /\ policy \in Policies
    /\ original \in Originals
    /\ container \in Sources
    /\ folder = {}
    /\ imports = 0
    /\ embeds = [s \in ExternalTracks |-> 0]
    /\ last = NoImport

(* A sidecar turns up: another file of the release, or a later download. *)
SidecarAppears(s) ==
    /\ s \notin folder
    /\ folder' = folder \cup {s}
    /\ last' = NoImport
    /\ UNCHANGED <<policy, original, container, imports, embeds>>

Import ==
    LET p == WithOriginal(policy, original)
        pruning == Prune(container, p)
        chosen == Select(pruning.kept, folder, p)
        took == chosen.accepted
        muxed == WorthMuxing(container, pruning, took)
    IN  /\ imports < MaxImports
        /\ imports' = imports + 1
        /\ last' = [muxed |-> muxed, accepted |-> took, rejected |-> chosen.rejected]
        /\ IF muxed
           THEN /\ container' = pruning.kept \cup {Embedded(s) : s \in took}
                /\ embeds' = [s \in ExternalTracks |-> embeds[s] + AsNumber(s \in took)]
           ELSE UNCHANGED <<container, embeds>>
        /\ UNCHANGED <<policy, original, folder>>

SelectionNext == Import \/ \E s \in ExternalTracks : SidecarAppears(s)

SelectionSpec == SelectionInit /\ [][SelectionNext]_selectionVars

-----------------------------------------------------------------------------

SelectionTypeOK ==
    /\ policy \in Policies
    /\ original \in Originals
    /\ folder \subseteq ExternalTracks
    /\ imports \in 0..MaxImports
    /\ embeds \in [ExternalTracks -> Nat]
    /\ last.accepted \subseteq folder
    /\ last.rejected \subseteq folder \X RejectCodes

(* mkvmerge is told a sidecar's language and its hearing-impaired flag,    *)
(* and the prober reads both back, the language in whatever spelling.  (An *)
(* mkvmerge too old for the flag is not told it.)                          *)
FlagsAreWritten ==
    \A s \in ExternalTracks :
        /\ Canonical[s.stored.language] = Canonical[s.language]
        /\ s.stored.hi = s.hi

(* Whether the prober reports an embedded sidecar with the identity that   *)
(* discovery read off its name.  It does not for an .mka: discovery calls  *)
(* its codec "matroska", the prober the codec of the track inside.         *)
AsRead(s) ==
    /\ s.stored.language = s.language
    /\ s.stored.hi = s.hi
    /\ policy.dedupe = "language" \/ s.stored.codec = s.codec

(* Importing a file again with its sidecars still beside it adds none of   *)
(* them a second time, whatever else has turned up since, unless the user  *)
(* switched de-duplication off.  selection.py says so of every sidecar.    *)
(* It does not hold of one with a group's tag, which the container does    *)
(* not record, nor of one that is reported back otherwise than it was      *)
(* read: those are embedded again by every import.                         *)
EmbeddedOnce ==
    policy.dedupe # "off" =>
        \A s \in ExternalTracks : s.variant = NoTag /\ AsRead(s) => embeds[s] <= 1

(* A sidecar passed over as already present has a counterpart in the file  *)
(* that stands for it: same kind, language and flags.  Else an import that *)
(* embeds something else would lose it, since *arr is told not to bring    *)
(* extra files along.                                                      *)
PresentIsPresent ==
    last.muxed =>
        \A s \in folder : <<s, "already_present">> \in last.rejected =>
            \E t \in container :
                /\ t.kind = s.kind
                /\ Canonical[t.language] = Canonical[s.language]
                /\ t.forced = s.forced
                /\ t.hi = s.hi

ReimportIsFaithful == EmbeddedOnce /\ PresentIsPresent

(* A file that could be heard can still be heard after every import. *)
NeverSilenced ==
    [][Audio(container) # {} => Audio(container') # {}]_selectionVars

=============================================================================
