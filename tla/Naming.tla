---------------------------- MODULE Naming ----------------------------
(* Which release and which episodes a file name refers to.              *)
(* A name is a sequence of lower-case words; the regular expressions    *)
(* that find an episode, a year or a group tag in it are the sets of    *)
(* words they match.                                                    *)
EXTENDS Naturals, SequencesExt

CONSTANTS SxxEyy,     \* a word such as s01e02 -> the episodes it names
          NxNN,       \* a word such as 1x02 -> the episode it names
          Numbered,   \* the words with a digit in them
          GroupTags   \* the words in the [brackets] a name opens with

EpisodeRef == [season : Nat, episodes : SUBSET Nat]

\* Films are imported with no reference.
NoEpisode == [season |-> 0, episodes |-> {}]

FirstOf(words, table) ==
    table[words[Min({i \in DOMAIN words : words[i] \in DOMAIN table})]]

\* The first marker of the preferred form.
ParseEpisodeMarker(words) ==
    IF Range(words) \cap DOMAIN SxxEyy # {} THEN FirstOf(words, SxxEyy)
    ELSE IF Range(words) \cap DOMAIN NxNN # {} THEN FirstOf(words, NxNN)
    ELSE NoEpisode

(* Mutant: a file without a marker is for every episode of the pack. *)
BelongsToUnmarked(words, episode, videos) ==
    LET marker == ParseEpisodeMarker(words)
    IN \/ episode = NoEpisode
       \/ marker = NoEpisode
       \/ /\ marker.season = episode.season
          /\ marker.episodes \cap episode.episodes # {}

\* Whether a sidecar is for this import, with so many videos in the folder.
BelongsTo(words, episode, videos) ==
    LET marker == ParseEpisodeMarker(words)
    IN \/ episode = NoEpisode
       \/ marker = NoEpisode /\ videos <= 1
       \/ /\ marker.season = episode.season
          /\ marker.episodes \cap episode.episodes # {}

IsSample(words) == "sample" \in Range(words)

\* The words up to the first year, resolution or episode, at least one.
TitleWords(words) ==
    LET opening == {i \in DOMAIN words : \A j \in 1..i : words[j] \in GroupTags}
        named == SubSeq(words, Cardinality(opening) + 1, Len(words))
        ends == {i \in DOMAIN named : i > 1 /\ named[i] \in Numbered}
    IN IF ends = {} THEN named ELSE SubSeq(named, 1, Min(ends) - 1)

\* Whether two videos could be parts of one release: one title opens the other.
SameRelease(a, b) ==
    \/ IsSample(a) \/ IsSample(b)
    \/ IsPrefix(TitleWords(a), TitleWords(b))
    \/ IsPrefix(TitleWords(b), TitleWords(a))
=======================================================================
