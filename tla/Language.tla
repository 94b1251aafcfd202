---------------------------- MODULE Language ----------------------------
(* What the name of a sidecar and of its folders say about the track:    *)
(* its language, its flags, and the group that made it.                  *)
EXTENDS Naturals, SequencesExt

CONSTANTS Alias,                 \* a word that names a language -> its code
          ForcedTokens, HearingImpairedTokens, SignsTokens,
          NoiseTokens,           \* release metadata that names no group
          EpisodeTokens          \* s01e02, and plain numbers

Undetermined == "und"

\* Every code a track can carry: those of the language table, and "und".
LanguageCodes == Range(Alias) \cup {Undetermined}

\* The words that name no group: release metadata, flags, episodes, languages.
NamesNoGroup ==
    UNION {NoiseTokens, ForcedTokens, HearingImpairedTokens, SignsTokens,
           EpisodeTokens, DOMAIN Alias}

NormaliseLanguage(word) == IF word \in DOMAIN Alias THEN Alias[word] ELSE Undetermined

\* A sidecar named after the video says only what follows the video's name.
StripVideoStem(stem, videoStem) ==
    IF IsPrefix(videoStem, stem) THEN SubSeq(stem, Len(videoStem) + 1, Len(stem)) ELSE stem

NamesLanguage(word) ==
    word \in DOMAIN Alias \ (ForcedTokens \cup HearingImpairedTokens)

(* Mutant: the first word that names a language counts. *)
RightmostLanguageIsFirst(tokens) ==
    LET named == {i \in DOMAIN tokens : NamesLanguage(tokens[i])}
    IN IF named = {} THEN Undetermined ELSE Alias[tokens[Min(named)]]

RightmostLanguage(tokens) ==
    LET named == {i \in DOMAIN tokens : NamesLanguage(tokens[i])}
    IN IF named = {} THEN Undetermined ELSE Alias[tokens[Max(named)]]

\* The file's own name first, then its folders, the nearest first.
InferLanguage(names) ==
    LET told == {i \in DOMAIN names : RightmostLanguage(names[i]) # Undetermined}
    IN IF told = {} THEN Undetermined ELSE RightmostLanguage(names[Min(told)])

IsVariant(word) == word \notin NamesNoGroup

\* The last word that is nothing else, of the nearest name that has one.
VariantTag(names) ==
    LET groups(name) == {i \in DOMAIN name : IsVariant(name[i])}
        told == {i \in DOMAIN names : groups(names[i]) # {}}
        nearest == names[Min(told)]
    IN IF told = {} THEN "" ELSE nearest[Max(groups(nearest))]

NoTitle == [name |-> "", qualifiers |-> <<>>]

\* "Russian (Group, Forced)"; a language without a name leaves the qualifiers.
BuildTitle(language, forced, hearingImpaired, signs, variant) ==
    [name |-> IF language = Undetermined THEN "" ELSE language,
     qualifiers |-> (IF variant # "" THEN <<variant>> ELSE <<>>)
                 \o (IF signs THEN <<"Signs">> ELSE IF forced THEN <<"Forced">> ELSE <<>>)
                 \o (IF hearingImpaired THEN <<"SDH">> ELSE <<>>)]

Infer(stem, videoStem, context) ==
    LET names == <<StripVideoStem(stem, videoStem)>> \o context
        combined == UNION {Range(names[i]) : i \in DOMAIN names}
        signs == combined \cap SignsTokens # {}
        forced == signs \/ combined \cap ForcedTokens # {} \/ {"foreign", "parts"} \subseteq combined
        hearingImpaired == combined \cap HearingImpairedTokens # {}
        language == InferLanguage(names)
        variant == VariantTag(names)
    IN [language |-> language, forced |-> forced, hearingImpaired |-> hearingImpaired,
        signs |-> signs, variant |-> variant,
        title |-> BuildTitle(language, forced, hearingImpaired, signs, variant)]
=========================================================================
