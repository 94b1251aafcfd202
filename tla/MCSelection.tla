----------------------------- MODULE MCSelection -----------------------------
(* A German or an English film and its sidecars: six that mkvmerge reports  *)
(* back as discovery read them, two of these tagged, and an .mka, which it  *)
(* reports with the codec of the track inside.                              *)
EXTENDS Selection, TLC

T(kind, language, codec, forced, hi) ==
    [kind |-> kind, language |-> language, codec |-> codec, forced |-> forced, hi |-> hi]

(* A sidecar mkvmerge reports exactly as discovery does. *)
Plain(file, kind, language, codec, forced, hi) ==
    [file |-> file, kind |-> kind, language |-> language, codec |-> codec,
     forced |-> forced, hi |-> hi, variant |-> <<>>,
     stored |-> [language |-> language, codec |-> codec, hi |-> hi]]

ReportedAs(s, codec) == [s EXCEPT !.stored.codec = codec]

Tagged(s, variant) == [s EXCEPT !.variant = variant]

Video == T("video", "und", "h264", FALSE, FALSE)

MCSources ==
    {{Video, T("audio", "ger", "ac3", FALSE, FALSE)},
     {Video, T("audio", "eng", "ac3", FALSE, FALSE), T("subtitles", "deu", "srt", FALSE, FALSE)}}

MCSidecars ==
    {Plain(1, "subtitles", "ger", "srt", TRUE, FALSE),
     Plain(2, "subtitles", "ger", "srt", FALSE, TRUE),
     Plain(3, "subtitles", "ger", "srt", FALSE, FALSE),
     Tagged(Plain(4, "audio", "eng", "ac3", FALSE, FALSE), <<"RHS">>),
     Tagged(Plain(7, "audio", "eng", "ac3", FALSE, FALSE), <<"rhs">>),
     Plain(5, "subtitles", "und", "pgs", FALSE, FALSE),
     ReportedAs(Plain(6, "audio", "eng", "matroska", FALSE, FALSE), "flac")}

P(dedupe, max, images, und, audio, subtitles) ==
    [dedupe |-> dedupe, max |-> max, skipImages |-> images, skipUndetermined |-> und,
     keepAudio |-> audio, keepSubtitles |-> subtitles]

DefaultPolicy == P("language_codec", 24, FALSE, FALSE, {}, {})

MCPolicies ==
    {DefaultPolicy,
     P("language", 2, TRUE, FALSE, {}, {"ger"}),
     P("language_codec", 1, FALSE, TRUE, {"original"}, {"original", "eng"}),
     P("off", 24, FALSE, FALSE, {"eng"}, {})}

MCOriginals == {"none", "deu", "eng"}

MCCanonical == [eng |-> "eng", ger |-> "ger", deu |-> "ger", und |-> "und"]

MCLanguageOrder == [deu |-> 1, eng |-> 2, ger |-> 3, und |-> 4]

MCCaseFold == (<<>> :> "" @@ <<"RHS">> :> "rhs" @@ <<"rhs">> :> "rhs")

MCImageCodecs == {"pgs", "vobsub"}

(* What ReimportsAreFaithful of ImportPipelineProofs rests on. *)
ASSUME MCFlagsAreWritten == FlagsAreWritten
=============================================================================
