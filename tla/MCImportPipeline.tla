-------------------------- MODULE MCImportPipeline --------------------------
EXTENDS ImportPipeline, TLC
CONSTANTS dub, subs

MCKind == (dub :> "audio" @@ subs :> "subtitles")

OneTrackEach == (dub :> 1 @@ subs :> 1)
=============================================================================
