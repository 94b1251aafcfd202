\* Three kinds of folder, five AI settings, and a folder that changes twice.
SPECIFICATION DiscoverySpec
CONSTANTS
    Videos <- MCVideos
    EpisodeOf <- MCEpisodeOf
    Layouts <- MCLayouts
    Leaving <- MCLeaving
    Arriving <- MCArriving
    Declares <- MCDeclares
    Settings <- MCSettings
    Items <- MCItems
    Release <- MCRelease
    Spoken <- MCSpoken
    SxxEyy <- MCSxxEyy
    NxNN <- MCNxNN
    Numbered <- MCNumbered
    GroupTags = {}
    Alias <- MCAlias
    ForcedTokens = {"forced"}
    HearingImpairedTokens = {"sdh", "hi"}
    SignsTokens = {"signs"}
    NoiseTokens = {"sound", "subs", "1080p"}
    EpisodeTokens <- MCEpisodeTokens
    MaxEntries = 5
    MaxTracks = 1
    MaxDescribed = 3
    MaxItems = 2
    MaxFolderChanges = 1
INVARIANTS
    NotShared
    NeverMislabelled
    TagsSurviveShrug
    LabelsOnly
CHECK_DEADLOCK FALSE
