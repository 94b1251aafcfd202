\* Two sidecars, two changes by other programs and a kill, scratch beside the
\* output or on a filesystem of its own.
SPECIFICATION Spec
CONSTANTS
    dub = dub
    subs = subs
    Sidecars = {dub, subs}
    Kind <- MCKind
    TrackCount <- OneTrackEach
    Verdicts = {"take", "language_not_kept", "already_present"}
    MaxChanges = 2
    MaxKills = 1
INVARIANTS OnlyRenameTouches OutputIsWhole NoStagingLeft NoSubtitleLost
CHECK_DEADLOCK FALSE
