\* Two imports of one file; seven sidecars, two of them tagged and
\* one reported back with another codec, turn up in any order.
SPECIFICATION SelectionSpec
CONSTANTS
    ExternalTracks <- MCSidecars
    Sources <- MCSources
    Policies <- MCPolicies
    Originals <- MCOriginals
    Canonical <- MCCanonical
    LanguageOrder <- MCLanguageOrder
    CaseFold <- MCCaseFold
    ImageCodecs <- MCImageCodecs
    MaxImports = 2
INVARIANT ReimportIsFaithful
PROPERTY NeverSilenced
CHECK_DEADLOCK FALSE
