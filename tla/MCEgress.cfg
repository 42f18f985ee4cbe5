SPECIFICATION FairSpec
CONSTANTS
    Kinds = {"EMAIL", "NAME"}
    Rank <- MCRank
    Payloads <- MCPayloads
    Recognisers <- MCRecognisers
    Configs <- MCConfigs
    Digest <- MCDigest
    Slices = 2
    MaxKey = 2
    Torn = Torn
INVARIANTS
    EgressTypeOK
    TilesText
    NoMatchLeftWhole
    IssuedTokensResolve
    OneTokenPerEntity
PROPERTIES
    SendEnds
CHECK_DEADLOCK FALSE
