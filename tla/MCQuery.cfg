SPECIFICATION FairSpec
CONSTANTS
    Day = 2
    Zones <- MCZones
    Instants <- MCInstants
    Film = Film
    Win = Win
    P1 = P1
    P2 = P2
    Ids = {Film, Win}
    Filmed = {Film}
    Shots <- MCShots
    At <- MCAt
    Titles <- MCTitles
    Vision <- MCVision
    Ocr <- MCOcr
    Asks <- MCAsks
    Queriers = {P1, P2}
    Zone <- MCZone
    Tie = 0
    Limit = 1
    AllowExtract = TRUE
    MaxMishaps = 1
    Rewrapped = {Film}
    SamplerKeys = {0}
    Absent = Absent
    Torn = Torn
    NoText = NoText
    NoTime = NoTime
    Fails = Fails
INVARIANTS
    WindowsAreLocalDays
    
    NothingFoundNothingThere
PROPERTIES
    AskedAgainItIsFound
CHECK_DEADLOCK FALSE
