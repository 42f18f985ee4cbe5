SPECIFICATION FairSpec
CONSTANTS
    Default <- MCDefault
    Overrides <- MCOverrides
    Ids <- MCIds
    Manifests <- MCManifests
    Proposals <- MCProposals
    Grants <- MCGrants
    Absent = Absent
    Torn = Torn
INVARIANTS
    OnlyAdmittedCodeRuns
    DependenciesLoaded
    SafeModeHolds
    TableMatchesLoaded
    WrittenSurvives
PROPERTIES
    BootEnds
