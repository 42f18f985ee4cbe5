SPECIFICATION FairSpec
CONSTANTS
    Default <- MCDefault
    Overrides <- MCOverrides
    Ids <- MCIds
    Manifests <- MCManifests
    Proposals <- MCProposals
    Grants <- MCGrants
    Absent = Absent
    Torn = Torn
INVARIANTS
    PolicyTakesEffect
CHECK_DEADLOCK FALSE
