SPECIFICATION FairSpec
CONSTANTS
    run = run
    keys = keys
    Procs <- MCProcs
    RunProc = run
    CliProc = keys
    Overlap = FALSE
    IOFaults = TRUE
    Absent = Absent
    MaxBoots = 2
    MaxSamples = 2
INVARIANTS
    LedgerCitesStoredEvidence
    JournalBackedByEvidence
    JournalGapless
    LedgerFollowsJournal
    UnanchoredOnlyAtTheEnd
    ChainVerifies
    AnchorsNumbered
PROPERTIES
    StopTerminates
CHECK_DEADLOCK FALSE
