SPECIFICATION Spec
CONSTANTS
    run = run
    keys = keys
    Procs <- MCProcs
    RunProc = run
    CliProc = keys
    Overlap = FALSE
    IOFaults = TRUE
    Absent = Absent
    MaxBoots = 2
    MaxSamples = 2
PROPERTIES
    EvidenceNeverOverwritten
CHECK_DEADLOCK FALSE
