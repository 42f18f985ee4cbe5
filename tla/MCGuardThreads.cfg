SPECIFICATION Spec
CONSTANTS
    capture = capture
    audio = audio
    Threads <- TwoThreads
    MaxDepth = 2
INVARIANTS
    DeniedCallsAreBlocked
