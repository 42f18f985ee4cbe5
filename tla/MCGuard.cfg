SPECIFICATION Spec
CONSTANTS
    capture = capture
    audio = audio
    Threads <- OneThread
    MaxDepth = 5
INVARIANTS
    DeniedCallsAreBlocked
    AllowedCallsConnect
