SPECIFICATION Spec
CONSTANTS
    Controls <- MCControls
    MaxResets = 2
CHECK_DEADLOCK FALSE
INVARIANTS
    TypeOK
    ThreadsJoinedFirst
    TurnsDoNotOverlap
    StoppedAfterLoop
PROPERTIES
    StopCompletes
