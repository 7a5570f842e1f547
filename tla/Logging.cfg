SPECIFICATION Spec
CONSTANTS
    Producer = {p1, p2}
    MaxMsgs = 4
    NumBackups = 2
    MaxLogSize = 1
    LevelName = "error"
    Levels <- MCLevels
    Failures <- MCFailures
    MaxEnds = 2
INVARIANTS
    LinesInOrder
    DiskBound
    StopFlushes
PROPERTIES
    IsLogStore
    QueueIsServed
    StopReturns
