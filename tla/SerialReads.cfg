CONSTANTS
    BufLen = 2
    MaxBytes = 3
    MaxOps = 4
SPECIFICATION FairSpec
INVARIANTS CleanRead NoByteTwice CompletionWakes
PROPERTIES ReadReturns
