CONSTANTS
    c1 = c1
    c2 = c2
    Client <- TwoClients
    NoClient = NoClient
    Messages <- SomeMessages
    MaxMsgs = 2
    MaxChunk = 2
    MaxEpoch = 2
SYMMETRY ClientSymmetry
SPECIFICATION Spec
CHECK_DEADLOCK FALSE
INVARIANTS ListedIffServed OnlyAuthenticated WaitingIsTimed
