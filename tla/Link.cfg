CONSTANTS
    Versions = {3, 4, 5}
    Known <- KnownVersions
    SeqMod = 3
    LineCap = 2
    MaxNotif = 2
    MaxCmds = 1
    MaxLost = 1
    MaxBoots = 1
SPECIFICATION FairManagerSpec
CHECK_DEADLOCK FALSE
INVARIANTS AckedDelivered VersionAgreed ListensWithVersion
PROPERTIES SeqIncrements EventuallyConnected
