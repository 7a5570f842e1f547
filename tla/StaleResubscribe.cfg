CONSTANTS
    c1 = c1
    c2 = c2
    n1 = n1
    u1 = u1
    Client <- TwoClients
    NoClient = NoClient
    Notif = {n1}
    Unreliable = {u1}
    Request <- FilterRequests
    Retries = 1
    SeqMod = 4
    MaxCmds = 2
    MaxUnsolicited = 0
SYMMETRY ClientSymmetry
SPECIFICATION Spec
INVARIANTS DeviceHasUnion
