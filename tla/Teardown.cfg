CONSTANTS
    c1 = c1
    c2 = c2
    n1 = n1
    u1 = u1
    Client <- TwoClients
    NoClient = NoClient
    Notif = {n1}
    Unreliable = {u1}
    Request <- ForwardRequests
    Retries = 1
    SeqMod = 4
    MaxCmds = 1
    MaxUnsolicited = 1
SPECIFICATION FairSpec
PROPERTIES EventuallyServed EventuallyJoined
