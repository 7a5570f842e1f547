CONSTANTS
    c1 = c1
    c2 = c2
    n1 = n1
    u1 = u1
    Client <- OneClient
    NoClient = NoClient
    Notif = {n1}
    Unreliable = {u1}
    Request <- AnsweredRequests
    Retries = 2
    SeqMod = 3
    MaxCmds = 3
    MaxUnsolicited = 0
SPECIFICATION Spec
INVARIANTS TypeOK InFlightSeq CleanRouting AnswersInOrder
