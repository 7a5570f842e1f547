--------------------------- MODULE MCClientManager ---------------------------
(* Small instances of ClientManager for TLC. *)
EXTENDS ClientManager, TLC

CONSTANTS c1, c2, n1, u1

OneClient  == {c1}
TwoClients == {c1, c2}

\* Bound: the states until main stops the manager, and no removeClient that goes on
\* after io_service.stop().  What the threads still do then is explored with one
\* client, and with forwarded commands (Answers, Teardown).
EpochOpen == IsRunning /\ (ioStopped => ioPc = "idle")

ClientSymmetry == Permutations({c1, c2})

Sub(f) == [type |-> "SUBSCRIBE", data |-> f, short |-> FALSE]
ShortSub(f) == [type |-> "SUBSCRIBE", data |-> f, short |-> TRUE]
Other(t) == [type |-> t, data |-> {}, short |-> FALSE]

AnsweredRequests  == {Other("COMMAND"), Other("INVALID")}
ForwardRequests   == {Other("COMMAND")}
FilterRequests    == {Sub({n1}), Sub({})}
SubscribeRequests == {Sub({n1}), ShortSub({})}
=============================================================================
