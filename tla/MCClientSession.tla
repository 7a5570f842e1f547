--------------------------- MODULE MCClientSession ---------------------------
(* Small instances of ClientSession for TLC. *)
EXTENDS ClientSession, TLC

CONSTANTS c1, c2

OneClient == {c1}
TwoClients == {c1, c2}
Hello(l, v, a) == [hello |-> TRUE, length |-> l, version |-> v, auth |-> a]
Other == [hello |-> FALSE, length |-> FALSE, version |-> FALSE, auth |-> FALSE]

\* A good hello, one bad in two ways, one too short, and a command.
SomeMessages == {Hello(TRUE, TRUE, TRUE), Hello(TRUE, FALSE, FALSE),
                 Hello(FALSE, TRUE, TRUE), Other}

ClientSymmetry == Permutations({c1, c2})
=============================================================================
