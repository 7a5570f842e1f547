------------------------ MODULE ClientSessionProofs ------------------------
(***************************************************************************)
(* Proofs about ClientSession, for every set of connections, every set of  *)
(* messages and any number of epochs: who is in the client list, whose     *)
(* commands reach the manager, and that a connection without a verdict     *)
(* has its authentication timer.                                           *)
(***************************************************************************)
EXTENDS ClientSession, TLAPS

InitStates == {"NONE", "WAITING", "AUTHENTICATED", "BAD_INIT", "CLOSED"}
Verdicts   == {"none", "OK", "ERR_INVALID_CMD", "ERR_INVALID_AUTH", "ERR_UNSUPPORTED_VERSION"}

\* The types of what the invariant talks about.
SessionType ==
    /\ initState \in [Client -> InitStates]
    /\ timer \in [Client -> {"off", "armed", "expired"}]
    /\ read \in [Client -> {"none", "pending", "ready", "error"}]
    /\ verdict \in [Client -> Verdicts]
    /\ mgr \in [Client -> Nat] /\ epoch \in Nat
    /\ io \in Client \cup {NoClient}
    /\ clients \subseteq Client /\ queued \subseteq Client

\* m_initState and the hello response: who was told OK has left WAITING,
\* and nobody is authenticated who was told anything else.
VerdictKept ==
    \A c \in Client :
        /\ verdict[c] = "OK" => initState[c] \in {"AUTHENTICATED", "BAD_INIT", "CLOSED"}
        /\ initState[c] = "AUTHENTICATED" => verdict[c] = "OK"

\* Connections belong to managers that have existed; the manager that exists lists
\* and queues its own, and only after an OK.
OwnClients ==
    /\ \A c \in Client : mgr[c] <= epoch
    /\ \A c \in clients : mgr[c] = epoch /\ verdict[c] = "OK"

\* Between the hello and addClient the connection is authenticated, and not listed
\* yet.
AddingIsNew == adding => io \in Client /\ initState[io] = "AUTHENTICATED" /\ io \notin clients

\* A connection reads as long as a read is outstanding or its handler runs.
Reads(c) == read[c] # "none" \/ io = c

\* ListedIffServed, inside a handler too.
Listed ==
    \A c \in Client : (c \notin timedOut /\ mgr[c] = epoch) =>
        LET served == initState[c] = "AUTHENTICATED" /\ Reads(c) /\ ~(adding /\ io = c)
        IN  /\ served => c \in clients
            /\ c \in clients => served \/ (threw /\ initState[c] = "CLOSED")

\* WaitingIsTimed, inside a handler too.
Timed ==
    \A c \in Client : initState[c] = "WAITING" /\ Reads(c) => timer[c] \in {"armed", "expired"}

\* The inductive invariant.
Inv ==
    /\ SessionType
    /\ VerdictKept /\ OnlyAuthenticated
    /\ OwnClients /\ AddingIsNew /\ Listed
    /\ Timed

-----------------------------------------------------------------------------
(* Proof *)

LEMMA ParseType == \A m : ParseHello(m) \in Verdicts
BY Zenon DEF ParseHello, Verdicts

LEMMA InitInv == Init => Inv
BY ClientAssumption DEF Init, Inv, InitStates, Verdicts, SessionType, VerdictKept, OnlyAuthenticated, OwnClients, AddingIsNew, Listed, Timed, Reads

LEMMA NextInv == Inv /\ [Next]_vars => Inv'
<1> SUFFICES ASSUME Inv, [Next]_vars PROVE Inv'
  OBVIOUS
<1>0. SessionType /\ VerdictKept /\ OnlyAuthenticated /\ OwnClients /\ AddingIsNew /\ Listed /\ Timed
  BY DEF Inv
<1> USE <1>0, ClientAssumption DEF SessionType, sockVars, ioVars, mgrVars, hist
<1>1. ASSUME NEW c \in Client, HandleAccept(c) PROVE Inv'
  <2>1. SessionType'
    BY <1>1 DEF SessionType, InitStates, Verdicts, HandleAccept, Idle, StartTimer
  <2>2. VerdictKept'
    BY <1>1 DEF VerdictKept, HandleAccept, Idle, StartTimer
  <2>3. OnlyAuthenticated'
    BY <1>1 DEF OnlyAuthenticated, VerdictKept, HandleAccept, Idle, StartTimer
  <2>4. OwnClients'
    BY <1>1 DEF OwnClients, AddingIsNew, VerdictKept, HandleAccept, Idle, StartTimer
  <2>5. AddingIsNew'
    BY <1>1 DEF AddingIsNew, VerdictKept, OwnClients, HandleAccept, Idle, StartTimer
  <2>6. Listed'
    BY <1>1 DEF Listed, Reads, VerdictKept, OwnClients, AddingIsNew, HandleAccept, Idle, StartTimer
  <2>7. Timed'
    BY <1>1 DEF Timed, Reads, HandleAccept, Idle, StartTimer
  <2> QED BY <2>1, <2>2, <2>3, <2>4, <2>5, <2>6, <2>7 DEF Inv
<1>2. ASSUME NEW c \in Client, PeerCloses(c) PROVE Inv'
  BY <1>2 DEF Inv, VerdictKept, OnlyAuthenticated, OwnClients, AddingIsNew, Listed,
                Timed, Reads, PeerCloses
<1>3. ASSUME NEW c \in Client, \E ms \in Chunks : PeerSends(c, ms) PROVE Inv'
  BY <1>3 DEF Inv, VerdictKept, OnlyAuthenticated, OwnClients, AddingIsNew, Listed,
                Timed, Reads, PeerSends
<1>4. ASSUME NEW c \in Client, TimerExpires(c) PROVE Inv'
  BY <1>4 DEF Inv, VerdictKept, OnlyAuthenticated, OwnClients, AddingIsNew, Listed,
                Timed, Reads, TimerExpires
<1>5. ASSUME NEW c \in Client, HandleRead(c) PROVE Inv'
  <2>1. SessionType'
    BY <1>5 DEF SessionType, InitStates, Verdicts, HandleRead, Idle
  <2>2. VerdictKept'
    BY <1>5 DEF VerdictKept, HandleRead, Idle
  <2>3. OnlyAuthenticated'
    BY <1>5 DEF OnlyAuthenticated, VerdictKept, HandleRead, Idle
  <2>4. OwnClients'
    BY <1>5 DEF OwnClients, AddingIsNew, VerdictKept, HandleRead, Idle
  <2>5. AddingIsNew'
    BY <1>5 DEF AddingIsNew, VerdictKept, OwnClients, HandleRead, Idle
  <2>6. Listed'
    BY <1>5 DEF Listed, Reads, VerdictKept, OwnClients, AddingIsNew, HandleRead, Idle
  <2>7. Timed'
    BY <1>5 DEF Timed, Reads, HandleRead, Idle
  <2> QED BY <2>1, <2>2, <2>3, <2>4, <2>5, <2>6, <2>7 DEF Inv
<1>6. ASSUME NEW c \in Client, HandleReadError(c) PROVE Inv'
  <2>1. SessionType'
    BY <1>6 DEF SessionType, InitStates, Verdicts, HandleReadError, Idle, Cancelled, Removes, OnManager
  <2>2. VerdictKept'
    BY <1>6 DEF VerdictKept, HandleReadError, Idle, Cancelled, Removes, OnManager
  <2>3. OnlyAuthenticated'
    BY <1>6 DEF OnlyAuthenticated, VerdictKept, HandleReadError, Idle, Cancelled, Removes, OnManager
  <2>4. OwnClients'
    BY <1>6 DEF OwnClients, AddingIsNew, VerdictKept, HandleReadError, Idle, Cancelled, Removes, OnManager
  <2>5. AddingIsNew'
    BY <1>6 DEF AddingIsNew, VerdictKept, OwnClients, HandleReadError, Idle, Cancelled, Removes, OnManager
  <2>6. Listed'
    BY <1>6 DEF Listed, Reads, VerdictKept, OwnClients, AddingIsNew, HandleReadError, Idle, Cancelled, Removes, OnManager
  <2>7. Timed'
    BY <1>6 DEF Timed, Reads, HandleReadError, Idle, Cancelled, Removes, OnManager
  <2> QED BY <2>1, <2>2, <2>3, <2>4, <2>5, <2>6, <2>7 DEF Inv
<1>7. ASSUME NEW c \in Client, HandleAuthTimeout(c) PROVE Inv'
  <2>1. SessionType'
    BY <1>7 DEF SessionType, InitStates, Verdicts, HandleAuthTimeout, Idle, AbortedRead
  <2>2. VerdictKept'
    BY <1>7 DEF VerdictKept, HandleAuthTimeout, Idle, AbortedRead
  <2>3. OnlyAuthenticated'
    BY <1>7 DEF OnlyAuthenticated, VerdictKept, HandleAuthTimeout, Idle, AbortedRead
  <2>4. OwnClients'
    BY <1>7 DEF OwnClients, AddingIsNew, VerdictKept, HandleAuthTimeout, Idle, AbortedRead
  <2>5. AddingIsNew'
    BY <1>7 DEF AddingIsNew, VerdictKept, OwnClients, HandleAuthTimeout, Idle, AbortedRead
  <2>6. Listed'
    BY <1>7 DEF Listed, Reads, VerdictKept, OwnClients, AddingIsNew, HandleAuthTimeout, Idle, AbortedRead
  <2>7. Timed'
    BY <1>7 DEF Timed, Reads, HandleAuthTimeout, Idle, AbortedRead
  <2> QED BY <2>1, <2>2, <2>3, <2>4, <2>5, <2>6, <2>7 DEF Inv
<1>8. ASSUME NEW c \in Client, AddCommand(c) PROVE Inv'
  <2>1. SessionType'
    BY <1>8 DEF SessionType, InitStates, Verdicts, AddCommand, Consumes, Passes, OnManager
  <2>2. VerdictKept'
    BY <1>8 DEF VerdictKept, AddCommand, Consumes, Passes, OnManager
  <2>3. OnlyAuthenticated'
    BY <1>8 DEF OnlyAuthenticated, VerdictKept, AddCommand, Consumes, Passes, OnManager
  <2>4. OwnClients'
    BY <1>8 DEF OwnClients, AddingIsNew, VerdictKept, AddCommand, Consumes, Passes, OnManager
  <2>5. AddingIsNew'
    BY <1>8 DEF AddingIsNew, VerdictKept, OwnClients, AddCommand, Consumes, Passes, OnManager
  <2>6. Listed'
    BY <1>8 DEF Listed, Reads, VerdictKept, OwnClients, AddingIsNew, AddCommand, Consumes, Passes, OnManager
  <2>7. Timed'
    BY <1>8 DEF Timed, Reads, AddCommand, Consumes, Passes, OnManager
  <2> QED BY <2>1, <2>2, <2>3, <2>4, <2>5, <2>6, <2>7 DEF Inv
<1>9. ASSUME NEW c \in Client, GoodHello(c) PROVE Inv'
  <2>1. SessionType'
    BY <1>9 DEF SessionType, InitStates, Verdicts, GoodHello, Consumes, IsHello, Cancelled
  <2>2. VerdictKept'
    BY <1>9 DEF VerdictKept, GoodHello, Consumes, IsHello, Cancelled
  <2>3. OnlyAuthenticated'
    BY <1>9 DEF OnlyAuthenticated, VerdictKept, GoodHello, Consumes, IsHello, Cancelled
  <2>4. OwnClients'
    BY <1>9 DEF OwnClients, AddingIsNew, VerdictKept, GoodHello, Consumes, IsHello, Cancelled
  <2>5. AddingIsNew'
    BY <1>9 DEF AddingIsNew, VerdictKept, OwnClients, GoodHello, Consumes, IsHello, Cancelled
  <2>6. Listed'
    BY <1>9 DEF Listed, Reads, VerdictKept, OwnClients, AddingIsNew, GoodHello, Consumes, IsHello, Cancelled
  <2>7. Timed'
    BY <1>9 DEF Timed, Reads, GoodHello, Consumes, IsHello, Cancelled
  <2> QED BY <2>1, <2>2, <2>3, <2>4, <2>5, <2>6, <2>7 DEF Inv
<1>10. ASSUME NEW c \in Client, AddClient(c) PROVE Inv'
  <2>1. SessionType'
    BY <1>10 DEF SessionType, InitStates, Verdicts, AddClient, OnManager
  <2>2. VerdictKept'
    BY <1>10 DEF VerdictKept, AddClient, OnManager
  <2>3. OnlyAuthenticated'
    BY <1>10 DEF OnlyAuthenticated, VerdictKept, AddClient, OnManager
  <2>4. OwnClients'
    BY <1>10 DEF OwnClients, AddingIsNew, VerdictKept, AddClient, OnManager
  <2>5. AddingIsNew'
    BY <1>10 DEF AddingIsNew, VerdictKept, OwnClients, AddClient, OnManager
  <2>6. Listed'
    BY <1>10 DEF Listed, Reads, VerdictKept, OwnClients, AddingIsNew, AddClient, OnManager
  <2>7. Timed'
    BY <1>10 DEF Timed, Reads, AddClient, OnManager
  <2> QED BY <2>1, <2>2, <2>3, <2>4, <2>5, <2>6, <2>7 DEF Inv
<1>11. ASSUME NEW c \in Client, BadHello(c) PROVE Inv'
  <2>1. SessionType'
    BY <1>11, ParseType DEF SessionType, InitStates, Verdicts, BadHello, Consumes, IsHello, Cancelled
  <2>2. VerdictKept'
    BY <1>11 DEF VerdictKept, BadHello, Consumes, IsHello, Cancelled
  <2>3. OnlyAuthenticated'
    BY <1>11 DEF OnlyAuthenticated, VerdictKept, BadHello, Consumes, IsHello, Cancelled
  <2>4. OwnClients'
    BY <1>11 DEF OwnClients, AddingIsNew, VerdictKept, BadHello, Consumes, IsHello, Cancelled
  <2>5. AddingIsNew'
    BY <1>11 DEF AddingIsNew, VerdictKept, OwnClients, BadHello, Consumes, IsHello, Cancelled
  <2>6. Listed'
    BY <1>11 DEF Listed, Reads, VerdictKept, OwnClients, AddingIsNew, BadHello, Consumes, IsHello, Cancelled
  <2>7. Timed'
    BY <1>11 DEF Timed, Reads, BadHello, Consumes, IsHello, Cancelled
  <2> QED BY <2>1, <2>2, <2>3, <2>4, <2>5, <2>6, <2>7 DEF Inv
<1>12. ASSUME NEW c \in Client, Discard(c) PROVE Inv'
  BY <1>12 DEF Inv, VerdictKept, OnlyAuthenticated, OwnClients, AddingIsNew, Listed,
                Timed, Reads, Discard, Consumes
<1>13. ASSUME NEW c \in Client, ReadAgain(c) PROVE Inv'
  <2>1. SessionType'
    BY <1>13 DEF SessionType, InitStates, Verdicts, ReadAgain
  <2>2. VerdictKept'
    BY <1>13 DEF VerdictKept, ReadAgain
  <2>3. OnlyAuthenticated'
    BY <1>13 DEF OnlyAuthenticated, VerdictKept, ReadAgain
  <2>4. OwnClients'
    BY <1>13 DEF OwnClients, AddingIsNew, VerdictKept, ReadAgain
  <2>5. AddingIsNew'
    BY <1>13 DEF AddingIsNew, VerdictKept, OwnClients, ReadAgain
  <2>6. Listed'
    BY <1>13 DEF Listed, Reads, VerdictKept, OwnClients, AddingIsNew, ReadAgain
  <2>7. Timed'
    BY <1>13 DEF Timed, Reads, ReadAgain
  <2> QED BY <2>1, <2>2, <2>3, <2>4, <2>5, <2>6, <2>7 DEF Inv
<1>14. CASE CloseClients
  <2>1. SessionType'
    BY <1>14 DEF SessionType, InitStates, Verdicts, CloseClients, CancelTimers, CloseSockets, Cancelled, AbortedRead
  <2>2. VerdictKept'
    BY <1>14 DEF VerdictKept, CloseClients, CancelTimers, CloseSockets, Cancelled, AbortedRead
  <2>3. OnlyAuthenticated'
    BY <1>14 DEF OnlyAuthenticated, VerdictKept, CloseClients, CancelTimers, CloseSockets, Cancelled, AbortedRead
  <2>4. OwnClients'
    BY <1>14 DEF OwnClients, AddingIsNew, VerdictKept, CloseClients, CancelTimers, CloseSockets, Cancelled, AbortedRead
  <2>5. AddingIsNew'
    BY <1>14 DEF AddingIsNew, VerdictKept, OwnClients, CloseClients, CancelTimers, CloseSockets, Cancelled, AbortedRead
  <2>6. Listed'
    BY <1>14 DEF Listed, Reads, VerdictKept, OwnClients, AddingIsNew, CloseClients, CancelTimers, CloseSockets, Cancelled, AbortedRead
  <2>7. Timed'
    BY <1>14 DEF Timed, Reads, CloseClients, CancelTimers, CloseSockets, Cancelled, AbortedRead
  <2> QED BY <2>1, <2>2, <2>3, <2>4, <2>5, <2>6, <2>7 DEF Inv
<1>15. CASE StopIo
  BY <1>15 DEF Inv, VerdictKept, OnlyAuthenticated, OwnClients, AddingIsNew, Listed,
                Timed, Reads, StopIo
<1>16. CASE NewEpoch
  <2>1. SessionType'
    BY <1>16 DEF SessionType, InitStates, Verdicts, NewEpoch
  <2>2. VerdictKept'
    BY <1>16 DEF VerdictKept, NewEpoch
  <2>3. OnlyAuthenticated'
    BY <1>16 DEF OnlyAuthenticated, VerdictKept, NewEpoch
  <2>4. OwnClients'
    BY <1>16 DEF OwnClients, AddingIsNew, VerdictKept, NewEpoch
  <2>5. AddingIsNew'
    BY <1>16 DEF AddingIsNew, VerdictKept, OwnClients, NewEpoch
  <2>6. Listed'
    BY <1>16 DEF Listed, Reads, VerdictKept, OwnClients, AddingIsNew, NewEpoch
  <2>7. Timed'
    BY <1>16 DEF Timed, Reads, NewEpoch
  <2> QED BY <2>1, <2>2, <2>3, <2>4, <2>5, <2>6, <2>7 DEF Inv
<1>17. CASE UNCHANGED vars
  BY <1>17 DEF Inv, VerdictKept, OnlyAuthenticated, OwnClients, AddingIsNew, Listed,
                Timed, Reads, vars
<1>18. ASSUME NEW c \in Client, HandlerThrows(c) PROVE Inv'
  <2>1. SessionType'
    BY <1>18 DEF SessionType, InitStates, Verdicts, HandlerThrows, Idle
  <2>2. VerdictKept'
    BY <1>18 DEF VerdictKept, HandlerThrows, Idle
  <2>3. OnlyAuthenticated'
    BY <1>18 DEF OnlyAuthenticated, VerdictKept, HandlerThrows, Idle
  <2>4. OwnClients'
    BY <1>18 DEF OwnClients, AddingIsNew, VerdictKept, HandlerThrows, Idle
  <2>5. AddingIsNew'
    BY <1>18 DEF AddingIsNew, VerdictKept, OwnClients, HandlerThrows, Idle
  <2>6. Listed'
    BY <1>18 DEF Listed, Reads, VerdictKept, OwnClients, AddingIsNew, HandlerThrows, Idle
  <2>7. Timed'
    BY <1>18 DEF Timed, Reads, HandlerThrows, Idle
  <2> QED BY <2>1, <2>2, <2>3, <2>4, <2>5, <2>6, <2>7 DEF Inv
<1>19. ASSUME NEW c \in Client, NEW cs \in SUBSET Client, CloseThrows(c, cs) PROVE Inv'
  <2>1. SessionType'
    BY <1>19 DEF SessionType, InitStates, Verdicts, CloseThrows, CancelTimers, CloseSockets, Cancelled, AbortedRead
  <2>2. VerdictKept'
    BY <1>19 DEF VerdictKept, CloseThrows, CancelTimers, CloseSockets, Cancelled, AbortedRead
  <2>3. OnlyAuthenticated'
    BY <1>19 DEF OnlyAuthenticated, VerdictKept, CloseThrows, CancelTimers, CloseSockets, Cancelled, AbortedRead
  <2>4. OwnClients'
    BY <1>19 DEF OwnClients, AddingIsNew, VerdictKept, CloseThrows, CancelTimers, CloseSockets, Cancelled, AbortedRead
  <2>5. AddingIsNew'
    BY <1>19 DEF AddingIsNew, VerdictKept, OwnClients, CloseThrows, CancelTimers, CloseSockets, Cancelled, AbortedRead
  <2>6. Listed'
    BY <1>19 DEF Listed, Reads, VerdictKept, OwnClients, AddingIsNew, CloseThrows, CancelTimers, CloseSockets, Cancelled, AbortedRead
  <2>7. Timed'
    BY <1>19 DEF Timed, Reads, VerdictKept, OwnClients, CloseThrows, CancelTimers, CloseSockets, Cancelled, AbortedRead
  <2> QED BY <2>1, <2>2, <2>3, <2>4, <2>5, <2>6, <2>7 DEF Inv
<1> QED
  BY <1>1, <1>2, <1>3, <1>4, <1>5, <1>6, <1>7, <1>8, <1>9, <1>10, <1>11, <1>12, <1>13, <1>14, <1>15, <1>16, <1>17, <1>18, <1>19
     DEF Next, PeerStep, IoStep, HandlerStep

LEMMA InvHolds == Spec => []Inv
BY InitInv, NextInv, PTL DEF Spec

-----------------------------------------------------------------------------
(* Theorems *)

\* handleCommand: whatever comes with, before or after a hello, in however many
\* reads, a command reaches the manager only from a client that was told OK.
THEOREM QueuedAreAuthenticated == Spec => []OnlyAuthenticated
<1>1. Inv => OnlyAuthenticated
  BY DEF Inv
<1> QED BY InvHolds, <1>1, PTL

\* Between two handlers of the io thread every connection of this epoch that is
\* authenticated and still reads is in the client list, wherever closeClients, an
\* exception out of it, or the end of the epoch came in; and what else is in the list
\* are connections closed by a closeClients that shutdown() ended.
THEOREM ListIsAccurate == Spec => []ListedIffServed
<1>1. Inv => ListedIffServed
  <2> SUFFICES ASSUME Inv, io = NoClient, NEW c \in Client, c \notin timedOut, mgr[c] = epoch
               PROVE  LET served == initState[c] = "AUTHENTICATED" /\ read[c] # "none"
                      IN  /\ served => c \in clients
                          /\ c \in clients => served \/ (threw /\ initState[c] = "CLOSED")
    BY DEF ListedIffServed
  <2>1. io # c
    BY ClientAssumption
  <2> QED BY <2>1 DEF Inv, Listed, Reads
<1> QED BY InvHolds, <1>1, PTL

\* A connection that still reads and has not been told a verdict has its timer
\* running, or the handler of the timer queued, in every epoch.
THEOREM WaitingStaysTimed == Spec => []WaitingIsTimed
<1>1. Inv => WaitingIsTimed
  BY DEF Inv, Timed, Reads, WaitingIsTimed
<1> QED BY InvHolds, <1>1, PTL

=============================================================================
