---------------------------- MODULE ClientSession ----------------------------
(***************************************************************************)
(* The life of client connections: CBoostClient with its authentication    *)
(* timer, the acceptor of CBoostClientListener, and the client list they   *)
(* enter, across the epochs of serial_mux_loop.                            *)
(*                                                                         *)
(* All handlers run on the io thread, one at a time; closeClients runs on  *)
(* whichever thread calls resetConnection, between any two of their steps. *)
(* An asynchronous operation is pending, or completed with its handler     *)
(* queued; cancelling has no effect on a handler that is queued already.   *)
(* The io_service is global: what is queued on it outlives an epoch.       *)
(* A message is a MUX_HELLO, well formed or not, or any other command.     *)
(* shutdown() throws on a connection its peer has reset: out of            *)
(* closeClients, whose caller swallows it, or out of io_service.run, which *)
(* nobody enters again (MuxLifecycle says what becomes of the process).    *)
(***************************************************************************)
EXTENDS Naturals, Sequences

CONSTANTS
    Client,      \* connections
    NoClient,
    Messages,    \* the messages peers send
    MaxMsgs,     \* bound: messages a client sends
    MaxChunk,    \* bound: messages in one read
    MaxEpoch     \* bound: epochs of serial_mux_loop

ASSUME ClientAssumption == NoClient \notin Client

\* A hello as far as parseHello looks at it, or another command.
ASSUME MessageAssumption ==
    Messages \subseteq [hello : BOOLEAN, length : BOOLEAN, version : BOOLEAN, auth : BOOLEAN]

ASSUME BoundAssumption ==
    MaxMsgs \in Nat /\ MaxChunk \in Nat \ {0} /\ MaxEpoch \in Nat \ {0}

VARIABLES
    initState,   \* m_initState ("NONE" before the connection is accepted)
    socket,      \* m_socket
    timer,       \* m_authTimeout
    read,        \* the asynchronous read
    input,       \* messages of a completed read
    sent,        \* messages the peer has sent so far
    verdict,     \* result of the hello response written to the client
    io,          \* the client whose handle_read is running
    adding,      \* handleCommand has authenticated io, addClient is next
    clients,     \* m_clients of the current manager
    queued,      \* clients whose commands reached the current manager
    ioStopped,   \* io_service has been stopped
    closed,      \* closeClients has run to its end in this epoch
    left,        \* an exception has left io_service.run
    epoch,       \* which CBoostClientManager exists
    mgr,         \* m_clientMgr: the manager a client was created with
    timedOut,    \* history: clients whose timer handler ran after a good hello
    stale,       \* history: clients whose handler called a deleted manager
    threw        \* history: a closeClients of this epoch was ended by an exception

sockVars == <<socket, timer, read, input, sent>>
ioVars   == <<io, adding>>
mgrVars  == <<clients, queued, ioStopped, closed, left, epoch, mgr>>
hist     == <<timedOut, stale, threw>>
vars     == <<initState, sockVars, verdict, ioVars, mgrVars, hist>>

\* parseHello: the later check decides.
ParseHello(m) ==
    CASE ~m.length  -> "ERR_INVALID_CMD"
      [] ~m.auth    -> "ERR_INVALID_AUTH"
      [] ~m.version -> "ERR_UNSUPPORTED_VERSION"
      [] OTHER      -> "OK"

\* The io thread runs handlers one at a time until io_service is stopped or a
\* handler throws.
Idle == io = NoClient /\ ~ioStopped /\ ~left

-----------------------------------------------------------------------------
(* The listener and the peer *)

NoTimer == "off"

\* start(): async_wait for AUTH_TIMEOUT.
StartTimer == "armed"

\* handleAccept: start() the connection and listen again.
HandleAccept(c) ==
    /\ Idle /\ initState[c] = "NONE"
    /\ initState' = [initState EXCEPT ![c] = "WAITING"]
    /\ socket' = [socket EXCEPT ![c] = "open"]
    /\ timer' = [timer EXCEPT ![c] = StartTimer]
    /\ read' = [read EXCEPT ![c] = "pending"]
    /\ mgr' = [mgr EXCEPT ![c] = epoch]
    /\ UNCHANGED <<input, sent, verdict, ioVars, clients, queued, ioStopped, closed,
                   left, epoch, hist>>

\* The peer's messages arrive: the read completes.
PeerSends(c, ms) ==
    /\ read[c] = "pending" /\ socket[c] = "open"
    /\ sent[c] + Len(ms) <= MaxMsgs
    /\ sent' = [sent EXCEPT ![c] = @ + Len(ms)]
    /\ input' = [input EXCEPT ![c] = ms]
    /\ read' = [read EXCEPT ![c] = "ready"]
    /\ UNCHANGED <<initState, socket, timer, verdict, ioVars, mgrVars, hist>>

\* The peer closes its end: the read completes with an error.
PeerCloses(c) ==
    /\ read[c] = "pending" /\ socket[c] = "open"
    /\ read' = [read EXCEPT ![c] = "error"]
    /\ UNCHANGED <<initState, socket, timer, input, sent, verdict, ioVars, mgrVars, hist>>

\* AUTH_TIMEOUT is over: the timer's handler is queued.
TimerExpires(c) ==
    /\ timer[c] = "armed"
    /\ timer' = [timer EXCEPT ![c] = "expired"]
    /\ UNCHANGED <<initState, socket, read, input, sent, verdict, ioVars, mgrVars, hist>>

-----------------------------------------------------------------------------
(* CBoostClient *)

\* m_authTimeout.cancel(): too late for a handler that is queued.
Cancelled(c) == IF timer[c] = "armed" THEN "off" ELSE timer[c]

\* Closing a socket completes its read with operation_aborted.
AbortedRead(c) == IF read[c] = "pending" THEN "error" ELSE read[c]

\* CBoostClient::close() begins with the timer ...
CancelTimers(cs) == timer' = [c \in Client |-> IF c \in cs THEN Cancelled(c) ELSE timer[c]]

\* ... and goes on with the socket and the state, for every client of a set.
CloseSockets(cs) ==
    /\ socket' = [c \in Client |-> IF c \in cs THEN "closed" ELSE socket[c]]
    /\ read' = [c \in Client |-> IF c \in cs THEN AbortedRead(c) ELSE read[c]]
    /\ initState' = [c \in Client |-> IF c \in cs THEN "CLOSED" ELSE initState[c]]

\* handleAuthTimeout without an error: BAD_INIT and close().
HandleAuthTimeout(c) ==
    /\ Idle /\ timer[c] = "expired"
    /\ socket' = [socket EXCEPT ![c] = "closed"]
    /\ read' = [read EXCEPT ![c] = AbortedRead(c)]
    /\ initState' = [initState EXCEPT ![c] = "CLOSED"]
    /\ timer' = [timer EXCEPT ![c] = "off"]
    /\ timedOut' = IF verdict[c] = "OK" THEN timedOut \cup {c} ELSE timedOut
    /\ UNCHANGED <<input, sent, verdict, ioVars, mgrVars, stale, threw>>

\* A handler throws out of io_service.run: remoteName in start() of a connection
\* just accepted, whose object goes away, or shutdown() in handleAuthTimeout.
HandlerThrows(c) ==
    /\ Idle /\ left' = TRUE
    /\ \/ initState[c] = "NONE" /\ UNCHANGED <<initState, timer, timedOut>>
       \/ /\ timer[c] = "expired" /\ socket[c] = "open"
          /\ initState' = [initState EXCEPT ![c] = "BAD_INIT"]
          /\ timer' = [timer EXCEPT ![c] = "off"]
          /\ timedOut' = IF verdict[c] = "OK" THEN timedOut \cup {c} ELSE timedOut
    /\ UNCHANGED <<socket, read, input, sent, verdict, ioVars, clients, queued, ioStopped,
                   closed, epoch, mgr, stale, threw>>

\* handle_read with data: the parser calls handleCommand for each message.
HandleRead(c) ==
    /\ Idle /\ read[c] = "ready"
    /\ io' = c
    /\ read' = [read EXCEPT ![c] = "none"]
    /\ UNCHANGED <<initState, socket, timer, input, sent, verdict, adding, mgrVars, hist>>

\* A call on m_clientMgr changes the manager if it is still the one that exists.
OnManager(c, change) ==
    IF mgr[c] = epoch THEN change /\ UNCHANGED stale
    ELSE stale' = stale \cup {c} /\ UNCHANGED <<clients, queued>>

Consumes(c) ==
    /\ io = c /\ ~adding /\ input[c] # <<>>
    /\ input' = [input EXCEPT ![c] = Tail(@)]
    /\ UNCHANGED <<sent, io, ioStopped, closed, left, epoch, mgr, timedOut, threw>>

PassesAll(c) == initState[c] # "BAD_INIT"

\* isInitialized
Passes(c) == initState[c] = "AUTHENTICATED"

\* handleCommand of an authenticated client: into the manager's queue.
AddCommand(c) ==
    /\ Consumes(c) /\ Passes(c)
    /\ OnManager(c, queued' = queued \cup {c} /\ UNCHANGED clients)
    /\ UNCHANGED <<initState, socket, timer, read, verdict, adding>>

IsHello(c) == initState[c] = "WAITING" /\ Head(input[c]).hello

\* A good hello: response, cancel the timer, AUTHENTICATED ...
GoodHello(c) ==
    /\ Consumes(c) /\ IsHello(c)
    /\ ParseHello(Head(input[c])) = "OK"
    /\ verdict' = [verdict EXCEPT ![c] = "OK"]
    /\ timer' = [timer EXCEPT ![c] = Cancelled(c)]
    /\ initState' = [initState EXCEPT ![c] = "AUTHENTICATED"]
    /\ adding' = TRUE
    /\ UNCHANGED <<socket, read, clients, queued, stale>>

\* ... and addClient, which has to wait for m_lock.
AddClient(c) ==
    /\ io = c /\ adding
    /\ adding' = FALSE
    /\ OnManager(c, clients' = clients \cup {c} /\ UNCHANGED queued)
    /\ UNCHANGED <<initState, sockVars, verdict, io, ioStopped, closed, left, epoch, mgr,
                   timedOut, threw>>

\* A bad hello: response, cancel the timer, BAD_INIT, close the socket.
BadHello(c) ==
    /\ Consumes(c) /\ IsHello(c)
    /\ ParseHello(Head(input[c])) # "OK"
    /\ verdict' = [verdict EXCEPT ![c] = ParseHello(Head(input[c]))]
    /\ timer' = [timer EXCEPT ![c] = Cancelled(c)]
    /\ initState' = [initState EXCEPT ![c] = "BAD_INIT"]
    /\ socket' = [socket EXCEPT ![c] = "closed"]
    /\ UNCHANGED <<read, adding, clients, queued, stale>>

\* Anything else is discarded.
Discard(c) ==
    /\ Consumes(c) /\ ~Passes(c) /\ ~IsHello(c)
    /\ UNCHANGED <<initState, socket, timer, read, verdict, adding, clients, queued, stale>>

\* The end of handle_read: read again unless the hello was bad.  On a closed
\* socket that read fails.
ReadAgain(c) ==
    /\ io = c /\ ~adding /\ input[c] = <<>>
    /\ io' = NoClient
    /\ read' = [read EXCEPT ![c] = IF initState[c] = "BAD_INIT" THEN "none"
                                   ELSE IF socket[c] = "open" THEN "pending" ELSE "error"]
    /\ UNCHANGED <<initState, socket, timer, input, sent, verdict, adding, mgrVars, hist>>

RemoveNever(c) == FALSE

\* Only an authenticated client is in the list.
Removes(c) == initState[c] = "AUTHENTICATED"

\* handle_read with an error: an authenticated client is removed; nothing reads
\* any more and the connection object, socket and timer, goes away.
HandleReadError(c) ==
    /\ Idle /\ read[c] = "error"
    /\ read' = [read EXCEPT ![c] = "none"]
    /\ timer' = [timer EXCEPT ![c] = Cancelled(c)]
    /\ socket' = [socket EXCEPT ![c] = "closed"]
    /\ IF Removes(c)
       THEN OnManager(c, clients' = clients \ {c} /\ UNCHANGED queued)
       ELSE UNCHANGED <<clients, queued, stale>>
    /\ UNCHANGED <<initState, input, sent, verdict, ioVars, ioStopped, closed, left,
                   epoch, mgr, timedOut, threw>>

-----------------------------------------------------------------------------
(* resetConnection and serial_mux_loop *)

\* Every connection of the list is closed and the list cleared.
CloseClients ==
    /\ ~closed
    /\ closed' = TRUE
    /\ CancelTimers(clients) /\ CloseSockets(clients)
    /\ clients' = {}
    /\ UNCHANGED <<input, sent, verdict, ioVars, queued, ioStopped, left, epoch, mgr, hist>>

\* shutdown() of one of them throws: those before it are closed, it has lost its
\* timer, the list is not cleared and resetConnection ends there.  A later
\* resetConnection tries again.
CloseThrows(c, cs) ==
    /\ ~closed
    /\ c \in clients /\ socket[c] = "open"
    /\ cs \subseteq clients \ {c}
    /\ CancelTimers(cs \cup {c}) /\ CloseSockets(cs)
    /\ threw' = TRUE
    /\ UNCHANGED <<input, sent, verdict, ioVars, mgrVars, timedOut, stale>>

StopIo ==
    /\ closed /\ ~ioStopped
    /\ ioStopped' = TRUE
    /\ UNCHANGED <<initState, sockVars, verdict, ioVars, clients, queued, closed, left,
                   epoch, mgr, hist>>

\* io_service.run returned; the manager and the listener are deleted and created
\* anew.  What is queued on io_service stays.
NewEpoch ==
    /\ ioStopped /\ ~left /\ io = NoClient /\ epoch < MaxEpoch
    /\ epoch' = epoch + 1
    /\ ioStopped' = FALSE /\ closed' = FALSE
    /\ clients' = {} /\ queued' = {} /\ threw' = FALSE
    /\ UNCHANGED <<initState, sockVars, verdict, ioVars, left, mgr, timedOut, stale>>

-----------------------------------------------------------------------------
Init ==
    /\ initState = [c \in Client |-> "NONE"] /\ socket = [c \in Client |-> "none"]
    /\ timer = [c \in Client |-> "off"] /\ read = [c \in Client |-> "none"]
    /\ input = [c \in Client |-> <<>>] /\ sent = [c \in Client |-> 0]
    /\ verdict = [c \in Client |-> "none"]
    /\ io = NoClient /\ adding = FALSE
    /\ clients = {} /\ queued = {} /\ ioStopped = FALSE /\ closed = FALSE
    /\ left = FALSE /\ epoch = 1 /\ mgr = [c \in Client |-> 0]
    /\ timedOut = {} /\ stale = {} /\ threw = FALSE

Chunks == UNION {[1 .. n -> Messages] : n \in 1 .. MaxChunk}

HandlerStep(c) == \/ AddCommand(c) \/ GoodHello(c) \/ AddClient(c) \/ BadHello(c)
                  \/ Discard(c) \/ ReadAgain(c)
IoStep(c) == HandleRead(c) \/ HandleReadError(c) \/ HandleAuthTimeout(c) \/ HandlerThrows(c)
PeerStep(c) == PeerCloses(c) \/ \E ms \in Chunks : PeerSends(c, ms)

Next == \/ \E c \in Client : \/ HandleAccept(c) \/ PeerStep(c) \/ TimerExpires(c)
                             \/ IoStep(c) \/ HandlerStep(c)
                             \/ \E cs \in SUBSET Client : CloseThrows(c, cs)
        \/ CloseClients \/ StopIo \/ NewEpoch

Spec == Init /\ [][Next]_vars

-----------------------------------------------------------------------------
(* Properties *)

\* Seen between two handlers of the io thread, the list holds every client that is
\* authenticated and still reads, so nobody who was accepted is forgotten, and nobody
\* who was refused or has gone; except that a closeClients that shutdown() has ended
\* leaves behind the connections it had closed already, and nothing but those.
\* Clients whose timer handler was queued already at their hello are the subject of
\* NotAddedOnTimeout.
ListedIffServed ==
    io = NoClient =>
        \A c \in Client : (c \notin timedOut /\ mgr[c] = epoch) =>
            LET served == initState[c] = "AUTHENTICATED" /\ read[c] # "none"
            IN  /\ served => c \in clients
                /\ c \in clients => served \/ (threw /\ initState[c] = "CLOSED")

\* A command reaches the manager only from a client that got an OK response to its
\* hello, even if hello and commands come in one read.
OnlyAuthenticated == \A c \in queued : verdict[c] = "OK"

\* Nobody waits for ever unauthenticated: a connection that still reads and has not
\* been told a verdict has its timer running, or the handler of the timer queued,
\* whatever messages were discarded and whatever happened to the epoch.
WaitingIsTimed ==
    \A c \in Client :
        initState[c] = "WAITING" /\ read[c] # "none" => timer[c] \in {"armed", "expired"}

-----------------------------------------------------------------------------
(* Statements of the repository that the code does not keep *)

\* "note: the client isn't added yet, so no need to remove it" (BoostClient.cpp:145),
\* said of the client whose authentication timed out.
NotAddedOnTimeout == \A c \in timedOut : c \notin clients

\* "in the serial mux main loop, we destroy and recreate all components"
\* (BasePicard.h:43): no connection outlives the manager it refers to.
OwnManager == stale = {}
=============================================================================
