---------------------------- MODULE ClientManager ----------------------------
(***************************************************************************)
(* The client manager of the Serial Mux: CBoostClientManager with the      *)
(* subscription state of its clients (CSubscriber), the sequence numbers   *)
(* of the serial link (CBasePicardIO::sendCommand and the response branch  *)
(* of frameComplete) and the teardown of one connection epoch              *)
(* (resetConnection and the tail of serial_mux_loop).                      *)
(*                                                                         *)
(* Four threads share this state.  Every step below is what one thread     *)
(* does between two points where another thread can see the difference:    *)
(*   io      the asio handlers of the clients (main, inside io_service.run) *)
(*   cmd     clientThread, commandLoop                                     *)
(*   pic     picardThread, threadMain -> frameComplete -> callbacks        *)
(*   main    serial_mux_loop once io_service.run has returned              *)
(* The listen thread appears as far as it lets clients in and has to be    *)
(* joined; PicardLink and MuxLifecycle have the whole of it, as they have  *)
(* exceptions.                                                             *)
(* The Manager ("Picard") and the serial line are external: the line is    *)
(* FIFO and may lose a frame, the Manager answers what it receives.        *)
(***************************************************************************)
EXTENDS Naturals, Sequences, FiniteSets

CONSTANTS
    Client,      \* client connections (CBoostClient objects, never reused)
    NoClient,    \* the null client pointer of a re-subscribe
    Notif,       \* notification types: the bits of SubscriptionParams::filter
    Unreliable,  \* the bits of SubscriptionParams::unreliable
    Request,     \* the commands clients may send
    Retries,     \* m_retries
    SeqMod,      \* number of sequence numbers (256: uint8_t)
    MaxCmds,     \* bound: commands pushed by clients in an epoch
    MaxUnsolicited \* bound: unsolicited frames (notifications, MGR_HELLO) in an epoch

Flags == Notif \cup Unreliable

\* The types commandLoop tells apart.  COMMAND is any other Serial API
\* command; INVALID is a type that is not a Serial API command, or a payload
\* longer than MAX_SERIAL_API_CMD_LEN.
Types == {"SUBSCRIBE", "COMMAND", "MUX_INFO", "INVALID"}

ASSUME ClientAssumption == NoClient \notin Client

ASSUME FlagsAssumption == Notif \cap Unreliable = {}

\* A SUBSCRIBE payload holds the filter only (short, 4 bytes) or the filter
\* and the unreliable mask (8 bytes).
ASSUME RequestAssumption ==
    /\ Request \subseteq [type : Types, data : SUBSET Flags, short : BOOLEAN]
    /\ \A r \in Request : r.short => r.data \subseteq Notif

ASSUME BoundAssumption ==
    /\ Retries \in Nat /\ MaxCmds \in Nat /\ MaxUnsolicited \in Nat
    /\ SeqMod \in Nat /\ SeqMod > 1

VARIABLES
    clients,     \* m_clients
    conn,        \* socket and m_initState of each client object
    params,      \* CSubscriber::m_params
    newParams,   \* CSubscriber::m_newParams
    inTxn,       \* CSubscriber::m_inTransaction
    queue,       \* m_commands
    filterUnion, \* m_filterUnion
    prevFilter,  \* m_prevfilter
    current,     \* m_currentCommand
    cmdPc,       \* where commandLoop is
    cmd,         \* commandLoop: local cmd
    attempt,     \* commandLoop: local i
    cmdResult,   \* commandLoop: local result
    cmdUnion,    \* recomputeSubscribeFilter in cmd: local newParamsUnion
    built,       \* sendCommand: the sequence number already in buf
    seqNo,       \* CBasePicardIO::m_seqNo
    picPc,       \* where frameComplete / commandComplete is
    frame,       \* the response being handled by pic
    ioPc,        \* where removeClient is
    ioClient,    \* removeClient: client
    ioUnion,     \* recomputeSubscribeFilter in io: local newParamsUnion
    lock,        \* holder of m_lock
    lisPc,       \* where listen_thread is
    reset,       \* where each thread is in resetConnection
    picRunning,  \* CBasePicardIO::m_isRunning
    ioStopped,   \* io_service has been stopped
    mainPc,      \* where serial_mux_loop is
    toMgr,       \* frames on their way to the Manager
    fromMgr,     \* frames on their way back
    mgrFilter,   \* the subscription the Manager last accepted
    nextId,      \* identifies the next command pushed
    unsolicited, \* unsolicited frames received so far
    out,         \* what was written to each client's socket
    trouble      \* history: the disturbances met so far

clientVars == <<clients, conn>>
subVars    == <<params, newParams, inTxn>>
filterVars == <<filterUnion, prevFilter>>
pushVars   == <<queue, nextId>>
cmdVars    == <<cmdPc, cmd, attempt, cmdResult, cmdUnion, built>>
picVars    == <<picPc, frame>>
ioVars     == <<ioPc, ioClient, ioUnion>>
stopVars   == <<lisPc, reset, picRunning, ioStopped, mainPc>>
mgrVars    == <<toMgr, fromMgr, mgrFilter>>

\* Everything CBoostClientManager holds; the link; the locks and the
\* teardown; what is recorded.
listVars == <<clientVars, subVars, filterVars, pushVars, current>>
linkVars == <<seqNo, picVars, mgrVars, unsolicited>>
ctlVars  == <<lock, stopVars>>
logVars  == <<out, trouble>>

vars == <<listVars, cmdVars, linkVars, ioVars, ctlVars, logVars>>

-----------------------------------------------------------------------------
(* Values *)

ClientOrNull == Client \cup {NoClient}
Results      == {"OK", "TIMEOUT", "DISCONNECT"}
Seqs         == 0 .. SeqMod - 1

NextSeqNoWrap(s) == s + 1
NextSeq(s) == (s + 1) % SeqMod

\* SClientCommand as it sits in m_commands and in commandLoop's local.
Command == [client : ClientOrNull, type : Types \cup {"NULL"},
            data : SUBSET Flags, short : BOOLEAN, id : Nat]

NullCommand == [client |-> NoClient, type |-> "NULL", data |-> {},
                short |-> FALSE, id |-> 0]

\* m_currentCommand: the fields other threads look at.
Current == [client : ClientOrNull, type : Types \cup {"NULL"},
            seq : Seqs, result : Results, id : Nat]

AsCurrentDone(c) == [client |-> c.client, type |-> c.type, seq |-> 0,
                     result |-> "OK", id |-> c.id]

\* SClientCommand(client, command) sets seq to 0 and result to CLIENT_TIMEOUT.
AsCurrent(c) == [client |-> c.client, type |-> c.type, seq |-> 0,
                 result |-> "TIMEOUT", id |-> c.id]

Frame == [type : Types \cup {"NULL"}, data : SUBSET Flags, seq : Seqs,
          ok : BOOLEAN, id : Nat]

NoFrame == [type |-> "NULL", data |-> {}, seq |-> 0, ok |-> FALSE, id |-> 0]

\* What a client sees: kind of message, the command it answers, the command
\* whose request the Manager was answering (0: none), and the flags it speaks of
\* (the filter a reply puts into force, the type of a notification).
Message == [kind : {"relay", "timeout", "local", "notif"}, id : Nat, rid : Nat,
            flags : SUBSET Flags]

Answer(kind, id) == [kind |-> kind, id |-> id, rid |-> 0, flags |-> {}]

\* CBoostClient::write: the error of a write to a closed socket is ignored.
Writable(c) == conn[c] \in {"open", "eof"}
Write(c, m) == IF Writable(c) THEN [out EXCEPT ![c] = Append(@, m)] ELSE out

UnionOfCommitted(cs) == UNION {params[c] : c \in cs}

\* getSubscription / getUnreliable read m_newParams: the loop of
\* recomputeSubscribeFilter.
UnionOf(cs) == UNION {newParams[c] : c \in cs}

\* isSubscribed reads m_params.
IsSubscribed(c, n) == n \in params[c]

IsRunning == mainPc = "run"   \* m_isRunning, and m_callback is registered

-----------------------------------------------------------------------------
(* io: the client handlers *)

\* io_service.run starts the next handler: one at a time, and none once it is
\* stopped.
Dispatching == IsRunning /\ ~ioStopped /\ ioPc = "idle"

\* handleCommand after a good hello: addClient under m_lock.  Nobody connects
\* before listen_thread has started to listen.
AddClient(c) ==
    /\ Dispatching /\ lisPc = "done" /\ lock = "free" /\ conn[c] = "free"
    /\ conn' = [conn EXCEPT ![c] = "open"]
    /\ clients' = clients \cup {c}
    /\ UNCHANGED <<subVars, filterVars, pushVars, current, cmdVars, linkVars,
                   ioVars, ctlVars, logVars>>

HandleCommandAtOnce(c, r) ==
    /\ Dispatching /\ conn[c] \in {"open", "shut"}
    /\ nextId <= MaxCmds
    /\ nextId' = nextId + 1
    /\ IF r.type \in {"MUX_INFO", "INVALID"}
       THEN out' = Write(c, Answer("local", nextId)) /\ UNCHANGED queue
       ELSE /\ queue' = Append(queue, [client |-> c, type |-> r.type, data |-> r.data,
                                       short |-> r.short, id |-> nextId])
            /\ UNCHANGED out
    /\ UNCHANGED <<clientVars, subVars, filterVars, current, cmdVars, linkVars,
                   ioVars, ctlVars, trouble>>

\* handleCommand of an authenticated client: addCommand.  A read that completed
\* before closeClients shut the socket is still handled.
HandleCommand(c, r) ==
    /\ Dispatching /\ conn[c] \in {"open", "shut"}
    /\ nextId <= MaxCmds
    /\ queue' = Append(queue, [client |-> c, type |-> r.type, data |-> r.data,
                               short |-> r.short, id |-> nextId])
    /\ nextId' = nextId + 1
    /\ UNCHANGED <<clientVars, subVars, filterVars, current, cmdVars, linkVars,
                   ioVars, ctlVars, logVars>>

\* handle_read with an error: removeClient up to its look at m_currentCommand.
ReadError(c) ==
    /\ Dispatching /\ conn[c] \in {"open", "shut"}
    /\ conn' = [conn EXCEPT ![c] = IF @ = "open" THEN "eof" ELSE "closed"]
    /\ ioClient' = c
    /\ ioPc' = IF current.client # NoClient THEN "mark" ELSE "erase"
    /\ UNCHANGED <<clients, subVars, filterVars, pushVars, current, cmdVars,
                   linkVars, ioUnion, ctlVars, logVars>>

\* removeClient: CLIENT_DISCONNECT, written without a lock.
Mark ==
    /\ ioPc = "mark"
    /\ current' = [current EXCEPT !.result = "DISCONNECT"]
    /\ ioPc' = "erase"
    /\ trouble' = trouble \cup {"disconnect"}
    /\ UNCHANGED <<clientVars, subVars, filterVars, pushVars, cmdVars, linkVars,
                   ioClient, ioUnion, ctlVars, out>>

\* removeClient under m_lock: erase the client and, if it was in the list,
\* start recomputeSubscribeFilter.
Erase ==
    /\ ioPc = "erase" /\ lock = "free"
    /\ clients' = clients \ {ioClient}
    /\ trouble' = IF ioClient \in clients THEN trouble \cup {"removed"} ELSE trouble
    /\ IF ioClient \in clients
       THEN /\ ioUnion' = UnionOf(clients \ {ioClient})
            /\ lock' = "io"
            /\ ioPc' = "store"
            /\ UNCHANGED ioClient
       ELSE /\ ioPc' = "idle"
            /\ ioClient' = NoClient
            /\ UNCHANGED <<ioUnion, lock>>
    /\ UNCHANGED <<conn, subVars, filterVars, pushVars, current, cmdVars, linkVars,
                   stopVars, out>>

\* recomputeSubscribeFilter, its stores; removeClient goes on to re-subscribe
\* only if the union changed.
IoStore ==
    /\ ioPc = "store"
    /\ prevFilter' = filterUnion
    /\ filterUnion' = ioUnion
    /\ ioUnion' = {}
    /\ IF ioUnion # filterUnion
       THEN ioPc' = "push" /\ UNCHANGED <<lock, ioClient>>
       ELSE ioPc' = "idle" /\ lock' = "free" /\ ioClient' = NoClient
    /\ UNCHANGED <<clientVars, subVars, pushVars, current, cmdVars, linkVars,
                   stopVars, logVars>>

\* removeClient: the re-subscribe command carries the union of this moment.
IoPush ==
    /\ ioPc = "push"
    /\ queue' = Append(queue, [client |-> NoClient, type |-> "SUBSCRIBE",
                               data |-> filterUnion, short |-> FALSE, id |-> nextId])
    /\ nextId' = nextId + 1
    /\ ioPc' = "idle" /\ lock' = "free" /\ ioClient' = NoClient
    /\ UNCHANGED <<clientVars, subVars, filterVars, current, cmdVars, linkVars,
                   ioUnion, stopVars, logVars>>

-----------------------------------------------------------------------------
(* cmd: commandLoop *)

\* timedPop gives up after a second and the loop goes round.
PopNothing == cmdPc = "pop" /\ queue = <<>> /\ IsRunning /\ UNCHANGED vars

\* The client went away while its command was queued: the command is dropped.
PopGone ==
    /\ cmdPc = "pop" /\ queue # <<>>
    /\ Head(queue).client \in Client \ clients
    /\ queue' = Tail(queue)
    /\ UNCHANGED <<clientVars, subVars, filterVars, nextId, current, cmdVars,
                   linkVars, ioVars, ctlVars, logVars>>

Serves(c) == c = NoClient \/ c \in clients

\* MUX_INFO and invalid commands are answered by the mux itself.
PopLocal ==
    /\ cmdPc = "pop" /\ queue # <<>>
    /\ LET h == Head(queue) IN
       /\ h.client \in clients /\ h.type \in {"MUX_INFO", "INVALID"}
       /\ out' = Write(h.client, Answer("local", h.id))
    /\ queue' = Tail(queue)
    /\ UNCHANGED <<clientVars, subVars, filterVars, nextId, current, cmdVars,
                   linkVars, ioVars, ctlVars, trouble>>

\* setSubscription opens the client's transaction.  vectorToFilter leaves
\* the unreliable mask 0 for a short payload: such data has no such flag.
PopSubscribe ==
    /\ cmdPc = "pop" /\ queue # <<>>
    /\ LET h == Head(queue) IN
       /\ h.client \in clients /\ h.type = "SUBSCRIBE"
       /\ newParams' = [newParams EXCEPT ![h.client] = h.data]
       /\ inTxn' = [inTxn EXCEPT ![h.client] = TRUE]
       /\ cmd' = h
    /\ queue' = Tail(queue)
    /\ cmdPc' = "union"
    /\ UNCHANGED <<clientVars, params, filterVars, nextId, current, attempt,
                   cmdResult, cmdUnion, built, linkVars, ioVars, ctlVars, logVars>>

\* Every other command, the re-subscribe without a client included, is
\* forwarded as it is.
PopForward ==
    /\ cmdPc = "pop" /\ queue # <<>>
    /\ LET h == Head(queue) IN
       /\ Serves(h.client)
       /\ h.type = "COMMAND" \/ (h.type = "SUBSCRIBE" /\ h.client = NoClient)
       /\ cmd' = h
       /\ current' = AsCurrent(h)
    /\ queue' = Tail(queue)
    /\ cmdPc' = "send" /\ attempt' = 0 /\ cmdResult' = "TIMEOUT"
    /\ UNCHANGED <<clientVars, subVars, filterVars, nextId, cmdUnion, built,
                   linkVars, ioVars, ctlVars, logVars>>

\* recomputeSubscribeFilter without m_lock: read the clients' subscriptions ...
CmdUnion ==
    /\ cmdPc = "union"
    /\ cmdUnion' = UnionOf(clients)
    /\ cmdPc' = "store"
    /\ UNCHANGED <<listVars, cmd, attempt, cmdResult, built, linkVars, ioVars,
                   ctlVars, logVars>>

\* ... and store the union and the one it replaces.
CmdStore ==
    /\ cmdPc = "store"
    /\ prevFilter' = filterUnion
    /\ filterUnion' = cmdUnion
    /\ cmdUnion' = {}
    /\ cmdPc' = "rewrite"
    /\ UNCHANGED <<clientVars, subVars, pushVars, current, cmd, attempt, cmdResult,
                   built, linkVars, ioVars, ctlVars, logVars>>

\* filterToVector(m_filterUnion, data) reserves 8 bytes but does not resize: a
\* 4-byte payload keeps its length, and the mask written past its end is not sent.
FilterToVector(f, short) == IF short THEN f \cap Notif ELSE f

\* Rewrite the command's data; it becomes the current command.
Rewrite ==
    /\ cmdPc = "rewrite"
    /\ cmd' = [cmd EXCEPT !.data = FilterToVector(filterUnion, cmd.short)]
    /\ current' = AsCurrent(cmd)
    /\ cmdPc' = "send" /\ attempt' = 0 /\ cmdResult' = "TIMEOUT"
    /\ UNCHANGED <<clientVars, subVars, filterVars, pushVars, cmdUnion, built,
                   linkVars, ioVars, ctlVars, logVars>>

TriesLeft == cmdResult = "TIMEOUT" /\ attempt < Retries

\* sendCommand puts m_seqNo into the frame ...
Build ==
    /\ cmdPc = "send" /\ TriesLeft
    /\ built' = seqNo
    /\ cmdPc' = "publish"
    /\ UNCHANGED <<listVars, cmd, attempt, cmdResult, cmdUnion, linkVars, ioVars,
                   ctlVars, logVars>>

\* ... reads it again for the caller, into m_currentCommand.seq, and writes.
Publish ==
    /\ cmdPc = "publish"
    /\ current' = [current EXCEPT !.seq = seqNo]
    /\ toMgr' = Append(toMgr, [type |-> cmd.type, data |-> cmd.data, seq |-> built,
                               ok |-> FALSE, id |-> cmd.id])
    /\ built' = 0
    /\ cmdPc' = "wait"
    /\ UNCHANGED <<clientVars, subVars, filterVars, pushVars, cmd, attempt,
                   cmdResult, cmdUnion, seqNo, picVars, fromMgr, mgrFilter,
                   unsolicited, ioVars, ctlVars, logVars>>

\* commandComplete has left its block under m_inProgressMutex.
MutexFree == picPc \notin {"check", "relay", "commit"}

\* timed_wait ends, notified or not, whatever the answer, and takes the mutex back.
WaitDone ==
    /\ cmdPc = "wait" /\ MutexFree
    /\ cmdResult' = current.result
    /\ attempt' = attempt + 1
    /\ cmdPc' = "send"
    /\ trouble' = IF current.result = "TIMEOUT" THEN trouble \cup {"timeout"} ELSE trouble
    /\ UNCHANGED <<listVars, cmd, cmdUnion, built, linkVars, ioVars, ctlVars, out>>

\* resetConnection is called.
StartReset(t) == reset' = [reset EXCEPT ![t] = "stop"]

UnansweredTimeoutOnly == cmdResult = "TIMEOUT" /\ cmd.client # NoClient

\* In both the timeout and the disconnect case a client is owed a response.
Unanswered == cmdResult # "OK" /\ cmd.client # NoClient

ResetFilterKeepsNew(c) == inTxn' = [inTxn EXCEPT ![c] = FALSE] /\ UNCHANGED newParams

\* CSubscriber::resetFilter
ResetFilter(c) ==
    /\ newParams' = [newParams EXCEPT ![c] = params[c]]
    /\ inTxn' = [inTxn EXCEPT ![c] = FALSE]

\* The command is over, with an answer or without a client: nobody is owed anything.
Over == cmdPc = "send" /\ ~TriesLeft

Finish ==
    /\ Over /\ ~Unanswered
    /\ cmdPc' = "clear"
    /\ UNCHANGED <<listVars, cmd, attempt, cmdResult, cmdUnion, built, linkVars, ioVars,
                   ctlVars, logVars>>

\* Without an answer a SUBSCRIBE is undone first: in the union ...
Undo ==
    /\ Over /\ Unanswered /\ cmd.type = "SUBSCRIBE"
    /\ filterUnion' = prevFilter
    /\ cmdPc' = "unset"
    /\ UNCHANGED <<clientVars, subVars, prevFilter, pushVars, current, cmd, attempt,
                   cmdResult, cmdUnion, built, linkVars, ioVars, ctlVars, logVars>>

\* ... and in its client.
Unset ==
    /\ cmdPc = "unset"
    /\ ResetFilter(cmd.client)
    /\ cmdPc' = "tell"
    /\ UNCHANGED <<clientVars, params, filterVars, pushVars, current, cmd, attempt,
                   cmdResult, cmdUnion, built, linkVars, ioVars, ctlVars, logVars>>

\* commandTimeout writes the client a timeout response and calls resetConnection.
Tell ==
    /\ \/ cmdPc = "tell"
       \/ Over /\ Unanswered /\ cmd.type # "SUBSCRIBE"
    /\ out' = Write(cmd.client, Answer("timeout", cmd.id))
    /\ StartReset("cmd")
    /\ cmdPc' = "clear"
    /\ UNCHANGED <<listVars, cmd, attempt, cmdResult, cmdUnion, built, linkVars, ioVars,
                   lock, lisPc, picRunning, ioStopped, mainPc, trouble>>

\* m_currentCommand = SClientCommand(), and back to the head of the loop.
Clear ==
    /\ cmdPc = "clear" /\ reset["cmd"] = "none"
    /\ current' = AsCurrent(NullCommand)
    /\ cmd' = NullCommand /\ attempt' = 0 /\ cmdResult' = "TIMEOUT"
    /\ cmdPc' = "pop"
    /\ UNCHANGED <<clientVars, subVars, filterVars, pushVars, cmdUnion, built,
                   linkVars, ioVars, ctlVars, logVars>>

CmdExit ==
    /\ cmdPc = "pop" /\ ~IsRunning
    /\ cmdPc' = "done"
    /\ UNCHANGED <<listVars, cmd, attempt, cmdResult, cmdUnion, built, linkVars,
                   ioVars, ctlVars, logVars>>

-----------------------------------------------------------------------------
(* resetConnection, run by the command thread after a timeout and by the      *)
(* Picard thread after a MGR_HELLO or an error of the serial port.            *)

ResetThreads == {"cmd", "pic"}

\* gPicardIO->reset() notifies m_connect, gPicardIO->stop() ends the read loop.
ResetStop(t) ==
    /\ reset[t] = "stop"
    /\ reset' = [reset EXCEPT ![t] = "close"]
    /\ picRunning' = FALSE
    /\ lisPc' = IF lisPc = "waiting" THEN "done" ELSE lisPc
    /\ UNCHANGED <<listVars, cmdVars, linkVars, ioVars, lock, ioStopped, mainPc, logVars>>

\* closeClients takes m_lock and shuts the sockets ...
ResetClose(t) ==
    /\ reset[t] = "close" /\ lock = "free"
    /\ lock' = t
    /\ conn' = [c \in Client |-> IF c \notin clients THEN conn[c]
                               ELSE IF conn[c] = "open" THEN "shut" ELSE "closed"]
    /\ reset' = [reset EXCEPT ![t] = "empty"]
    /\ UNCHANGED <<clients, subVars, filterVars, pushVars, current, cmdVars,
                   linkVars, ioVars, lisPc, picRunning, ioStopped, mainPc, logVars>>

KeepLock == UNCHANGED lock

\* The scoped_lock of closeClients goes out of scope.
Unlock == lock' = "free"

\* ... marks them CLOSED, empties the list and releases m_lock.
ResetEmpty(t) ==
    /\ reset[t] = "empty"
    /\ Unlock
    /\ conn' = [c \in Client |-> IF c \in clients THEN "closed" ELSE conn[c]]
    /\ clients' = {}
    /\ reset' = [reset EXCEPT ![t] = "io"]
    /\ UNCHANGED <<subVars, filterVars, pushVars, current, cmdVars, linkVars,
                   ioVars, lisPc, picRunning, ioStopped, mainPc, logVars>>

\* gListener->stop() and io_service.stop()
ResetIo(t) ==
    /\ reset[t] = "io"
    /\ ioStopped' = TRUE
    /\ reset' = [reset EXCEPT ![t] = "none"]
    /\ UNCHANGED <<listVars, cmdVars, linkVars, ioVars, lock, lisPc, picRunning,
                   mainPc, logVars>>

-----------------------------------------------------------------------------
(* pic: frames from the Manager *)

\* Mutant: one number too many.
SeqAfterNext(f) == NextSeq(NextSeq(f.seq))

Reading == picPc = "read" /\ reset["pic"] = "none"

\* m_seqNo = seqNo + 1: the frame's number decides, not a count of frames.
SeqAfter(f) == NextSeq(f.seq)

\* frameComplete of a response: m_seqNo follows the frame's sequence number,
\* and the callback is made if one is registered.
Recv ==
    /\ Reading /\ fromMgr # <<>>
    /\ fromMgr' = Tail(fromMgr)
    /\ seqNo' = SeqAfter(Head(fromMgr))
    /\ IF IsRunning
       THEN picPc' = "validate" /\ frame' = Head(fromMgr)
       ELSE UNCHANGED picVars
    /\ UNCHANGED <<listVars, cmdVars, toMgr, mgrFilter, unsolicited, ioVars,
                   ctlVars, logVars>>

\* commandComplete compares the response with m_currentCommand (no lock held);
\* an error answer to a SUBSCRIBE restores the previous union.
Validate ==
    /\ picPc = "validate"
    /\ IF frame.type = current.type /\ frame.seq = current.seq
       THEN /\ picPc' = "deliver"
            /\ UNCHANGED frame
            /\ filterUnion' = IF frame.type = "SUBSCRIBE" /\ ~frame.ok
                              THEN prevFilter ELSE filterUnion
       ELSE /\ picPc' = "read"
            /\ frame' = NoFrame
            /\ UNCHANGED filterUnion
    /\ UNCHANGED <<clientVars, subVars, prevFilter, pushVars, current, cmdVars,
                   seqNo, mgrVars, unsolicited, ioVars, ctlVars, logVars>>

\* The rest of commandComplete holds m_inProgressMutex, but commandLoop and
\* removeClient write m_currentCommand without it: each of the four accesses finds
\* it as it is then.  "misrouted" records that one of them met another command than
\* the one answered.  First the result is set to CLIENT_OK ...
Misrouted(id) == IF id \in {0, frame.id} THEN {} ELSE {"misrouted"}

Deliver ==
    /\ picPc = "deliver"
    /\ current' = [current EXCEPT !.result = "OK"]
    /\ picPc' = "check"
    /\ trouble' = trouble \cup Misrouted(current.id)
         \cup (IF frame.type = "SUBSCRIBE" /\ ~frame.ok THEN {"refused"} ELSE {})
    /\ UNCHANGED <<clientVars, subVars, filterVars, pushVars, cmdVars, seqNo, frame,
                   mgrVars, unsolicited, ioVars, ctlVars, out>>

\* ... then it is over, unless the command has a client ...
FindClient ==
    /\ picPc = "check"
    /\ IF current.client = NoClient
       THEN picPc' = "read" /\ frame' = NoFrame
       ELSE picPc' = "relay" /\ UNCHANGED frame
    /\ UNCHANGED <<listVars, cmdVars, seqNo, mgrVars, unsolicited, ioVars, ctlVars, logVars>>

\* ... to whom the response is relayed, if it is still there ...
Relay ==
    /\ picPc = "relay"
    /\ LET c == current.client IN
       /\ out' = IF c = NoClient THEN out
                 ELSE Write(c, [kind |-> "relay", id |-> current.id, rid |-> frame.id,
                                flags |-> IF frame.type = "SUBSCRIBE" THEN newParams[c] ELSE {}])
       /\ trouble' = trouble \cup (IF c = NoClient THEN {} ELSE Misrouted(current.id))
    /\ IF frame.type = "SUBSCRIBE" THEN picPc' = "commit" /\ UNCHANGED frame
                                   ELSE picPc' = "read" /\ frame' = NoFrame
    /\ UNCHANGED <<listVars, cmdVars, seqNo, mgrVars, unsolicited, ioVars, ctlVars>>

\* ... and whose filter is committed if it was a SUBSCRIBE.  The client may be gone
\* from m_currentCommand: then a null pointer is used.
Commit ==
    /\ picPc = "commit"
    /\ picPc' = "read" /\ frame' = NoFrame
    /\ LET c == current.client IN
       IF c = NoClient
       THEN trouble' = trouble \cup {"null"} /\ UNCHANGED <<params, inTxn>>
       ELSE /\ params' = [params EXCEPT ![c] = newParams[c]]
            /\ inTxn' = [inTxn EXCEPT ![c] = FALSE]
            /\ trouble' = trouble \cup Misrouted(current.id)
    /\ UNCHANGED <<clientVars, newParams, filterVars, pushVars, current, cmdVars, seqNo,
                   mgrVars, unsolicited, ioVars, ctlVars, out>>

\* handleNotif under m_lock: every client whose committed filter has the type.
HandleNotif(n) ==
    /\ Reading /\ IsRunning /\ lock = "free"
    /\ unsolicited < MaxUnsolicited
    /\ unsolicited' = unsolicited + 1
    /\ out' = [c \in Client |->
                 IF c \in clients /\ IsSubscribed(c, n) /\ Writable(c)
                 THEN Append(out[c], [kind |-> "notif", id |-> 0, rid |-> 0,
                                      flags |-> {n}])
                 ELSE out[c]]
    /\ UNCHANGED <<listVars, cmdVars, seqNo, picVars, mgrVars, ioVars, ctlVars,
                   trouble>>

\* MGR_HELLO on a live connection, or an exception of the serial read:
\* resetConnection on the Picard thread.
PicardReset ==
    /\ Reading /\ unsolicited < MaxUnsolicited
    /\ unsolicited' = unsolicited + 1
    /\ StartReset("pic")
    /\ UNCHANGED <<listVars, cmdVars, seqNo, picVars, mgrVars, ioVars, lock, lisPc,
                   picRunning, ioStopped, mainPc, logVars>>

\* The read loop ends once m_isRunning is false.
PicExit ==
    /\ Reading /\ ~picRunning
    /\ picPc' = "done"
    /\ UNCHANGED <<listVars, cmdVars, seqNo, frame, mgrVars, unsolicited, ioVars,
                   ctlVars, logVars>>

-----------------------------------------------------------------------------
(* main: the tail of serial_mux_loop *)

\* io_service.run has returned: no more callbacks, stop the manager, drop what
\* is queued.
MainStop ==
    /\ mainPc = "run" /\ ioStopped /\ ioPc = "idle"
    /\ mainPc' = "joincmd"
    /\ queue' = <<>>
    /\ UNCHANGED <<clientVars, subVars, filterVars, nextId, current, cmdVars,
                   linkVars, ioVars, lock, lisPc, reset, picRunning, ioStopped, logVars>>

\* clientThread.join()
MainJoinCmd ==
    /\ mainPc = "joincmd" /\ cmdPc = "done"
    /\ mainPc' = "joinlisten"
    /\ UNCHANGED <<listVars, cmdVars, linkVars, ioVars, lock, lisPc, reset, picRunning,
                   ioStopped, logVars>>

\* listenThread.join(), gPicardIO->stop()
MainJoinListen ==
    /\ mainPc = "joinlisten" /\ lisPc = "done"
    /\ mainPc' = "joinpic"
    /\ picRunning' = FALSE
    /\ UNCHANGED <<listVars, cmdVars, linkVars, ioVars, lock, lisPc, reset, ioStopped,
                   logVars>>

\* picardThread.join()
MainJoinPic ==
    /\ mainPc = "joinpic" /\ picPc = "done"
    /\ mainPc' = "joined"
    /\ UNCHANGED <<listVars, cmdVars, linkVars, ioVars, lock, lisPc, reset, picRunning,
                   ioStopped, logVars>>

-----------------------------------------------------------------------------
(* listen_thread, on a link that is connected by now *)

\* waitForHello finds the link connected, and the listener is started.
ListenAtOnce ==
    /\ lisPc = "check"
    /\ lisPc' = "done"
    /\ UNCHANGED <<listVars, cmdVars, linkVars, ioVars, lock, reset, picRunning,
                   ioStopped, mainPc, logVars>>

\* It had looked at m_connected before the hello response came, and waits for a
\* notification that has been made.
ListenLate ==
    /\ lisPc = "wait"
    /\ lisPc' = "waiting"
    /\ UNCHANGED <<listVars, cmdVars, linkVars, ioVars, lock, reset, picRunning,
                   ioStopped, mainPc, logVars>>

\* The wait has no predicate: it may end for no reason.
SpuriousWake ==
    /\ lisPc = "waiting"
    /\ lisPc' = "done"
    /\ UNCHANGED <<listVars, cmdVars, linkVars, ioVars, lock, reset, picRunning,
                   ioStopped, mainPc, logVars>>

-----------------------------------------------------------------------------
(* External: the Manager and the serial line *)

\* The Manager takes the next request and answers it under its sequence
\* number; accepting a SUBSCRIBE replaces its filter.  Only for a SUBSCRIBE does
\* the mux look at the response code.  The line is of no interest once the
\* callback is gone.
MgrAnswer(ok) ==
    /\ IsRunning /\ toMgr # <<>>
    /\ LET r == Head(toMgr) IN
       /\ r.type = "SUBSCRIBE" \/ ok
       /\ fromMgr' = Append(fromMgr, [r EXCEPT !.ok = ok])
       /\ mgrFilter' = IF ok /\ r.type = "SUBSCRIBE" THEN r.data ELSE mgrFilter
    /\ toMgr' = Tail(toMgr)
    /\ UNCHANGED <<listVars, cmdVars, seqNo, picVars, unsolicited, ioVars, ctlVars,
                   logVars>>

\* The next frame in either direction is lost.
Lose ==
    /\ IsRunning
    /\ \/ toMgr # <<>> /\ toMgr' = Tail(toMgr) /\ UNCHANGED fromMgr
       \/ fromMgr # <<>> /\ fromMgr' = Tail(fromMgr) /\ UNCHANGED toMgr
    /\ UNCHANGED <<listVars, cmdVars, seqNo, picVars, mgrFilter, unsolicited, ioVars,
                   ctlVars, logVars>>

-----------------------------------------------------------------------------
Init ==
    /\ clients = {} /\ conn = [c \in Client |-> "free"]
    /\ params = [c \in Client |-> {}] /\ newParams = [c \in Client |-> {}]
    /\ inTxn = [c \in Client |-> FALSE]
    /\ queue = <<>> /\ nextId = 1
    /\ filterUnion = {} /\ prevFilter = {}
    /\ current = AsCurrent(NullCommand)
    /\ cmdPc = "pop" /\ cmd = NullCommand /\ attempt = 0 /\ cmdResult = "TIMEOUT"
    /\ cmdUnion = {} /\ built = 0
    /\ seqNo = 1                       \* HELLO_RESPONSE: cliSeqNo + 1
    /\ picPc = "read" /\ frame = NoFrame
    /\ ioPc = "idle" /\ ioClient = NoClient /\ ioUnion = {}
    /\ lisPc \in {"check", "wait"}     \* of waitForHello's look at m_connected
    /\ lock = "free" /\ reset = [t \in ResetThreads |-> "none"]
    /\ picRunning = TRUE /\ ioStopped = FALSE /\ mainPc = "run"
    /\ toMgr = <<>> /\ fromMgr = <<>> /\ mgrFilter = {}
    /\ unsolicited = 0 /\ out = [c \in Client |-> <<>>] /\ trouble = {}

\* Steps a thread takes on its own, and the ones the environment decides.
CmdStep == \/ PopNothing \/ PopGone \/ PopLocal \/ PopSubscribe
           \/ PopForward \/ CmdUnion \/ CmdStore \/ Rewrite \/ Build \/ Publish \/ WaitDone
           \/ Finish \/ Undo \/ Unset \/ Tell \/ Clear \/ CmdExit
ResetStep(t) == ResetStop(t) \/ ResetClose(t) \/ ResetEmpty(t) \/ ResetIo(t)
PicStep == Validate \/ Deliver \/ FindClient \/ Relay \/ Commit \/ PicExit
IoStep == Mark \/ Erase \/ IoStore \/ IoPush
MainStep == MainStop \/ MainJoinCmd \/ MainJoinListen \/ MainJoinPic
ListenStep == ListenAtOnce \/ ListenLate

EnvStep == \/ \E c \in Client : AddClient(c) \/ ReadError(c)
           \/ \E c \in Client, r \in Request : HandleCommand(c, r)
           \/ \E n \in Notif : HandleNotif(n)
           \/ \E ok \in BOOLEAN : MgrAnswer(ok)
           \/ Recv \/ PicardReset \/ Lose \/ SpuriousWake

\* The epoch is over: serial_mux_loop deletes the components.
Terminated == mainPc = "joined" /\ UNCHANGED vars

Next == \/ CmdStep \/ PicStep \/ IoStep \/ MainStep \/ ListenStep \/ EnvStep
        \/ \E t \in ResetThreads : ResetStep(t)
        \/ Terminated

Spec == Init /\ [][Next]_vars

\* Each thread keeps running; nothing is assumed of clients, Manager or line.
Fairness == /\ WF_vars(CmdStep) /\ WF_vars(PicStep) /\ WF_vars(IoStep)
            /\ WF_vars(MainStep) /\ WF_vars(ListenStep)
            /\ \A t \in ResetThreads : WF_vars(ResetStep(t))

FairSpec == Spec /\ Fairness

-----------------------------------------------------------------------------
(* Properties *)

ConnStates == {"free", "open", "eof", "shut", "closed"}

\* Every variable has its type; no record or pc is ever outside its domain.
TypeOK ==
    /\ clients \subseteq Client /\ conn \in [Client -> ConnStates]
    /\ params \in [Client -> SUBSET Flags] /\ newParams \in [Client -> SUBSET Flags]
    /\ inTxn \in [Client -> BOOLEAN]
    /\ queue \in Seq(Command) /\ nextId \in Nat
    /\ filterUnion \subseteq Flags /\ prevFilter \subseteq Flags
    /\ current \in Current
    /\ cmdPc \in {"pop", "union", "store", "rewrite", "send", "publish", "wait",
                  "unset", "tell", "clear", "done"}
    /\ cmd \in Command /\ attempt \in Nat /\ cmdResult \in Results
    /\ cmdUnion \subseteq Flags /\ built \in Seqs /\ seqNo \in Seqs
    /\ picPc \in {"read", "validate", "deliver", "check", "relay", "commit", "done"}
    /\ frame \in Frame
    /\ ioPc \in {"idle", "mark", "erase", "store", "push"}
    /\ ioClient \in ClientOrNull /\ ioUnion \subseteq Flags
    /\ lock \in {"free", "io"} \cup ResetThreads
    /\ reset \in [ResetThreads -> {"none", "stop", "close", "empty", "io"}]
    /\ lisPc \in {"check", "wait", "waiting", "done"}
    /\ picRunning \in BOOLEAN /\ ioStopped \in BOOLEAN
    /\ mainPc \in {"run", "joincmd", "joinlisten", "joinpic", "joined"}
    /\ toMgr \in Seq(Frame) /\ fromMgr \in Seq(Frame) /\ mgrFilter \subseteq Flags
    /\ unsolicited \in Nat /\ out \in [Client -> Seq(Message)]
    /\ trouble \subseteq {"timeout", "disconnect", "removed", "misrouted", "null", "refused"}

\* Two sequence numbers at most are in flight, m_seqNo and the one before it, and
\* a frame that carries the older number is never behind one with the newer:
\* retransmissions, losses and late answers never bring back an earlier number.
\* (sendCommand stamps a frame and only later publishes it, while
\* frameComplete moves m_seqNo with no lock: BasePicard.cpp:77-95, 262.)
Recent(f) == f.seq = seqNo \/ NextSeq(f.seq) = seqNo
NoOlderAfter(s) == \A i, j \in DOMAIN s : i < j /\ s[i].seq = seqNo => s[j].seq = seqNo
Fresh(s) == \E i \in DOMAIN s : s[i].seq = seqNo

InFlightSeq ==
    /\ \A i \in DOMAIN fromMgr : Recent(fromMgr[i])
    /\ \A i \in DOMAIN toMgr : Recent(toMgr[i])
    /\ NoOlderAfter(fromMgr) /\ NoOlderAfter(toMgr)
    /\ Fresh(fromMgr) => \A i \in DOMAIN toMgr : toMgr[i].seq = seqNo
    /\ cmdPc = "publish" =>
         /\ built = seqNo \/ NextSeq(built) = seqNo
         /\ Fresh(fromMgr) \/ Fresh(toMgr) => built = seqNo

Answered(c, i) == \E k \in DOMAIN out[c] : out[c][k].id = i

\* commandLoop never moves on from a client's command before that client has been
\* written a response, relayed or made up, however the answer, the timeout and
\* the read error of any client interleave.
AnsweredBeforeCleared ==
    cmdPc = "clear" /\ cmd.client # NoClient /\ Writable(cmd.client)
      => Answered(cmd.client, cmd.id)

\* A client gets the responses to its commands in the order it sent them ("all
\* commands should be processed through the Client Manager queue so that order
\* is maintained", BoostClient.cpp:67): the mux answers carry no command id of
\* the client, so the order is all it has to tell them apart.
AnswersInOrder ==
    \A c \in Client : \A j, k \in DOMAIN out[c] :
        j < k /\ out[c][j].id # 0 /\ out[c][k].id # 0 => out[c][j].id <= out[c][k].id

\* A client is sent a notification only after the reply to a subscribe that put
\* its type into force ("new filters are only applied after the subscribe reply
\* is sent", Subscriber.h:41), although m_newParams changes before the request
\* is even sent, unless commitFilter met another command than the one answered.
NotifAfterReply ==
    "misrouted" \notin trouble =>
        \A c \in Client : \A k \in DOMAIN out[c] :
            out[c][k].kind = "notif" =>
                \E j \in 1 .. k - 1 : /\ out[c][j].kind = "relay"
                                      /\ out[c][k].flags \subseteq out[c][j].flags

\* As long as no wait timed out and no read error hit a command in progress,
\* every response is relayed for the command it answers, and no command gets
\* two responses: "keep the SClientCommand as state to know where to send the
\* response" (BoostClientManager.cpp:122) is enough in the undisturbed case.
CleanRouting ==
    trouble \cap {"timeout", "disconnect"} = {} =>
        /\ "misrouted" \notin trouble
        /\ \A c \in Client : \A j, k \in DOMAIN out[c] :
              j # k /\ out[c][j].id = out[c][k].id => out[c][j].id = 0

\* A subscription transaction is open only while commandLoop works on that
\* client's SUBSCRIBE, and outside one the new filter is the committed one.
\* Timeouts, refusals and read errors included; only a misrouted response can
\* leave one open.
TransactionsClosed ==
    "misrouted" \notin trouble =>
        \A c \in Client :
            (cmdPc \in {"pop", "done"} \/ cmd.client # c \/ cmd.type # "SUBSCRIBE") =>
                ~inTxn[c] /\ newParams[c] = params[c]

\* Nothing queued, nothing in progress, no teardown.
Quiescent ==
    /\ queue = <<>> /\ cmdPc = "pop" /\ picPc = "read" /\ ioPc = "idle"
    /\ IsRunning /\ lock = "free" /\ \A t \in ResetThreads : reset[t] = "none"
    /\ ~ioStopped /\ toMgr = <<>> /\ fromMgr = <<>>

\* In an undisturbed epoch the mux at rest agrees with the device: m_filterUnion is
\* the union of the clients' committed filters, and the Manager's notification
\* filter is that union.
FilterInSync ==
    Quiescent /\ trouble = {} =>
        /\ filterUnion = UNION {params[c] : c \in clients}
        /\ mgrFilter \cap Notif = filterUnion \cap Notif

\* A queued command is answered, or its client is gone, or the epoch ends.
EventuallyServed ==
    \A c \in Client, i \in 1 .. MaxCmds :
        (\E k \in DOMAIN queue : queue[k].client = c /\ queue[k].id = i)
          ~> (Answered(c, i) \/ c \notin clients \/ ioStopped)

\* Once io_service is stopped every thread of the epoch can be joined: neither
\* m_lock, nor m_inProgressMutex, nor the wait for an answer holds the teardown up.
\* Only a listen thread can that waits for a notification it has missed.
EventuallyJoined ==
    ioStopped ~> (mainPc = "joined" \/ (mainPc = "joinlisten" /\ lisPc = "waiting"))

-----------------------------------------------------------------------------
(* Statements of the repository that the code does not keep *)

\* "if Picard isn't responding, disconnect" (BoostClientManager.cpp:333), and on a
\* read error the "current command should be empty" (238): commandLoop resets the
\* connection only after it used up its tries.
ResetOnlyWhenUnresponsive == reset["cmd"] # "none" => attempt = Retries

\* "union of all client subscriptions" (BoostClientManager.h:115), at rest, when
\* nothing but refused subscribes happened.
UnionIsUnion ==
    Quiescent /\ trouble \subseteq {"refused"} =>
        filterUnion = UNION {params[c] : c \in clients}

\* "update the subscription filter now that the client is gone"
\* (BoostClientManager.cpp:258): at rest, when nothing but departures of clients
\* happened, m_filterUnion holds the filters of the clients that are left.
UnionAfterRemoval ==
    Quiescent /\ trouble \subseteq {"removed"} =>
        filterUnion = UNION {params[c] : c \in clients}

\* "if this is a subscribe, then use the union of all subscriptions"
\* (BoostClientManager.cpp:102): at rest the Manager has the notification types of
\* every client, when nothing but departures of clients happened.
DeviceHasUnion ==
    Quiescent /\ trouble \subseteq {"removed"} =>
        mgrFilter \cap Notif = filterUnion \cap Notif

\* "keep the SClientCommand as state to know where to send the response"
\* (BoostClientManager.cpp:122): a relayed response answers the command it is
\* relayed for.
RoutedToItsCommand ==
    \A c \in Client : \A k \in DOMAIN out[c] :
        out[c][k].kind = "relay" => out[c][k].rid = out[c][k].id

\* "update the subscribe command with the complete filter"
\* (BoostClientManager.cpp:117): in an undisturbed epoch the Manager at rest has
\* the unreliable mask of the union too.
CompleteFilter == Quiescent /\ trouble = {} => mgrFilter = filterUnion
=============================================================================
