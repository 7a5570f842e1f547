---------------------------- MODULE MuxLifecycle ----------------------------
(***************************************************************************)
(* The life of the program as a service: nt_service_main calls             *)
(* serial_mux_loop, each turn of which opens the port, creates the         *)
(* components and their threads, runs io_service, and joins and deletes    *)
(* everything again.  resetConnection ends a turn; it is called by the     *)
(* command thread, by the Picard thread, and by the control handler of the *)
(* service when it is stopped, at any point of the loop.  What the threads *)
(* do inside a turn is in ClientManager, PicardLink and ClientSession.     *)
(*                                                                         *)
(* External: the service control manager, asio, the port and the clients.  *)
(***************************************************************************)
EXTENDS Naturals

CONSTANTS
    Controls,    \* the controls the service control manager sends
    MaxResets    \* bound: resets by the command and the Picard thread

ASSUME ResetBound == MaxResets \in Nat

Caller    == {"ctl", "cmd", "pic"}
Component == {"picard", "manager", "listener"}

\* Where the main thread is before and after it deletes a component.
DeletePc == [picard |-> "delete picard", manager |-> "delete manager",
             listener |-> "delete listener"]
ClearPc  == [picard |-> "clear picard", manager |-> "clear manager",
             listener |-> "clear listener"]
Deleting == {DeletePc[c] : c \in Component} \cup {ClearPc[c] : c \in Component}
AfterPc  == [manager |-> "delete listener", listener |-> "delete picard", picard |-> "loop"]

VARIABLES
    svc,         \* m_status.dwCurrentState
    muxRunning,
    mainPc,      \* nt_service_main and serial_mux_loop
    ctlPc,       \* service_control_handler and serial_mux_stop
    rpc,         \* where each caller is in resetConnection
    global,      \* gPicardIO, gClientMgr, gListener: "null", "live", "freed"
    ioStopped,   \* io_service was stopped
    mgrRunning,  \* m_isRunning of the client manager
    cmdPc,       \* commandLoop
    picRunning,  \* m_isRunning of the Picard input
    connected,   \* m_connected
    picPc,       \* threadMain
    lisPc,       \* listen_thread
    acceptor,    \* the acceptor: "closed", "open", "pending" or "ready"
    staleAccept, \* a completed accept of a deleted listener is queued on io_service
    clients,     \* the client list is not empty
    accepted,    \* a connection was accepted: its timer may be on io_service ever after
    resets,      \* resets so far
    dangling,    \* history: threads that used a deleted component
    trouble      \* history: what is known to keep a stop from completing

svcVars   == <<svc, muxRunning, ctlPc>>
cmdVars   == <<mgrRunning, cmdPc>>
picVars   == <<picRunning, connected, picPc>>
acceptVars == <<acceptor, staleAccept, clients, accepted>>
histVars  == <<resets, dangling, trouble>>
vars == <<svcVars, mainPc, rpc, global, ioStopped, cmdVars, picVars, lisPc, acceptVars, histVars>>

Troubles == {"early", "undone", "restarted", "throw", "bind", "thrown", "blocked",
             "spurious", "revived"}

\* Points of control and components, flags, histories.
PcType ==
    /\ svc \in {"START_PENDING", "RUNNING", "STOPPED"}
    /\ mainPc \in {"begin", "service", "loop", "reset", "open", "start", "listen", "run",
                   "joincmd", "joinlisten", "joinpic", "returned", "dead"} \cup Deleting
    /\ ctlPc \in {"idle", "answer", "stop", "reset", "wait", "woken", "dead"}
    /\ rpc \in [Caller -> {"none", "picard", "manager", "listener", "io"}]
    /\ global \in [Component -> {"null", "live", "freed"}]
    /\ cmdPc \in {"none", "start", "loop"} /\ picPc \in {"none", "loop", "blocked"}
    /\ lisPc \in {"none", "check", "unlocked", "wait", "listen"}
    /\ acceptor \in {"closed", "open", "pending", "ready"}

FlagType ==
    /\ muxRunning \in BOOLEAN /\ ioStopped \in BOOLEAN /\ mgrRunning \in BOOLEAN
    /\ picRunning \in BOOLEAN /\ connected \in BOOLEAN
    /\ staleAccept \in BOOLEAN /\ clients \in BOOLEAN /\ accepted \in BOOLEAN

HistType ==
    /\ resets \in 0 .. MaxResets
    /\ dangling \subseteq Caller \cup {"listen", "io"} /\ trouble \subseteq Troubles

\* The service, its components and threads are always in one of the states named
\* above, whatever controls and resets arrive.
TypeOK == PcType /\ FlagType /\ HistType

Init ==
    /\ svc = "START_PENDING" /\ muxRunning = TRUE
    /\ mainPc = "begin" /\ ctlPc = "idle"
    /\ rpc = [t \in Caller |-> "none"] /\ global = [c \in Component |-> "null"]
    /\ ioStopped = FALSE /\ mgrRunning = FALSE /\ picRunning = FALSE /\ connected = FALSE
    /\ cmdPc = "none" /\ picPc = "none" /\ lisPc = "none"
    /\ acceptor = "closed" /\ staleAccept = FALSE
    /\ clients = FALSE /\ accepted = FALSE
    /\ resets = 0 /\ dangling = {} /\ trouble = {}

\* A thread calls a component through its global pointer.
Use(t, c) == dangling' = IF global[c] = "freed" THEN dangling \cup {t} ELSE dangling

Note(happened, kind) == IF happened THEN trouble' = trouble \cup {kind} ELSE UNCHANGED trouble

-----------------------------------------------------------------------------
(* The service thread: nt_service_main and serial_mux_loop *)

\* The handler is registered and the service reported as running.
ServiceMain ==
    /\ mainPc = "begin"
    /\ svc' = "RUNNING" /\ mainPc' = "service"
    /\ UNCHANGED <<muxRunning, ctlPc, rpc, global, ioStopped, cmdVars, picVars, lisPc,
                   acceptVars, histVars>>

\* while (status == RUNNING) serial_mux_start.  Bound: a service that failed and that
\* a control then reports as running enters the loop again, beside the threads and
\* components of the turn it left.  The model has one of each and does not go on there.
ServiceLoop ==
    /\ mainPc = "service" /\ "revived" \notin trouble
    /\ mainPc' = IF svc = "RUNNING" THEN "loop" ELSE "returned"
    /\ UNCHANGED <<svcVars, rpc, global, ioStopped, cmdVars, picVars, lisPc, acceptVars, histVars>>

LoopGoesOn ==
    /\ mainPc = "loop" /\ muxRunning
    /\ mainPc' = "reset"
    /\ UNCHANGED <<svcVars, rpc, global, ioStopped, cmdVars, picVars, lisPc, acceptVars, histVars>>

\* Mutant: nt_service_main calls the service once.
LoopEndsOnce ==
    /\ mainPc = "loop" /\ ~muxRunning
    /\ ctlPc' = IF ctlPc = "wait" THEN "woken" ELSE ctlPc
    /\ mainPc' = "returned"
    /\ UNCHANGED <<svc, muxRunning, rpc, global, ioStopped, cmdVars, picVars, lisPc,
                   acceptVars, histVars>>

\* The loop is left: gMuxLoopComplete.notify_one().
LoopEnds ==
    /\ mainPc = "loop" /\ ~muxRunning
    /\ ctlPc' = IF ctlPc = "wait" THEN "woken" ELSE ctlPc
    /\ mainPc' = "service"
    /\ UNCHANGED <<svc, muxRunning, rpc, global, ioStopped, cmdVars, picVars, lisPc,
                   acceptVars, histVars>>

\* io_service.reset() forgets a stop(), also the one of serial_mux_stop.
IoReset ==
    /\ mainPc = "reset"
    /\ ioStopped' = FALSE
    /\ Note(ioStopped /\ ctlPc = "wait", "undone")
    /\ mainPc' = "open"
    /\ UNCHANGED <<svcVars, rpc, global, cmdVars, picVars, lisPc, acceptVars,
                   resets, dangling>>

\* The port cannot be opened: sleep, continue.
OpenFails ==
    /\ mainPc = "open"
    /\ mainPc' = "loop"
    /\ UNCHANGED <<svcVars, rpc, global, ioStopped, cmdVars, picVars, lisPc, acceptVars, histVars>>

Open ==
    /\ mainPc = "open"
    /\ global' = [global EXCEPT !["picard"] = "live"]
    /\ connected' = FALSE
    /\ mainPc' = "start"
    /\ UNCHANGED <<svcVars, rpc, ioStopped, cmdVars, picRunning, picPc, lisPc, acceptVars, histVars>>

\* The client manager, the Picard thread and the command thread.
Start ==
    /\ mainPc = "start"
    /\ global' = [global EXCEPT !["manager"] = "live"]
    /\ picRunning' = TRUE /\ picPc' = "loop"
    /\ mgrRunning' = FALSE /\ cmdPc' = "start"
    /\ clients' = FALSE
    /\ mainPc' = "listen"
    /\ UNCHANGED <<svcVars, rpc, ioStopped, connected, lisPc, acceptor, staleAccept, accepted,
                   histVars>>

Listen ==
    /\ mainPc = "listen"
    /\ global' = [global EXCEPT !["listener"] = "live"]
    /\ acceptor' = "open" /\ lisPc' = "check"
    /\ mainPc' = "run"
    /\ UNCHANGED <<svcVars, rpc, ioStopped, cmdVars, picVars, staleAccept, clients, accepted,
                   histVars>>

\* The listener's port is taken: the exception leaves serial_mux_loop, which
\* detaches the threads, and nt_service_main stops the service.
BindFails ==
    /\ mainPc = "listen"
    /\ svc' = "STOPPED" /\ mainPc' = "service"
    /\ trouble' = trouble \cup {"bind"}
    /\ UNCHANGED <<muxRunning, ctlPc, rpc, global, ioStopped, cmdVars, picVars, lisPc,
                   acceptVars, resets, dangling>>

\* io_service.run() returns; it is reset, callbacks are disabled and the client
\* manager is stopped.
RunReturns ==
    /\ mainPc = "run" /\ ioStopped
    /\ ioStopped' = FALSE /\ mgrRunning' = FALSE
    /\ mainPc' = "joincmd"
    /\ UNCHANGED <<svcVars, rpc, global, cmdPc, picVars, lisPc, acceptVars, histVars>>

\* A handler throws: start() of a connection just accepted (remoteName) or the
\* timer's of an unauthenticated one (shutdown), of this turn or an earlier one.  The
\* exception leaves io_service.run and serial_mux_loop; nt_service_main catches it
\* and stops the service.  Nothing is joined or deleted and nobody is notified.
HandlerThrows ==
    /\ mainPc = "run" /\ ~ioStopped
    /\ \/ acceptor = "ready" /\ acceptor' = "open" /\ UNCHANGED staleAccept
       \/ staleAccept /\ staleAccept' = FALSE /\ UNCHANGED acceptor
       \/ accepted /\ UNCHANGED <<acceptor, staleAccept>>
    /\ svc' = "STOPPED" /\ mainPc' = "service"
    /\ trouble' = trouble \cup {"thrown"}
    /\ UNCHANGED <<muxRunning, ctlPc, rpc, global, ioStopped, cmdVars, picVars, lisPc,
                   clients, accepted, resets, dangling>>

\* Mutant: the command thread is not waited for.
SkipJoinCmd ==
    /\ mainPc = "joincmd"
    /\ mainPc' = "joinlisten"
    /\ UNCHANGED <<svcVars, rpc, global, ioStopped, cmdVars, picVars, lisPc, acceptVars, histVars>>

JoinCmd ==
    /\ mainPc = "joincmd" /\ cmdPc = "none"
    /\ mainPc' = "joinlisten"
    /\ UNCHANGED <<svcVars, rpc, global, ioStopped, cmdVars, picVars, lisPc, acceptVars, histVars>>

\* listenThread.join(), then the Picard thread is told to stop.
JoinListen ==
    /\ mainPc = "joinlisten" /\ lisPc = "none"
    /\ picRunning' = FALSE
    /\ mainPc' = "joinpic"
    /\ UNCHANGED <<svcVars, rpc, global, ioStopped, cmdVars, connected, picPc, lisPc,
                   acceptVars, histVars>>

JoinPic ==
    /\ mainPc = "joinpic" /\ picPc = "none"
    /\ mainPc' = "delete manager"
    /\ UNCHANGED <<svcVars, rpc, global, ioStopped, cmdVars, picVars, lisPc, acceptVars, histVars>>

\* delete c; c = NULL, in two steps.  An accept that had completed stays queued.
Delete(c) ==
    /\ mainPc = DeletePc[c]
    /\ global' = [global EXCEPT ![c] = "freed"]
    /\ staleAccept' = (staleAccept \/ (c = "listener" /\ acceptor = "ready"))
    /\ acceptor' = IF c = "listener" THEN "closed" ELSE acceptor
    /\ mainPc' = ClearPc[c]
    /\ UNCHANGED <<svcVars, rpc, ioStopped, cmdVars, picVars, lisPc, clients, accepted,
                   histVars>>

\* Mutant: the pointer is left as it is.
ClearNothing(c) ==
    /\ mainPc = ClearPc[c]
    /\ mainPc' = AfterPc[c]
    /\ UNCHANGED <<svcVars, rpc, global, ioStopped, cmdVars, picVars, lisPc, acceptVars, histVars>>

Clear(c) ==
    /\ mainPc = ClearPc[c]
    /\ global' = [global EXCEPT ![c] = "null"]
    /\ mainPc' = AfterPc[c]
    /\ UNCHANGED <<svcVars, rpc, ioStopped, cmdVars, picVars, lisPc, acceptVars, histVars>>

MainStep ==
    \/ ServiceMain \/ ServiceLoop \/ LoopGoesOn \/ LoopEnds \/ IoReset \/ OpenFails \/ Open
    \/ Start \/ Listen \/ BindFails \/ RunReturns \/ JoinCmd \/ JoinListen \/ JoinPic
    \/ \E c \in Component : Delete(c) \/ Clear(c)

-----------------------------------------------------------------------------
(* resetConnection, in any of its callers *)

\* Does a notification of m_connect reach the listen thread, or is it not needed?
NotifyReaches == lisPc \in {"none", "wait", "listen"} \/ (lisPc = "check" /\ connected)

\* gPicardIO->reset() and stop().  Before the port is open there is nobody to tell.
ResetPicard(t) ==
    /\ rpc[t] = "picard"
    /\ Use(t, "picard")
    /\ IF global["picard"] = "null"
       THEN /\ Note(mainPc \in {"reset", "open"}, "early")
            /\ UNCHANGED <<picRunning, lisPc>>
       ELSE /\ Note(~NotifyReaches \/ mainPc \in {"start", "listen"}, "early")
            /\ lisPc' = IF lisPc = "wait" THEN "listen" ELSE lisPc
            /\ picRunning' = FALSE
    /\ rpc' = [rpc EXCEPT ![t] = "manager"]
    /\ UNCHANGED <<svcVars, mainPc, global, ioStopped, cmdVars, connected, picPc, acceptVars,
                   resets>>

\* closeClients, under m_lock
ResetManager(t) ==
    /\ rpc[t] = "manager" /\ picPc # "blocked"
    /\ Use(t, "manager")
    /\ clients' = (clients /\ global["manager"] = "null")
    /\ rpc' = [rpc EXCEPT ![t] = "listener"]
    /\ UNCHANGED <<svcVars, mainPc, global, ioStopped, cmdVars, picVars, lisPc, acceptor,
                   staleAccept, accepted, resets, trouble>>

\* shutdown() of a client that has gone throws: serial_mux_stop catches it and
\* waits, threadMain catches it and ends; nothing catches it in commandLoop, where
\* it ends the process.
ClosingFails(t) ==
    /\ rpc[t] = "manager" /\ global["manager"] = "live" /\ clients /\ picPc # "blocked"
    /\ trouble' = trouble \cup {"throw"}

CloseThrows(t) ==
    /\ t # "cmd" /\ ClosingFails(t)
    /\ rpc' = [rpc EXCEPT ![t] = "none"]
    /\ ctlPc' = IF t = "ctl" THEN "wait" ELSE ctlPc
    /\ picPc' = IF t = "pic" THEN "none" ELSE picPc
    /\ UNCHANGED <<svc, muxRunning, mainPc, global, ioStopped, cmdVars, picRunning, connected,
                   lisPc, acceptVars, resets, dangling>>

CloseTerminates ==
    /\ ClosingFails("cmd")
    /\ mainPc' = "dead" /\ ctlPc' = "dead" /\ rpc' = [t \in Caller |-> "none"]
    /\ cmdPc' = "none" /\ picPc' = "none" /\ lisPc' = "none" /\ acceptor' = "closed"
    /\ UNCHANGED <<svc, muxRunning, global, ioStopped, mgrRunning, picRunning, connected,
                   staleAccept, clients, accepted, resets, dangling>>

\* gListener->stop() closes the acceptor and aborts a pending accept.
ResetListener(t) ==
    /\ rpc[t] = "listener"
    /\ Use(t, "listener")
    /\ acceptor' = IF global["listener"] = "null" \/ acceptor = "ready" THEN acceptor ELSE "closed"
    /\ rpc' = [rpc EXCEPT ![t] = "io"]
    /\ UNCHANGED <<svcVars, mainPc, global, ioStopped, cmdVars, picVars, lisPc, staleAccept,
                   clients, accepted, resets, trouble>>

\* Mutant: serial_mux_stop does not wait for the loop.
ResetIoAndReturn(t) ==
    /\ rpc[t] = "io"
    /\ ioStopped' = TRUE
    /\ rpc' = [rpc EXCEPT ![t] = "none"]
    /\ ctlPc' = IF t = "ctl" THEN "woken" ELSE ctlPc
    /\ UNCHANGED <<svc, muxRunning, mainPc, global, cmdVars, picVars, lisPc, acceptVars, histVars>>

\* io_service.stop(); the caller goes on.
ResetIo(t) ==
    /\ rpc[t] = "io"
    /\ ioStopped' = TRUE
    /\ rpc' = [rpc EXCEPT ![t] = "none"]
    /\ ctlPc' = IF t = "ctl" THEN "wait" ELSE ctlPc
    /\ UNCHANGED <<svc, muxRunning, mainPc, global, cmdVars, picVars, lisPc, acceptVars, histVars>>

ResetStep(t) == ResetPicard(t) \/ ResetManager(t) \/ ResetListener(t) \/ ResetIo(t)

BeginReset(t) == rpc[t] = "none" /\ rpc' = [rpc EXCEPT ![t] = "picard"]

-----------------------------------------------------------------------------
(* The control handler *)

convert_control_to_accept(c) ==
    CASE c = "STOP"                  -> "ACCEPT_STOP"
      [] c \in {"PAUSE", "CONTINUE"} -> "ACCEPT_PAUSE_CONTINUE"
      [] c = "SHUTDOWN"              -> "ACCEPT_SHUTDOWN"
      [] OTHER                       -> "NONE"

\* main registers serial_mux_stop for these controls, and with them accepts them.
Callbacks == {"STOP", "SHUTDOWN"}
Accepted  == {convert_control_to_accept(c) : c \in Callbacks}

\* The service control manager sends what is accepted, and INTERROGATE always, to
\* a service that has not stopped.
Control(c) ==
    /\ mainPc # "begin" /\ ctlPc = "idle" /\ svc # "STOPPED"
    /\ c = "INTERROGATE" \/ convert_control_to_accept(c) \in Accepted
    /\ ctlPc' = IF c \in Callbacks THEN "stop" ELSE "answer"
    /\ UNCHANGED <<svc, muxRunning, mainPc, rpc, global, ioStopped, cmdVars, picVars, lisPc,
                   acceptVars, histVars>>

\* Mutant: a status the service does not know.
ControlPauses ==
    /\ ctlPc = "answer"
    /\ svc' = "PAUSED" /\ ctlPc' = "idle"
    /\ UNCHANGED <<muxRunning, mainPc, rpc, global, ioStopped, cmdVars, picVars, lisPc,
                   acceptVars, histVars>>

\* A control without callback reports the service as running.
ControlAnswered ==
    /\ ctlPc = "answer"
    /\ svc' = "RUNNING" /\ ctlPc' = "idle"
    /\ Note(svc = "STOPPED", "revived")
    /\ UNCHANGED <<muxRunning, mainPc, rpc, global, ioStopped, cmdVars, picVars, lisPc,
                   acceptVars, resets, dangling>>

serial_mux_stop ==
    /\ ctlPc = "stop"
    /\ muxRunning' = FALSE
    /\ BeginReset("ctl") /\ ctlPc' = "reset"
    /\ UNCHANGED <<svc, mainPc, global, ioStopped, cmdVars, picVars, lisPc, acceptVars, histVars>>

\* gMuxLoopComplete.wait has no predicate.
SpuriousWakeup ==
    /\ ctlPc = "wait"
    /\ ctlPc' = "woken" /\ trouble' = trouble \cup {"spurious"}
    /\ UNCHANGED <<svc, muxRunning, mainPc, rpc, global, ioStopped, cmdVars, picVars, lisPc,
                   acceptVars, resets, dangling>>

ControlDone ==
    /\ ctlPc = "woken"
    /\ svc' = "STOPPED" /\ ctlPc' = "idle"
    /\ UNCHANGED <<muxRunning, mainPc, rpc, global, ioStopped, cmdVars, picVars, lisPc,
                   acceptVars, histVars>>

-----------------------------------------------------------------------------
(* The threads of a turn, as far as its beginning and its end depend on them *)

\* commandLoop sets m_isRunning, whatever it was.
CmdStart ==
    /\ cmdPc = "start"
    /\ mgrRunning' = TRUE /\ cmdPc' = "loop"
    /\ Note(mainPc = "joincmd", "restarted")
    /\ UNCHANGED <<svcVars, mainPc, rpc, global, ioStopped, picVars, lisPc, acceptVars,
                   resets, dangling>>

CmdEnd ==
    /\ cmdPc = "loop" /\ ~mgrRunning /\ rpc["cmd"] = "none"
    /\ cmdPc' = "none"
    /\ UNCHANGED <<svcVars, mainPc, rpc, global, ioStopped, mgrRunning, picVars, lisPc,
                   acceptVars, histVars>>

\* A command was not answered: the command thread, or the Picard thread when the
\* Manager has restarted or the port fails, calls resetConnection.
ThreadResets(t) ==
    /\ (t = "cmd" /\ cmdPc = "loop" /\ mgrRunning) \/ (t = "pic" /\ picPc = "loop" /\ picRunning)
    /\ resets < MaxResets /\ resets' = resets + 1
    /\ BeginReset(t)
    /\ UNCHANGED <<svcVars, mainPc, global, ioStopped, cmdVars, picVars, lisPc, acceptVars,
                   dangling, trouble>>

\* The hello response: the listen thread may go on.
Hello ==
    /\ picPc = "loop" /\ picRunning /\ rpc["pic"] = "none" /\ ~connected
    /\ connected' = TRUE
    /\ lisPc' = IF lisPc = "wait" THEN "listen" ELSE lisPc
    /\ UNCHANGED <<svcVars, mainPc, rpc, global, ioStopped, cmdVars, picRunning, picPc,
                   acceptVars, histVars>>

\* handleNotif writes to the clients under m_lock: to one that does not read it
\* blocks until the client reads again.
NotifBlocks ==
    /\ picPc = "loop" /\ rpc["pic"] = "none" /\ clients
    /\ picPc' = "blocked" /\ trouble' = trouble \cup {"blocked"}
    /\ UNCHANGED <<svcVars, mainPc, rpc, global, ioStopped, cmdVars, picRunning, connected,
                   lisPc, acceptVars, resets, dangling>>

ClientReads ==
    /\ picPc = "blocked"
    /\ picPc' = "loop"
    /\ UNCHANGED <<svcVars, mainPc, rpc, global, ioStopped, cmdVars, picRunning, connected,
                   lisPc, acceptVars, histVars>>

PicEnd ==
    /\ picPc = "loop" /\ ~picRunning /\ rpc["pic"] = "none"
    /\ picPc' = "none"
    /\ UNCHANGED <<svcVars, mainPc, rpc, global, ioStopped, cmdVars, picRunning, connected,
                   lisPc, acceptVars, histVars>>

\* waitForHello looks at m_connected before it takes the lock to wait.
WaitForHello ==
    /\ lisPc \in {"check", "unlocked"}
    /\ lisPc' = CASE lisPc = "unlocked" -> "wait"
                  [] lisPc = "check" /\ connected -> "listen"
                  [] lisPc = "check" /\ ~connected -> "unlocked"
    /\ Use("listen", "picard")
    /\ UNCHANGED <<svcVars, mainPc, rpc, global, ioStopped, cmdVars, picVars, acceptVars,
                   resets, trouble>>

asyncListen ==
    /\ lisPc = "listen"
    /\ acceptor' = IF acceptor = "open" THEN "pending" ELSE acceptor
    /\ Use("listen", "listener")
    /\ lisPc' = "none"
    /\ UNCHANGED <<svcVars, mainPc, rpc, global, ioStopped, cmdVars, picVars, staleAccept,
                   clients, accepted, resets, trouble>>

\* m_connect.wait has no predicate.
ListenWakes ==
    /\ lisPc = "wait"
    /\ lisPc' = "listen"
    /\ UNCHANGED <<svcVars, mainPc, rpc, global, ioStopped, cmdVars, picVars, acceptVars,
                   histVars>>

\* A client connects ...
Connect ==
    /\ acceptor = "pending"
    /\ acceptor' = "ready"
    /\ UNCHANGED <<svcVars, mainPc, rpc, global, ioStopped, cmdVars, picVars, lisPc,
                   staleAccept, clients, accepted, histVars>>

\* ... and handleAccept starts it and listens again; the client logs in.
handleAccept ==
    /\ mainPc = "run" /\ ~ioStopped /\ acceptor = "ready"
    /\ acceptor' = "pending" /\ clients' = TRUE /\ accepted' = TRUE
    /\ UNCHANGED <<svcVars, mainPc, rpc, global, ioStopped, cmdVars, picVars, lisPc,
                   staleAccept, histVars>>

\* handleAccept of a listener that was deleted with the turn it belonged to.
handleStaleAccept ==
    /\ mainPc = "run" /\ ~ioStopped /\ staleAccept
    /\ staleAccept' = FALSE /\ accepted' = TRUE
    /\ dangling' = dangling \cup {"io"}
    /\ UNCHANGED <<svcVars, mainPc, rpc, global, ioStopped, cmdVars, picVars, lisPc, acceptor,
                   clients, resets, trouble>>

ThreadStep == CmdStart \/ CmdEnd \/ PicEnd \/ WaitForHello \/ asyncListen
CtlStep == ControlAnswered \/ serial_mux_stop \/ ControlDone

Next ==
    \/ MainStep \/ HandlerThrows \/ ThreadStep \/ CtlStep \/ SpuriousWakeup \/ ListenWakes
    \/ \E t \in Caller : ResetStep(t) \/ CloseThrows(t)
    \/ \E t \in {"cmd", "pic"} : ThreadResets(t)
    \/ \E c \in Controls : Control(c)
    \/ CloseTerminates \/ Hello \/ NotifBlocks \/ ClientReads
    \/ Connect \/ handleAccept \/ handleStaleAccept

\* Every thread goes on; nothing is assumed of the Manager, of clients or of the
\* service control manager.
Fairness ==
    /\ WF_vars(MainStep) /\ WF_vars(CtlStep)
    /\ WF_vars((CmdStart \/ CmdEnd)) /\ WF_vars(PicEnd)
    /\ WF_vars((WaitForHello \/ asyncListen))
    /\ \A t \in Caller : WF_vars(ResetStep(t))

Spec == Init /\ [][Next]_vars /\ Fairness

-----------------------------------------------------------------------------
(* Properties *)

\* Components are deleted only when the threads that use them are joined: of all
\* threads only the control handler and queued handlers of io_service can meet a
\* deleted component.
ThreadsJoinedFirst == dangling \subseteq {"ctl", "io"}

\* A turn of serial_mux_loop begins with the threads and components of the turn
\* before it gone, also when the turn was ended from several threads at once.  (A
\* service revived after it failed is the exception, and is not followed.)
TurnsDoNotOverlap ==
    mainPc \in {"reset", "open"} =>
        /\ cmdPc = "none" /\ picPc = "none" /\ lisPc = "none"
        /\ rpc["cmd"] = "none" /\ rpc["pic"] = "none"
        /\ \A c \in Component : global[c] = "null"

\* "wait for the mux loop to complete before returning": unless the wait was ended
\* by nobody, the listener could not be bound, or a handler threw out of the loop, the
\* service is reported as stopped only when the loop is over for good.
StoppedAfterLoop ==
    svc = "STOPPED" /\ trouble \cap {"spurious", "bind", "thrown"} = {} =>
        /\ mainPc \in {"service", "loop", "returned"} /\ ~muxRunning
        /\ \A c \in Component : global[c] = "null"

\* A stop completes: serial_mux_stop ends the turn, the loop and its own wait, also
\* when the loop ends before it waits.  The exceptions are named in trouble: the
\* stop came before the listen thread waits ("early") or before io_service.reset()
\* ("undone"), commandLoop set m_isRunning after the stop ("restarted"), a client
\* could not be closed ("throw") or does not read ("blocked"), the service failed
\* ("bind"), a handler threw out of io_service.run ("thrown"), or a component that
\* was being deleted was used.
StopCompletes ==
    ctlPc = "stop" ~> ctlPc = "idle" \/ trouble # {} \/ dangling # {}

-----------------------------------------------------------------------------
(* Statements of the repository that the code does not keep *)

\* "allow an external stop command" (serial_mux.cpp:127): every stop ends the loop,
\* if no client is in the way, no handler throws and the listener's port is free.
StopCommandHeard ==
    ctlPc = "stop" ~> ctlPc = "idle" \/ trouble \cap {"throw", "blocked", "bind", "thrown"} # {}

\* No handler or control ever meets a deleted component.
NothingDangles == dangling = {}

=============================================================================
