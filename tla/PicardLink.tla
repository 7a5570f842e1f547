------------------------------ MODULE PicardLink ------------------------------
(***************************************************************************)
(* The link to the Manager ("Picard"), CBasePicardIO, over one connection  *)
(* epoch: the hello handshake and the choice of a protocol version, the    *)
(* listen thread that waits for it, acknowledged notifications, and the    *)
(* effect of all of these on the sequence numbers.                         *)
(*                                                                         *)
(* Threads: pic (threadMain -> frameComplete), listen (listen_thread), main *)
(* (the tail of serial_mux_loop) and other, whichever thread else calls    *)
(* resetConnection (commandLoop, serial_mux_stop).  Frames that fail the   *)
(* length check of frameComplete have no effect and are left out.          *)
(* Commands appear only as far as they move m_seqNo: see ClientManager.    *)
(***************************************************************************)
EXTENDS Naturals, Sequences

CONSTANTS
    Versions,    \* protocol versions the Manager may have
    Known,       \* KNOWN_API_PROTOCOL_VERSIONS, a sequence
    SeqMod,      \* number of sequence numbers (256: uint8_t)
    LineCap,     \* bound: frames in flight, both directions together
    MaxNotif,    \* bound: notifications the Manager has to send
    MaxCmds,     \* bound: commands sent
    MaxLost,     \* bound: frames the line loses
    MaxBoots     \* bound: restarts of the Manager

Seqs == 0 .. SeqMod - 1

\* uint8_t arithmetic
NextSeq(s) == (s + 1) % SeqMod
Notifs == 1 .. MaxNotif

ASSUME VersionAssumption == 0 \notin Versions /\ Known # <<>> /\ Known \in Seq(Nat \ {0})

ASSUME BoundAssumption ==
    /\ SeqMod \in Nat /\ SeqMod > 1
    /\ LineCap \in Nat /\ MaxNotif \in Nat /\ MaxCmds \in Nat
    /\ MaxLost \in Nat /\ MaxBoots \in Nat

VARIABLES
    connected,   \* m_connected
    version,     \* m_protocolVersion (0: not known yet)
    seqNo,       \* m_seqNo
    mgrSeqNo,    \* m_mgrSeqNo
    running,     \* m_isRunning
    callback,    \* m_callback is registered
    picPc,       \* where threadMain is
    hand,        \* the notification frameComplete has in hand
    lisPc,       \* where listen_thread is
    lisVersion,  \* protocol version of the listener
    spurious,    \* the wait of listen_thread has ended without a notification
    reset,       \* where pic and other are in resetConnection
    ioStopped,   \* io_service has been stopped
    mainPc,      \* where the tail of serial_mux_loop is
    delivered,   \* notifications handed to handleNotif, in order
    cmds,        \* commands sent so far
    toMgr,       \* frames on their way to the Manager
    fromMgr,     \* frames on their way back
    mgrVersion,  \* the version the Manager speaks
    mgrUp,       \* the Manager has accepted a hello
    mgrNotif,    \* the Manager's current notification
    mgrLastSeq,  \* sequence number of its last notification
    mgrWait,     \* the Manager waits for the ack of its current notification
    acked,       \* reliable notifications the Manager got an ack for
    lost,        \* frames lost so far
    boots        \* restarts of the Manager so far

linkVars == <<connected, version, seqNo, mgrSeqNo>>
lisVars  == <<lisPc, lisVersion, spurious>>
stopVars == <<running, callback, picPc, reset, ioStopped, mainPc>>
mgrVars  == <<mgrVersion, mgrUp, mgrNotif, mgrLastSeq, mgrWait, acked, boots>>
notifVars == <<hand, delivered>>
lineVars == <<toMgr, fromMgr, lost>>

vars == <<linkVars, lisVars, stopVars, notifVars, cmds, lineVars, mgrVars>>

-----------------------------------------------------------------------------
(* pic: threadMain *)

\* A frame that answers no other is sent only if the line has room for it.
Room == Len(toMgr) + Len(fromMgr) < LineCap

Reading == picPc = "read" /\ reset["pic"] = "none"

\* The frames of each kind.
Hello(v, s)            == [kind |-> "hello", version |-> v, seq |-> s]
Ack(s)                 == [kind |-> "ack", seq |-> s]
Cmd(s)                 == [kind |-> "cmd", seq |-> s]
HelloRsp(ok, v, ms, cs) == [kind |-> "helloRsp", ok |-> ok, version |-> v,
                            mgrSeq |-> ms, cliSeq |-> cs]
MgrHello(v)            == [kind |-> "mgrHello", version |-> v]
Rsp(s)                 == [kind |-> "rsp", seq |-> s]
Notify(s, n, reliable) == [kind |-> "notif", seq |-> s, n |-> n, reliable |-> reliable]

\* hand, if there is none.
NoNotif == [kind |-> "none"]

RequestedAlwaysFirst == Known[1]

\* The Manager's version if it told us one we know, the preferred one otherwise.
RequestedVersion == IF version = 0 THEN Known[1] ELSE version

\* checkProtocol
CheckProtocol(v) == \E i \in DOMAIN Known : Known[i] = v

RecordedNever(v) == version

\* The version is recorded if known, with any success code.
Recorded(v) == IF CheckProtocol(v) THEN v ELSE version

SendHelloCounts ==
    /\ Reading /\ running /\ ~connected /\ Room
    /\ toMgr' = Append(toMgr, Hello(RequestedVersion, seqNo))
    /\ seqNo' = NextSeq(seqNo)
    /\ UNCHANGED <<connected, version, mgrSeqNo, lisVars, stopVars, notifVars, cmds,
                   fromMgr, lost, mgrVars>>

\* Not connected and PICARD_HELLO_INTERVAL is over.
SendHello ==
    /\ Reading /\ running /\ ~connected /\ Room
    /\ toMgr' = Append(toMgr, Hello(RequestedVersion, seqNo))
    /\ UNCHANGED <<linkVars, lisVars, stopVars, notifVars, cmds, fromMgr, lost, mgrVars>>

\* read hands the next frame to frameComplete.
Receives(kind) ==
    /\ Reading /\ fromMgr # <<>> /\ Head(fromMgr).kind = kind
    /\ fromMgr' = Tail(fromMgr)
    /\ UNCHANGED lost

\* notify_all on m_connect: a listen thread that is not waiting yet misses it.
NotifyConnect == lisPc' = IF lisPc = "waiting" THEN "woken" ELSE lisPc

RecvHelloRsp ==
    /\ Receives("helloRsp")
    /\ LET f == Head(fromMgr) IN
       /\ version' = Recorded(f.version)
       /\ IF f.ok
          THEN /\ mgrSeqNo' = f.mgrSeq
               /\ seqNo' = NextSeq(f.cliSeq)
               /\ connected' = TRUE
               /\ IF connected THEN UNCHANGED lisPc ELSE NotifyConnect
          ELSE UNCHANGED <<mgrSeqNo, seqNo, connected, lisPc>>
    /\ UNCHANGED <<lisVersion, spurious, stopVars, notifVars, cmds, toMgr, mgrVars>>

\* MGR_HELLO on a connected link: the Manager restarted, so resetConnection,
\* whose first act is gPicardIO->reset().
RecvMgrHello ==
    /\ Receives("mgrHello")
    /\ version' = Recorded(Head(fromMgr).version)
    /\ IF connected
       THEN reset' = [reset EXCEPT !["pic"] = "stop"] /\ NotifyConnect
       ELSE UNCHANGED <<reset, lisPc>>
    /\ UNCHANGED <<connected, seqNo, mgrSeqNo, lisVersion, spurious, running, callback, picPc,
                   ioStopped, mainPc, notifVars, cmds, toMgr, mgrVars>>

AckedSeqLast(s) == s

\* sendAck sets m_mgrSeqNo to the next number expected.
AckedSeq(s) == NextSeq(s)

\* A notification: frameComplete acknowledges it first if it is reliable ...
RecvNotif ==
    /\ Receives("notif")
    /\ LET f == Head(fromMgr) IN
       /\ IF f.reliable
          THEN toMgr' = Append(toMgr, Ack(f.seq)) /\ mgrSeqNo' = AckedSeq(f.seq)
          ELSE UNCHANGED <<toMgr, mgrSeqNo>>
       /\ hand' = f
    /\ picPc' = "notif"
    /\ UNCHANGED <<connected, version, seqNo, lisVars, running, callback, reset, ioStopped,
                   mainPc, delivered, cmds, mgrVars>>

\* ... then hands it on, unless it is a reliable one whose number is m_mgrSeqNo by
\* now or m_callback has gone meanwhile, and remembers its number.
HandOn ==
    /\ picPc = "notif"
    /\ delivered' = IF callback /\ (~hand.reliable \/ mgrSeqNo # hand.seq)
                    THEN Append(delivered, hand.n) ELSE delivered
    /\ mgrSeqNo' = hand.seq
    /\ hand' = NoNotif
    /\ picPc' = "read"
    /\ UNCHANGED <<connected, version, seqNo, lisVars, running, callback, reset, ioStopped,
                   mainPc, cmds, lineVars, mgrVars>>

\* A command response moves m_seqNo; what commandComplete does with it is in
\* ClientManager.
RecvRsp ==
    /\ Receives("rsp")
    /\ seqNo' = NextSeq(Head(fromMgr).seq)
    /\ UNCHANGED <<connected, version, mgrSeqNo, lisVars, stopVars, notifVars, cmds,
                   toMgr, mgrVars>>

PicExit ==
    /\ Reading /\ ~running
    /\ picPc' = "done"
    /\ UNCHANGED <<linkVars, lisVars, running, callback, reset, ioStopped, mainPc,
                   notifVars, cmds, lineVars, mgrVars>>

-----------------------------------------------------------------------------
(* listen_thread *)

NoWait == TRUE

\* waitForHello does not wait on a link that is connected.
HelloSeen == connected

\* waitForHello looks at m_connected before it takes m_connectMutex ...
WaitCheck ==
    /\ lisPc = "check"
    /\ lisPc' = IF HelloSeen THEN "woken" ELSE "wait"
    /\ UNCHANGED <<linkVars, lisVersion, spurious, stopVars, notifVars, cmds, lineVars, mgrVars>>

\* ... and waits without looking again.
WaitBegin ==
    /\ lisPc = "wait"
    /\ lisPc' = "waiting"
    /\ UNCHANGED <<linkVars, lisVersion, spurious, stopVars, notifVars, cmds, lineVars, mgrVars>>

\* The wait has no predicate: it may end though nobody has notified m_connect.
SpuriousWake ==
    /\ lisPc = "waiting"
    /\ lisPc' = "woken"
    /\ spurious' = TRUE
    /\ UNCHANGED <<linkVars, lisVersion, stopVars, notifVars, cmds, lineVars, mgrVars>>

\* The result of waitForHello is ignored: take the version, start to accept.
Listen ==
    /\ lisPc = "woken"
    /\ lisPc' = "listening"
    /\ lisVersion' = version
    /\ UNCHANGED <<linkVars, spurious, stopVars, notifVars, cmds, lineVars, mgrVars>>

-----------------------------------------------------------------------------
(* commands, resets and teardown *)

\* commandLoop sends a command once clients can connect.
SendCommand ==
    /\ lisPc = "listening" /\ connected /\ mainPc = "run"
    /\ cmds < MaxCmds /\ Room
    /\ toMgr' = Append(toMgr, Cmd(seqNo))
    /\ cmds' = cmds + 1
    /\ UNCHANGED <<linkVars, lisVars, stopVars, notifVars, fromMgr, lost, mgrVars>>

\* Another thread calls resetConnection: gPicardIO->reset() ...
ResetNotify ==
    /\ mainPc = "run" /\ ~ioStopped /\ reset["other"] = "none"
    /\ reset' = [reset EXCEPT !["other"] = "stop"]
    /\ NotifyConnect
    /\ UNCHANGED <<linkVars, lisVersion, spurious, running, callback, picPc, ioStopped, mainPc,
                   notifVars, cmds, lineVars, mgrVars>>

\* ... gPicardIO->stop(), and at the end io_service.stop().
ResetStop(t) ==
    /\ reset[t] = "stop"
    /\ reset' = [reset EXCEPT ![t] = "none"]
    /\ running' = FALSE
    /\ ioStopped' = TRUE
    /\ UNCHANGED <<linkVars, lisVars, callback, picPc, mainPc, notifVars, cmds,
                   lineVars, mgrVars>>

\* io_service.run has returned: no more callbacks.
MainStop ==
    /\ mainPc = "run" /\ ioStopped
    /\ mainPc' = "joinlisten"
    /\ callback' = FALSE
    /\ UNCHANGED <<linkVars, lisVars, running, picPc, reset, ioStopped, notifVars,
                   cmds, lineVars, mgrVars>>

\* listenThread.join(), gPicardIO->stop()
MainJoinListen ==
    /\ mainPc = "joinlisten" /\ lisPc = "listening"
    /\ mainPc' = "joinpic"
    /\ running' = FALSE
    /\ UNCHANGED <<linkVars, lisVars, callback, picPc, reset, ioStopped, notifVars,
                   cmds, lineVars, mgrVars>>

\* picardThread.join()
MainJoinPic ==
    /\ mainPc = "joinpic" /\ picPc = "done"
    /\ mainPc' = "joined"
    /\ UNCHANGED <<linkVars, lisVars, running, callback, picPc, reset, ioStopped,
                   notifVars, cmds, lineVars, mgrVars>>

-----------------------------------------------------------------------------
(* External: the Manager and the serial line *)

\* The Manager takes the next frame.  A hello with its version is accepted and
\* answered with its last notification number; any other hello is refused with
\* its version.  A command is answered under its number.
MgrTake ==
    /\ toMgr # <<>>
    /\ toMgr' = Tail(toMgr)
    /\ LET f == Head(toMgr) IN
       \/ /\ f.kind = "hello"
          /\ fromMgr' = Append(fromMgr, HelloRsp(f.version = mgrVersion, mgrVersion,
                                                 mgrLastSeq, f.seq))
          /\ mgrUp' = (mgrUp \/ f.version = mgrVersion)
          /\ UNCHANGED <<mgrWait, acked>>
       \/ /\ f.kind = "cmd"
          /\ fromMgr' = Append(fromMgr, Rsp(f.seq))
          /\ UNCHANGED <<mgrUp, mgrWait, acked>>
       \/ /\ f.kind = "ack"
          /\ IF mgrWait /\ f.seq = mgrLastSeq
             THEN acked' = acked \cup {mgrNotif} /\ mgrWait' = FALSE
             ELSE UNCHANGED <<mgrWait, acked>>
          /\ UNCHANGED <<fromMgr, mgrUp>>
    /\ UNCHANGED <<linkVars, lisVars, stopVars, notifVars, cmds, lost, mgrVersion,
                   mgrNotif, mgrLastSeq, boots>>

\* The next notification, once no ack is waited for.
MgrNotify(reliable) ==
    /\ mgrUp /\ ~mgrWait /\ mgrNotif < MaxNotif /\ Room
    /\ mgrNotif' = mgrNotif + 1
    /\ mgrLastSeq' = NextSeq(mgrLastSeq)
    /\ mgrWait' = reliable
    /\ fromMgr' = Append(fromMgr, Notify(NextSeq(mgrLastSeq), mgrNotif + 1, reliable))
    /\ UNCHANGED <<linkVars, lisVars, stopVars, notifVars, cmds, toMgr, lost,
                   mgrVersion, mgrUp, acked, boots>>

\* No ack in time: the same notification again.
MgrRepeat ==
    /\ mgrUp /\ mgrWait /\ Room
    /\ fromMgr' = Append(fromMgr, Notify(mgrLastSeq, mgrNotif, TRUE))
    /\ UNCHANGED <<linkVars, lisVars, stopVars, notifVars, cmds, toMgr, lost, mgrVars>>

\* The Manager restarts and says so; a notification without an ack is forgotten.
MgrBoot ==
    /\ boots < MaxBoots /\ Room
    /\ boots' = boots + 1
    /\ mgrUp' = FALSE /\ mgrWait' = FALSE
    /\ fromMgr' = Append(fromMgr, MgrHello(mgrVersion))
    /\ UNCHANGED <<linkVars, lisVars, stopVars, notifVars, cmds, toMgr, lost,
                   mgrVersion, mgrNotif, mgrLastSeq, acked>>

\* The next frame in either direction is lost.
Lose ==
    /\ lost < MaxLost
    /\ lost' = lost + 1
    /\ \/ toMgr # <<>> /\ toMgr' = Tail(toMgr) /\ UNCHANGED fromMgr
       \/ fromMgr # <<>> /\ fromMgr' = Tail(fromMgr) /\ UNCHANGED toMgr
    /\ UNCHANGED <<linkVars, lisVars, stopVars, notifVars, cmds, mgrVars>>

-----------------------------------------------------------------------------
ResetThreads == {"pic", "other"}

Init ==
    /\ connected = FALSE /\ version = 0 /\ seqNo = 0 /\ mgrSeqNo = 0
    /\ running = TRUE /\ callback = TRUE /\ picPc = "read"
    /\ lisPc = "check" /\ lisVersion = 0 /\ spurious = FALSE
    /\ reset = [t \in ResetThreads |-> "none"] /\ ioStopped = FALSE /\ mainPc = "run"
    /\ hand = NoNotif /\ delivered = <<>> /\ cmds = 0
    /\ toMgr = <<>> /\ fromMgr = <<>> /\ lost = 0
    /\ mgrVersion \in Versions /\ mgrUp = FALSE /\ mgrNotif = 0 /\ mgrLastSeq \in Seqs
    /\ mgrWait = FALSE /\ acked = {} /\ boots = 0

FrameComplete == RecvHelloRsp \/ RecvMgrHello \/ RecvNotif \/ HandOn \/ RecvRsp
ListenStep == WaitCheck \/ WaitBegin \/ Listen
MainStep == MainStop \/ MainJoinListen \/ MainJoinPic

MgrStep == \/ MgrTake \/ MgrRepeat \/ MgrBoot
           \/ \E reliable \in BOOLEAN : MgrNotify(reliable)

\* The epoch is over: serial_mux_loop deletes the components.
Terminated == mainPc = "joined" /\ UNCHANGED vars

Next == \/ SendHello \/ FrameComplete \/ PicExit \/ ListenStep \/ SpuriousWake
        \/ MainStep \/ SendCommand \/ ResetNotify \/ \E t \in ResetThreads : ResetStop(t)
        \/ MgrStep \/ Lose \/ Terminated

Spec == Init /\ [][Next]_vars

\* The threads of the mux keep running.  A hello is due again and again as long
\* as the link is not connected, whatever the line is doing.
ThreadFairness ==
    /\ SF_vars(SendHello) /\ WF_vars(FrameComplete) /\ WF_vars(PicExit)
    /\ WF_vars(ListenStep) /\ WF_vars(MainStep)
    /\ \A t \in ResetThreads : WF_vars(ResetStop(t))

FairSpec == Spec /\ ThreadFairness

\* The environment EventuallyConnected needs: a Manager that reads its line.
FairManagerSpec == FairSpec /\ WF_vars(MgrTake)

-----------------------------------------------------------------------------
(* Properties *)

IsDelivered(n) == \E i \in DOMAIN delivered : delivered[i] = n

\* frameComplete has acknowledged it, if need be, and not handed it on yet.
InHand(n) == picPc = "notif" /\ hand.n = n

\* As long as m_callback is registered, a reliable notification the Manager stops
\* repeating has been handed to the clients or is the one in the hands of pic: the
\* ack is sent before the callback, and whether the callback is made depends on a
\* sequence number the ack itself has just moved (BasePicard.cpp:113, 241-256).
\* Notifications are never handed on out of order.  An epoch that ends between the
\* two, with the callback gone, loses a notification the Manager has crossed off.
AckedDelivered ==
    /\ callback => \A n \in acked : IsDelivered(n) \/ InHand(n)
    /\ \A i, j \in DOMAIN delivered : i < j => delivered[i] <= delivered[j]

\* The mux and the Manager agree on the version once connected, whatever hello was
\* refused, lost or answered late, and whatever MGR_HELLO came in between.
VersionAgreed == connected => version = mgrVersion

\* The listener serves clients with the Manager's version or, if it was let go
\* before there was one, with none: never with another one.  It is the Manager's
\* unless a reset or a spurious wake-up has ended the wait early ("to assure we get
\* the protocol version from hello response before async listen get started",
\* serial_mux.cpp:108): a notification that is missed only leaves it waiting.
ListensWithVersion ==
    lisPc = "listening" =>
        /\ lisVersion \in {0, mgrVersion}
        /\ ~ioStopped /\ ~spurious /\ (\A t \in ResetThreads : reset[t] = "none")
             => lisVersion = mgrVersion

\* m_seqNo only ever moves to the next number ("increment our sequence number",
\* BasePicard.cpp:211): neither the late answer to a second hello nor the answer to
\* a retransmission takes it back, although both assign it from the frame.
SeqIncrements == [][seqNo' \in {seqNo, NextSeq(seqNo)}]_vars

\* With a Manager that reads its line and speaks a version the mux knows, and a line
\* that loses finitely many frames, the link gets connected although the mux first
\* asks for a version the Manager may not speak.
EventuallyConnected == CheckProtocol(mgrVersion) => <>(connected \/ ioStopped)

-----------------------------------------------------------------------------
(* Statements of the repository that the code does not keep *)

\* "if reliable, filter out duplicates" (BasePicard.cpp:252): a notification is
\* handed on once.
NoDuplicates == \A i, j \in DOMAIN delivered : i # j => delivered[i] # delivered[j]

\* "listen thread is to assure we get the protocol version from hello response
\* before async listen get started" (serial_mux.cpp:108): the listener never
\* starts without a version.
ListensAfterHello == lisPc = "listening" => lisVersion # 0

\* "wait for a connection from Picard" (BasePicard.h:61): once there is one, the
\* wait ends and the mux listens, or is stopped.
HelloEndsWait == connected ~> (lisPc = "listening" \/ ioStopped)

\* "reset anyone waiting for a Picard connection" (BasePicard.cpp:48): a reset ends
\* the wait too, so that the listen thread can be joined.
ResetEndsWait == ioStopped ~> mainPc = "joined"
=============================================================================
