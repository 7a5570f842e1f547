------------------------------- MODULE Logger -------------------------------
(***************************************************************************)
(* CBoostLog: threads put messages on a CSyncQueue, a logging thread takes *)
(* them off and writes them to a file that is rotated when it gets too big *)
(* and whenever the program starts.  The process may end at any point; the *)
(* files stay.                                                             *)
(*                                                                         *)
(* External: the file system, whose operations may fail, and the condition *)
(* variable of CSyncQueue.                                                 *)
(***************************************************************************)
EXTENDS Naturals, Sequences, SequencesExt

CONSTANTS
    Producer,    \* the threads that log
    MaxMsgs,     \* bound: messages logged
    NumBackups,  \* m_numBackups
    MaxLogSize,  \* m_maxLogSize, in messages; 0: no limit
    LevelName,   \* the configured level
    Levels,      \* the levels the threads log at
    Failures,    \* which file operations may fail
    MaxEnds      \* bound: ends of the process

LOG_TRACE == 0
LOG_INFO == 1
LOG_WARNING == 2
LOG_ERROR == 3
LOG_ALWAYS == 5

ASSUME LogBounds ==
    /\ MaxMsgs \in Nat /\ NumBackups \in Nat /\ MaxLogSize \in Nat /\ MaxEnds \in Nat
    /\ Levels \subseteq LOG_TRACE .. LOG_ALWAYS
    /\ Failures \subseteq {"remove", "rename", "open"}
    /\ "main" \notin Producer /\ "free" \notin Producer

Message == 1 .. MaxMsgs
Note    == 0

VARIABLES
    queue,       \* m_msgQueue: the messages, by the order of their acceptance
    waiter,      \* m_cond of the queue: "none", "waiting" or "notified"
    lock,        \* m_lock
    accepted,    \* the messages that logMsg has taken, and stamped, so far
    logging,     \* a thread in logMsg: the level and the number of its message
    isRunning,   \* m_isRunning
    mainPc,      \* openLog, start and stop
    logPc,       \* logFromQueue and writeMsg
    msg,         \* local msg
    rotateOk,    \* local rotateOk
    rot,         \* rotateLogs: the number i and the next operation
    files,       \* the existing files, by number; 0 is the log
    m_log,       \* "null", "open", or "bad": a stream that could not be opened
    ends,        \* ends of the process so far
    dueAtStop,   \* history: queued when stop() was called
    written,     \* history: messages put in the file
    unopened     \* history: the file could not be opened in this process

queueVars == <<queue, waiter>>
prodVars  == <<lock, accepted, logging>>
logVars   == <<logPc, msg, rotateOk>>
fileVars  == <<rot, files, m_log>>
histVars  == <<ends, dueAtStop, written, unopened>>
vars == <<queueVars, prodVars, isRunning, mainPc, logVars, fileVars, histVars>>

Idle == [level |-> LOG_TRACE, number |-> 0]

NoProcess ==
    /\ queue = <<>> /\ waiter = "none" /\ lock = "free"
    /\ logging = [p \in Producer |-> Idle]
    /\ isRunning = FALSE /\ mainPc = "init" /\ logPc = "none" /\ msg = 0
    /\ rotateOk = TRUE /\ rot = [i |-> 0, op |-> "remove"] /\ m_log = "null"
    /\ dueAtStop = {} /\ unopened = FALSE

Init ==
    /\ NoProcess
    /\ accepted = 0 /\ ends = 0 /\ written = {}
    /\ files = <<>>

-----------------------------------------------------------------------------
(* The configured level and the severity filter *)

stringToEnum(name) ==
    CASE name = "trace"   -> LOG_TRACE
      [] name = "info"    -> LOG_INFO
      [] name = "warning" -> LOG_WARNING
      [] OTHER            -> LOG_ERROR

Passes(level) == level >= stringToEnum(LevelName) \/ level = LOG_ALWAYS

-----------------------------------------------------------------------------
(* logMsg, in any thread *)

\* Mutant: m_lock is not taken.
LogMsgUnlocked(p) ==
    /\ mainPc \in {"running", "join", "stopped"}
    /\ accepted < MaxMsgs /\ accepted' = accepted + 1
    /\ \E l \in Levels : logging' = [logging EXCEPT ![p] = [level |-> l, number |-> accepted']]
    /\ UNCHANGED <<queueVars, lock, isRunning, mainPc, logVars, fileVars, histVars>>

\* The thread takes m_lock and then the time.  The message is numbered in the order of
\* the lock; what local_time() says, which may step back, is only written into its line.
LogMsg(p) ==
    /\ mainPc \in {"running", "join", "stopped"}
    /\ lock = "free" /\ accepted < MaxMsgs
    /\ lock' = p /\ accepted' = accepted + 1
    /\ \E l \in Levels : logging' = [logging EXCEPT ![p] = [level |-> l, number |-> accepted']]
    /\ UNCHANGED <<queueVars, isRunning, mainPc, logVars, fileVars, histVars>>

\* Mutant: a push that notifies nobody.
pushSilently(m) == queue' = Append(queue, m) /\ UNCHANGED waiter

\* CSyncQueue::push notifies only if the queue was empty.
push(m) ==
    /\ queue' = Append(queue, m)
    /\ waiter' = IF queue = <<>> /\ waiter = "waiting" THEN "notified" ELSE waiter

EndLogMsg(p) ==
    /\ logging[p].number # 0
    /\ IF Passes(logging[p].level) THEN push(logging[p].number) ELSE UNCHANGED queueVars
    /\ logging' = [logging EXCEPT ![p] = Idle]
    /\ lock' = "free"
    /\ UNCHANGED <<accepted, isRunning, mainPc, logVars, fileVars, histVars>>

-----------------------------------------------------------------------------
(* Files: rotateLogs and openFile, called by openLog and by writeMsg *)

exists(i) == i \in DOMAIN files

Rotating == mainPc = "rotate" \/ logPc = "rotate"

\* Both callers go on to open the file.
Rotated ==
    /\ mainPc' = IF mainPc = "rotate" THEN "open" ELSE mainPc
    /\ logPc' = IF logPc = "rotate" THEN "open" ELSE logPc

\* Ensure that the backup does not exist ...
RemoveBackup ==
    /\ Rotating /\ rot.i > 0 /\ rot.op = "remove"
    /\ files' = Restrict(files, DOMAIN files \ {rot.i})
    /\ rot' = [rot EXCEPT !.op = "rename"]
    /\ UNCHANGED <<queueVars, prodVars, isRunning, mainPc, logVars, m_log, histVars>>

\* ... and move the previous file aside.
RenamePrevious ==
    /\ Rotating /\ rot.i > 0 /\ rot.op = "rename"
    /\ files' = IF exists(rot.i - 1)
                THEN [k \in (DOMAIN files \ {rot.i - 1}) \cup {rot.i} |->
                        IF k = rot.i THEN files[rot.i - 1] ELSE files[k]]
                ELSE files
    /\ rot' = [i |-> rot.i - 1, op |-> "remove"]
    /\ UNCHANGED <<queueVars, prodVars, isRunning, mainPc, logVars, m_log, histVars>>

\* An operation throws: the loop is left, the result is false.  openLog does not
\* look at it.
RotateFails ==
    /\ Rotating /\ rot.i > 0 /\ rot.op \in Failures
    /\ exists(IF rot.op = "remove" THEN rot.i ELSE rot.i - 1)
    /\ rotateOk' = (logPc # "rotate")
    /\ Rotated
    /\ UNCHANGED <<queueVars, prodVars, isRunning, msg, fileVars, histVars>>

RotateDone ==
    /\ Rotating /\ rot.i = 0
    /\ Rotated
    /\ UNCHANGED <<queueVars, prodVars, isRunning, msg, rotateOk, fileVars, histVars>>

StartRotation == rot' = [i |-> NumBackups, op |-> "remove"]

\* Mutant: the mode is ignored, the file is always created anew.
openFileAnew(append) ==
    /\ files' = [k \in DOMAIN files \cup {0} |-> IF k = 0 THEN <<>> ELSE files[k]]
    /\ m_log' = "open" /\ UNCHANGED unopened

\* An ofstream that cannot be opened throws nothing.
openFile(append) ==
    \/ /\ files' = IF append /\ exists(0) THEN files
                   ELSE [k \in DOMAIN files \cup {0} |-> IF k = 0 THEN <<>> ELSE files[k]]
       /\ m_log' = "open" /\ UNCHANGED unopened
    \/ /\ "open" \in Failures
       /\ m_log' = "bad" /\ unopened' = TRUE /\ UNCHANGED files

-----------------------------------------------------------------------------
(* The main thread: openLog, start, stop *)

OpenLog ==
    /\ mainPc = "init" /\ lock = "free"
    /\ lock' = "main" /\ m_log' = "null"
    /\ StartRotation
    /\ mainPc' = "rotate"
    /\ UNCHANGED <<queueVars, accepted, logging, isRunning, logVars, files, histVars>>

OpenForAppending ==
    /\ mainPc = "open"
    /\ openFile(TRUE)
    /\ lock' = "free" /\ mainPc' = "start"
    /\ UNCHANGED <<queueVars, accepted, logging, isRunning, logVars, rot, ends, dueAtStop, written>>

start ==
    /\ mainPc \in {"start", "stopped"} /\ ~isRunning
    /\ isRunning' = TRUE /\ logPc' = "test" /\ mainPc' = "running"
    /\ UNCHANGED <<queueVars, prodVars, msg, rotateOk, fileVars, histVars>>

stop ==
    /\ mainPc = "running"
    /\ isRunning' = FALSE
    /\ dueAtStop' = Range(queue) \cup (IF msg # 0 THEN {msg} ELSE {})
    /\ mainPc' = "join"
    /\ UNCHANGED <<queueVars, prodVars, logVars, fileVars, ends, written, unopened>>

Join ==
    /\ mainPc = "join" /\ logPc = "done"
    /\ logPc' = "none" /\ mainPc' = "stopped"
    /\ UNCHANGED <<queueVars, prodVars, isRunning, msg, rotateOk, fileVars, histVars>>

-----------------------------------------------------------------------------
(* The logging thread: logFromQueue *)

TestRunning ==
    /\ logPc = "test" /\ isRunning
    /\ logPc' = "pop"
    /\ UNCHANGED <<queueVars, prodVars, isRunning, mainPc, msg, rotateOk, fileVars, histVars>>

\* timedPop waits for a message, once.
Wait ==
    /\ logPc = "pop" /\ queue = <<>> /\ waiter = "none"
    /\ waiter' = "waiting"
    /\ UNCHANGED <<queue, prodVars, isRunning, mainPc, logVars, fileVars, histVars>>

Timeout ==
    /\ waiter = "waiting"
    /\ waiter' = "notified"
    /\ UNCHANGED <<queue, prodVars, isRunning, mainPc, logVars, fileVars, histVars>>

\* Mutant: timedPop waits until there is a message.
PopWaitsOn ==
    /\ logPc = "pop" /\ waiter = "notified" /\ queue = <<>>
    /\ waiter' = "none"
    /\ UNCHANGED <<queue, prodVars, isRunning, mainPc, logVars, fileVars, histVars>>

PopNothing ==
    /\ logPc = "pop" /\ waiter = "notified" /\ queue = <<>>
    /\ waiter' = "none" /\ logPc' = "test"
    /\ UNCHANGED <<queue, prodVars, isRunning, mainPc, msg, rotateOk, fileVars, histVars>>

\* The head of the queue is taken: by timedPop of the loop, or by the loop that
\* empties the queue once m_isRunning is false.
Pop ==
    /\ queue # <<>>
    /\ \/ logPc = "pop" /\ waiter \in {"none", "notified"}
       \/ logPc = "test" /\ ~isRunning
    /\ msg' = Head(queue) /\ queue' = Tail(queue) /\ waiter' = "none"
    /\ logPc' = "size" /\ rotateOk' = TRUE
    /\ UNCHANGED <<prodVars, isRunning, mainPc, fileVars, histVars>>

\* Mutant: the logging thread ends with m_isRunning.
QuitAtOnce ==
    /\ logPc = "test" /\ ~isRunning
    /\ logPc' = "done"
    /\ UNCHANGED <<queueVars, prodVars, isRunning, mainPc, msg, rotateOk, fileVars, histVars>>

Quit ==
    /\ logPc = "test" /\ ~isRunning /\ queue = <<>>
    /\ logPc' = "done"
    /\ UNCHANGED <<queueVars, prodVars, isRunning, mainPc, msg, rotateOk, fileVars, histVars>>

-----------------------------------------------------------------------------
(* The logging thread: writeMsg *)

\* Mutant: the limit is off by one.
TooBigLate == MaxLogSize > 0 /\ Len(files[0]) > MaxLogSize + 1

\* The file is too big, or not.
TooBig == MaxLogSize > 0 /\ Len(files[0]) > MaxLogSize

FileSize ==
    /\ logPc = "size" /\ (MaxLogSize > 0 => exists(0))
    /\ IF TooBig
       THEN logPc' = "rotate" /\ m_log' = "null" /\ StartRotation
       ELSE logPc' = "append" /\ UNCHANGED <<m_log, rot>>
    /\ UNCHANGED <<queueVars, prodVars, isRunning, mainPc, msg, rotateOk, files, histVars>>

OpenNew ==
    /\ logPc = "open"
    /\ openFile(FALSE)
    /\ logPc' = "append"
    /\ UNCHANGED <<queueVars, prodVars, isRunning, mainPc, msg, rotateOk, rot, ends,
                   dueAtStop, written>>

WriteNote ==
    /\ logPc = "append" /\ m_log = "open" /\ ~rotateOk
    /\ files' = [files EXCEPT ![0] = Append(@, Note)]
    /\ rotateOk' = TRUE
    /\ UNCHANGED <<queueVars, prodVars, isRunning, mainPc, logPc, msg, rot, m_log, histVars>>

\* Every line is flushed.  A bad stream takes nothing.
WriteLine ==
    /\ logPc = "append"
    /\ \/ /\ m_log = "open" /\ rotateOk
          /\ files' = [files EXCEPT ![0] = Append(@, msg)]
          /\ written' = written \cup {msg}
       \/ m_log = "bad" /\ UNCHANGED <<files, written>>
    /\ logPc' = "test" /\ msg' = 0 /\ rotateOk' = TRUE
    /\ UNCHANGED <<queueVars, prodVars, isRunning, mainPc, rot, m_log, ends, dueAtStop, unopened>>

-----------------------------------------------------------------------------
\* The log of the next process is a new object.
NewProcess ==
    /\ queue' = <<>> /\ waiter' = "none" /\ lock' = "free"
    /\ logging' = [p \in Producer |-> Idle]
    /\ isRunning' = FALSE /\ mainPc' = "init" /\ logPc' = "none" /\ msg' = 0
    /\ rotateOk' = TRUE /\ rot' = [i |-> 0, op |-> "remove"] /\ m_log' = "null"
    /\ dueAtStop' = {} /\ unopened' = FALSE

\* The process is killed or exits; the next one starts with openLog.
ProcessEnds ==
    /\ mainPc # "init" /\ ends < MaxEnds
    /\ ends' = ends + 1
    /\ NewProcess
    /\ UNCHANGED <<accepted, files, written>>

\* file_size of a file that could not be opened throws in the logging thread,
\* which ends the process.
FileSizeThrows ==
    /\ logPc = "size" /\ MaxLogSize > 0 /\ ~exists(0)
    /\ NewProcess
    /\ UNCHANGED <<accepted, files, written, ends>>

LoggerStep ==
    \/ TestRunning \/ Wait \/ PopNothing \/ Pop \/ Quit
    \/ FileSize \/ FileSizeThrows \/ OpenNew \/ WriteNote \/ WriteLine

RotateStep == RemoveBackup \/ RenamePrevious \/ RotateFails \/ RotateDone

MainStep == OpenLog \/ OpenForAppending \/ start \/ stop \/ Join

Next ==
    \/ \E p \in Producer : LogMsg(p) \/ EndLogMsg(p)
    \/ RotateStep \/ MainStep \/ LoggerStep \/ Timeout
    \/ ProcessEnds

\* Threads go on: a thread in logMsg, the logging thread and the calls of the
\* main thread.  The timeout of timedPop is needed only to see that m_isRunning
\* was cleared, which notifies nobody.
Fairness ==
    /\ \A p \in Producer : WF_vars(EndLogMsg(p))
    /\ WF_vars(RotateStep) /\ WF_vars(LoggerStep) /\ WF_vars(Join)
    /\ WF_vars(OpenForAppending) /\ WF_vars(mainPc = "start" /\ start)
    /\ WF_vars(~isRunning /\ Timeout)

Spec == Init /\ [][Next]_vars /\ Fairness

-----------------------------------------------------------------------------
(* Properties *)

\* What the files hold, oldest first.
Kept ==
    FlattenSeq([j \in 1 .. NumBackups + 1 |->
        LET i == NumBackups + 1 - j IN IF exists(i) THEN files[i] ELSE <<>>])

Store == INSTANCE LogStore WITH
    pending <- (IF msg # 0 THEN <<msg>> ELSE <<>>) \o queue,
    kept    <- Kept,
    unsaid  <- logPc = "append" /\ ~rotateOk

\* The queue, the logging thread and the rotation of the files together are the
\* log that LogStore promises: through rotations that fail half way and ends of
\* the process between any two file operations, the files lose messages only at
\* their old end, or at their new end with the note of writeMsg in their place.
\* LogStore does not say how much is lost at the old end: see AppendsWithoutBackups.
IsLogStore == Store!Spec

\* m_lock is held from taking the time to the push, so the lines of the files, read from
\* the oldest backup to the log, are in the order in which logMsg accepted and stamped
\* them, through rotations that fail and restarts.
LinesInOrder ==
    \A a, b \in DOMAIN files : \A j \in DOMAIN files[a], k \in DOMAIN files[b] :
        (a > b \/ (a = b /\ j < k)) /\ files[a][j] # Note /\ files[b][k] # Note
            => files[a][j] < files[b][k]

\* rotateLogs and the size check of writeMsg: no file grows past the limit by
\* more than the line that took it there (a truncated file begins with the note).
DiskBound ==
    MaxLogSize > 0 => \A i \in DOMAIN files : Len(files[i]) <= MaxLogSize + 1

\* stop() waits for the queue: once it has returned, what was queued when it was
\* called was written to the file, unless the file could not be opened.
StopFlushes ==
    mainPc = "stopped" /\ ~unopened => dueAtStop \subseteq written

\* While the log runs, messages in the queue get written without waiting for the
\* timeout of timedPop: the push that finds the queue empty wakes the logging
\* thread, and the others need not.
QueueIsServed ==
    queue # <<>> ~> msg # 0 \/ ~isRunning \/ mainPc = "init"

\* stop() returns: the logging thread sees m_isRunning at the latest when timedPop
\* times out, and empties the queue.  MaxMsgs bounds the threads that log meanwhile: as
\* long as they keep up with the writing, the loop that empties the queue goes on.
StopReturns == mainPc = "join" ~> mainPc # "join"

\* Comment at BoostLog.cpp:186: without backups there is no rotation and the log
\* is appended to.
AppendsWithoutBackups == NumBackups = 0 => written \subseteq Range(Kept)

=============================================================================
