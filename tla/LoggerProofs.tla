---------------------------- MODULE LoggerProofs ----------------------------
(***************************************************************************)
(* Proofs about Logger, for every number of threads, messages, backups and *)
(* ends of the process, every limit and level, and whatever may fail.      *)
(***************************************************************************)
EXTENDS Logger, SequenceTheorems, WellFoundedInduction, TLAPS

MainPcs == {"init", "rotate", "open", "start", "running", "join", "stopped"}
LogPcs  == {"none", "test", "pop", "size", "rotate", "open", "append", "done"}
Line    == 0 .. MaxMsgs

LogType ==
    /\ mainPc \in MainPcs /\ logPc \in LogPcs
    /\ queue \in Seq(Message) /\ msg \in Line /\ accepted \in Line
    /\ logging \in [Producer -> [level : LOG_TRACE .. LOG_ALWAYS, number : Line]]
    /\ rot \in [i : 0 .. NumBackups, op : {"remove", "rename"}]
    /\ files \in [DOMAIN files -> Seq(Line)] /\ DOMAIN files \subseteq 0 .. NumBackups

\* The logging thread runs between start() and the join of stop(), and holds a
\* message between the pop and the end of writeMsg.
Threads ==
    /\ logPc = "none" <=> mainPc \in {"init", "rotate", "open", "start", "stopped"}
    /\ mainPc = "running" <=> isRunning
    /\ logPc = "done" => ~isRunning
    /\ msg # 0 <=> logPc \in {"size", "rotate", "open", "append"}

\* The stream and the file it writes to.
Stream ==
    /\ m_log = "open" => exists(0)
    /\ Rotating \/ mainPc = "open" \/ logPc = "open" => m_log = "null"
    /\ m_log = "bad" => unopened

\* Whether the log has room for the note and the message.
HasRoom ==
    /\ logPc = "size" => rotateOk
    /\ logPc = "append" /\ m_log = "open" =>
          /\ MaxLogSize > 0 => Len(files[0]) <= MaxLogSize
          /\ ~rotateOk => Len(files[0]) = 0

\* What stop() waits for has been written, or still will be.
Due ==
    ~unopened =>
        /\ mainPc = "join" => \A m \in dueAtStop : m \in written \/ m \in Range(queue) \/ (m = msg /\ m # 0)
        /\ mainPc = "stopped" \/ (mainPc = "join" /\ logPc = "done") => dueAtStop \subseteq written

LogInv == LogType /\ Threads /\ Stream /\ HasRoom /\ DiskBound /\ Due

LinesBelow(x) == \A a \in DOMAIN files : \A j \in DOMAIN files[a] : files[a][j] < x

\* Messages pass from the thread that logs through the queue and the logging thread
\* to the files, and are older the further they got.
Ages ==
    /\ mainPc \in {"rotate", "open"} => lock = "main"
    /\ LinesBelow(accepted + 1)
    /\ msg # 0 => msg <= accepted /\ LinesBelow(msg)
    /\ \A j \in DOMAIN queue : queue[j] <= accepted /\ msg < queue[j] /\ LinesBelow(queue[j])
    /\ \A j, k \in DOMAIN queue : j < k => queue[j] < queue[k]
    /\ \A p \in Producer : logging[p].number # 0 =>
          /\ lock = p /\ logging[p].number = accepted
          /\ msg < accepted /\ LinesBelow(accepted) /\ \A j \in DOMAIN queue : queue[j] < accepted

OrderInv == Ages /\ LinesInOrder

-----------------------------------------------------------------------------
(* What a step may do to the files *)

\* Files are removed, moved up or emptied ...
Rearranged ==
    /\ files' \in [DOMAIN files' -> Seq(Line)] /\ DOMAIN files' \subseteq 0 .. NumBackups
    /\ \A a \in DOMAIN files' : files'[a] = <<>> \/ \E c \in DOMAIN files : files'[a] = files[c]
    /\ \A a, b \in DOMAIN files' :
          a > b /\ files'[a] # <<>> /\ files'[b] # <<>> =>
              \E c, d \in DOMAIN files : c > d /\ files'[a] = files[c] /\ files'[b] = files[d]

\* ... or a line is added to the log.
Extended(x) ==
    /\ 0 \in DOMAIN files /\ DOMAIN files' = DOMAIN files
    /\ files' \in [DOMAIN files -> Seq(Line)]
    /\ files'[0] = Append(files[0], x)
    /\ \A a \in DOMAIN files : a # 0 => files'[a] = files[a]

LEMMA ExtendFacts ==
    ASSUME LogType, 0 \in DOMAIN files, NEW x \in Line, files' = [files EXCEPT ![0] = Append(files[0], x)]
    PROVE  Extended(x)
<1>1. files \in [DOMAIN files -> Seq(Line)]
  BY DEF LogType
<1>2. Append(files[0], x) \in Seq(Line)
  BY <1>1
<1> QED BY <1>1, <1>2 DEF Extended

LEMMA FilesStay ==
    ASSUME LogType, UNCHANGED files
    PROVE  Rearranged
<1>1. files \in [DOMAIN files -> Seq(Line)] /\ DOMAIN files \subseteq 0 .. NumBackups
  BY DEF LogType
<1>2. DOMAIN files' = DOMAIN files
  OBVIOUS
<1> QED BY <1>1, <1>2 DEF Rearranged

LEMMA OpenFacts ==
    ASSUME LogType, NEW append, openFile(append)
    PROVE  /\ Rearranged
           /\ \/ m_log' = "open" /\ 0 \in DOMAIN files' /\ UNCHANGED unopened
                  /\ (~append => files'[0] = <<>>)
              \/ m_log' = "bad" /\ unopened'
<1>1. files \in [DOMAIN files -> Seq(Line)] /\ DOMAIN files \subseteq 0 .. NumBackups
  BY DEF LogType
<1>2. CASE files' = files
  <2>1. Rearranged
    BY <1>2, FilesStay
  <2> QED BY <2>1, <1>2 DEF openFile, exists
<1>3. CASE /\ files' = [k \in DOMAIN files \cup {0} |-> IF k = 0 THEN <<>> ELSE files[k]]
           /\ m_log' = "open" /\ UNCHANGED unopened
  <2>1. /\ DOMAIN files' = DOMAIN files \cup {0} /\ files'[0] = <<>>
        /\ \A a \in DOMAIN files' : a # 0 => a \in DOMAIN files /\ files'[a] = files[a]
    BY <1>3
  <2>2. DOMAIN files' \subseteq 0 .. NumBackups
    BY <1>1, <2>1, LogBounds
  <2>3. files' \in [DOMAIN files' -> Seq(Line)]
    <3>1. <<>> \in Seq(Line) /\ \A a \in DOMAIN files : files[a] \in Seq(Line)
      BY <1>1
    <3> QED BY <1>3, <3>1
  <2>4. Rearranged
    BY <2>1, <2>2, <2>3 DEF Rearranged
  <2> QED BY <1>3, <2>1, <2>4
<1> QED BY <1>2, <1>3 DEF openFile

LEMMA RemoveFacts ==
    ASSUME LogType, RemoveBackup
    PROVE  Rearranged
<1>1. files \in [DOMAIN files -> Seq(Line)] /\ DOMAIN files \subseteq 0 .. NumBackups
  BY DEF LogType
<1>2. files' = [k \in DOMAIN files \ {rot.i} |-> files[k]]
  BY DEF RemoveBackup, Restrict
<1>3. /\ DOMAIN files' \subseteq DOMAIN files
      /\ \A a \in DOMAIN files' : files'[a] = files[a]
  BY <1>2
<1>4. files' \in [DOMAIN files' -> Seq(Line)]
  BY <1>1, <1>2
<1> QED BY <1>1, <1>3, <1>4 DEF Rearranged

LEMMA RenameFacts ==
    ASSUME LogType, RenamePrevious
    PROVE  Rearranged
<1>1. files \in [DOMAIN files -> Seq(Line)] /\ DOMAIN files \subseteq 0 .. NumBackups
  BY DEF LogType
<1>2. CASE UNCHANGED files
  BY <1>2, FilesStay
<1>3. CASE rot.i - 1 \in DOMAIN files
  <2>1. PICK n : n = rot.i
    OBVIOUS
  <2>2. n \in 1 .. NumBackups /\ NumBackups \in Nat
    BY <2>1, LogBounds DEF LogType, RenamePrevious
  <2>3. files' = [k \in (DOMAIN files \ {n - 1}) \cup {n} |-> IF k = n THEN files[n - 1] ELSE files[k]]
    BY <1>3, <2>1 DEF RenamePrevious, exists
  <2>4. /\ DOMAIN files' = (DOMAIN files \ {n - 1}) \cup {n}
        /\ files'[n] = files[n - 1] /\ n - 1 \in DOMAIN files
        /\ \A a \in DOMAIN files' : a # n => a \in DOMAIN files /\ a # n - 1 /\ files'[a] = files[a]
    BY <1>3, <2>1, <2>3
  <2>5. DOMAIN files' \subseteq 0 .. NumBackups
    BY <1>1, <2>2, <2>4
  <2>6. \A a \in DOMAIN files' : files'[a] \in Seq(Line)
    BY <1>1, <2>4
  <2>7. files' \in [DOMAIN files' -> Seq(Line)]
    BY <2>3, <2>6
  <2>8. ASSUME NEW a \in DOMAIN files', NEW b \in DOMAIN files', a > b
        PROVE  \E c, d \in DOMAIN files : c > d /\ files'[a] = files[c] /\ files'[b] = files[d]
    <3>1. a \in Nat /\ b \in Nat /\ n \in Nat /\ n > 0
      BY <2>2, <2>5
    <3>2. CASE a = n
      <4>1. b # n /\ b # n - 1 /\ n - 1 > b
        BY <2>4, <2>8, <3>1, <3>2
      <4> QED BY <2>4, <3>2, <4>1
    <3>3. CASE b = n
      <4>1. a # n /\ a > n - 1
        BY <2>8, <3>1, <3>3
      <4> QED BY <2>4, <3>3, <4>1
    <3>4. CASE a # n /\ b # n
      BY <2>4, <2>8, <3>4
    <3> QED BY <3>2, <3>3, <3>4
  <2> QED BY <2>4, <2>5, <2>7, <2>8 DEF Rearranged
<1> QED BY <1>2, <1>3 DEF RenamePrevious, exists

\* The steps that write, and all others.
LEMMA FileSteps ==
    ASSUME LogType, Stream, [Next]_vars
    PROVE  \/ Rearranged
           \/ WriteNote /\ Extended(Note)
           \/ WriteLine /\ Extended(msg)
<1> USE DEF fileVars
<1>1. CASE WriteNote
  <2>1. 0 \in DOMAIN files /\ files' = [files EXCEPT ![0] = Append(files[0], Note)]
    BY <1>1 DEF WriteNote, Stream, exists
  <2>2. Note \in Line
    BY LogBounds DEF Note, Line
  <2> QED BY <1>1, <2>1, <2>2, ExtendFacts
<1>2. CASE WriteLine
  <2>1. CASE UNCHANGED files
    BY <2>1, FilesStay
  <2>2. CASE m_log = "open" /\ files' = [files EXCEPT ![0] = Append(files[0], msg)]
    <3>1. 0 \in DOMAIN files /\ msg \in Line
      BY <2>2 DEF Stream, exists, LogType
    <3> QED BY <1>2, <2>2, <3>1, ExtendFacts
  <2> QED BY <1>2, <2>1, <2>2 DEF WriteLine
<1>3. CASE RemoveBackup \/ RenamePrevious
  BY <1>3, RemoveFacts, RenameFacts
<1>4. CASE OpenForAppending \/ OpenNew
  BY <1>4, OpenFacts DEF OpenForAppending, OpenNew
<1>5. CASE \/ \E p \in Producer : LogMsg(p) \/ EndLogMsg(p)
           \/ RotateFails \/ RotateDone \/ OpenLog \/ start \/ stop \/ Join
           \/ TestRunning \/ Wait \/ PopNothing \/ Pop \/ Quit \/ FileSize \/ FileSizeThrows
           \/ Timeout \/ ProcessEnds \/ UNCHANGED vars
  <2>1. UNCHANGED files
    BY <1>5 DEF LogMsg, EndLogMsg, RotateFails, RotateDone, OpenLog, start, stop, Join,
                TestRunning, Wait, PopNothing, Pop, Quit, FileSize, FileSizeThrows, Timeout,
                ProcessEnds, vars
  <2> QED BY <2>1, FilesStay
<1> QED BY <1>1, <1>2, <1>3, <1>4, <1>5 DEF Next, RotateStep, MainStep, LoggerStep

-----------------------------------------------------------------------------
(* Types *)

LEMMA NextQueue ==
    ASSUME LogType, [Next]_vars
    PROVE  queue' \in Seq(Message) /\ msg' \in Line
<1>0. queue \in Seq(Message) /\ msg \in Line /\ Message \subseteq Line
  BY LogBounds DEF LogType, Message, Line
<1> USE DEF queueVars, logVars
<1>1. ASSUME NEW p \in Producer, EndLogMsg(p) PROVE queue' \in Seq(Message) /\ msg' \in Line
  <2>1. logging[p].number \in Message
    BY <1>1, LogBounds DEF EndLogMsg, LogType, Line, Message
  <2>2. queue' = queue \/ queue' = Append(queue, logging[p].number)
    BY <1>1 DEF EndLogMsg, push
  <2> QED BY <1>0, <1>1, <2>1, <2>2 DEF EndLogMsg
<1>2. CASE Pop
  <2>1. queue # <<>> /\ msg' = Head(queue) /\ queue' = Tail(queue)
    BY <1>2 DEF Pop
  <2> QED BY <1>0, <2>1
<1>3. CASE ProcessEnds \/ FileSizeThrows \/ WriteLine
  <2>1. msg' = 0 /\ (queue' = <<>> \/ queue' = queue)
    BY <1>3 DEF ProcessEnds, FileSizeThrows, NewProcess, WriteLine
  <2>2. <<>> \in Seq(Message) /\ 0 \in Line
    BY LogBounds DEF Line
  <2> QED BY <1>0, <2>1, <2>2
<1>4. CASE \/ \E p \in Producer : LogMsg(p)
           \/ RotateStep \/ MainStep \/ TestRunning \/ Wait \/ PopNothing \/ Quit
           \/ FileSize \/ OpenNew \/ WriteNote \/ Timeout \/ UNCHANGED vars
  <2>1. UNCHANGED <<queue, msg>>
    BY <1>4 DEF LogMsg, RotateStep, RemoveBackup, RenamePrevious, RotateFails, RotateDone,
                MainStep, OpenLog, OpenForAppending, start, stop, Join, TestRunning, Wait,
                PopNothing, Quit, FileSize, OpenNew, WriteNote, Timeout, vars
  <2> QED BY <1>0, <2>1
<1> QED BY <1>1, <1>2, <1>3, <1>4 DEF Next, LoggerStep

LEMMA NextLogging ==
    ASSUME LogType, [Next]_vars
    PROVE  accepted' \in Line /\ logging' \in [Producer -> [level : LOG_TRACE .. LOG_ALWAYS, number : Line]]
<1> DEFINE T == [level : LOG_TRACE .. LOG_ALWAYS, number : Line]
<1>0. accepted \in Line /\ logging \in [Producer -> T]
  BY DEF LogType
<1>1. Idle \in T
  BY LogBounds DEF Idle, Line, LOG_TRACE, LOG_ALWAYS
<1> USE DEF prodVars
<1>2. ASSUME NEW p \in Producer, LogMsg(p) PROVE accepted' \in Line /\ logging' \in [Producer -> T]
  <2>1. accepted' \in Line
    BY <1>0, <1>2, LogBounds DEF LogMsg, Line
  <2>2. PICK l \in Levels : logging' = [logging EXCEPT ![p] = [level |-> l, number |-> accepted']]
    BY <1>2 DEF LogMsg
  <2>3. [level |-> l, number |-> accepted'] \in T
    BY <2>1, LogBounds
  <2> HIDE DEF T
  <2> QED BY <1>0, <2>1, <2>2, <2>3
<1>3. ASSUME NEW p \in Producer, EndLogMsg(p) PROVE accepted' \in Line /\ logging' \in [Producer -> T]
  <2>1. logging' = [logging EXCEPT ![p] = Idle] /\ UNCHANGED accepted
    BY <1>3 DEF EndLogMsg
  <2> HIDE DEF T
  <2> QED BY <1>0, <1>1, <2>1
<1>4. CASE ProcessEnds \/ FileSizeThrows
  <2>1. logging' = [p \in Producer |-> Idle] /\ UNCHANGED accepted
    BY <1>4 DEF ProcessEnds, FileSizeThrows, NewProcess
  <2> HIDE DEF T
  <2>2. logging' \in [Producer -> T]
    BY <1>1, <2>1
  <2> QED BY <1>0, <2>1, <2>2 DEF T
<1>5. CASE \/ RotateStep \/ MainStep \/ TestRunning \/ Wait \/ PopNothing \/ Pop \/ Quit
           \/ FileSize \/ OpenNew \/ WriteNote \/ WriteLine \/ Timeout \/ UNCHANGED vars
  <2>1. UNCHANGED <<accepted, logging>>
    BY <1>5 DEF RotateStep, RemoveBackup, RenamePrevious, RotateFails, RotateDone,
                MainStep, OpenLog, OpenForAppending, start, stop, Join, TestRunning, Wait,
                PopNothing, Pop, Quit, FileSize, OpenNew, WriteNote, WriteLine, Timeout, vars
  <2> QED BY <1>0, <2>1
<1> QED BY <1>2, <1>3, <1>4, <1>5 DEF Next, LoggerStep

LEMMA NextPcs ==
    ASSUME LogType, [Next]_vars
    PROVE  /\ mainPc' \in MainPcs /\ logPc' \in LogPcs
           /\ rot' \in [i : 0 .. NumBackups, op : {"remove", "rename"}]
<1>0. mainPc \in MainPcs /\ logPc \in LogPcs
      /\ rot \in [i : 0 .. NumBackups, op : {"remove", "rename"}] /\ NumBackups \in Nat
  BY LogBounds DEF LogType
<1>1. mainPc' \in MainPcs /\ logPc' \in LogPcs
  BY <1>0 DEF Next, LogMsg, EndLogMsg, RotateStep, RemoveBackup, RenamePrevious, RotateFails,
              RotateDone, Rotated, MainStep, OpenLog, OpenForAppending, start, stop, Join,
              LoggerStep, TestRunning, Wait, PopNothing, Pop, Quit, FileSize, FileSizeThrows,
              OpenNew, WriteNote, WriteLine, Timeout, ProcessEnds, NewProcess, vars, logVars,
              MainPcs, LogPcs
<1>2. CASE RemoveBackup
  BY <1>0, <1>1, <1>2 DEF RemoveBackup
<1>3. CASE RenamePrevious
  <2>1. rot.i - 1 \in 0 .. NumBackups
    BY <1>0, <1>3 DEF RenamePrevious
  <2> QED BY <1>1, <1>3, <2>1 DEF RenamePrevious
<1>4. CASE OpenLog \/ FileSize \/ ProcessEnds \/ FileSizeThrows
  <2>1. \/ rot' = rot \/ rot' = [i |-> NumBackups, op |-> "remove"]
        \/ rot' = [i |-> 0, op |-> "remove"]
    BY <1>4 DEF OpenLog, FileSize, StartRotation, ProcessEnds, FileSizeThrows, NewProcess
  <2> QED BY <1>0, <1>1, <2>1
<1>5. CASE \/ \E p \in Producer : LogMsg(p) \/ EndLogMsg(p)
           \/ RotateFails \/ RotateDone \/ OpenForAppending \/ start \/ stop \/ Join
           \/ TestRunning \/ Wait \/ PopNothing \/ Pop \/ Quit \/ OpenNew \/ WriteNote
           \/ WriteLine \/ Timeout \/ UNCHANGED vars
  <2>1. UNCHANGED rot
    BY <1>5 DEF LogMsg, EndLogMsg, RotateFails, RotateDone, OpenForAppending, start, stop, Join,
                TestRunning, Wait, PopNothing, Pop, Quit, OpenNew, WriteNote, WriteLine, Timeout,
                vars, fileVars
  <2> QED BY <1>0, <1>1, <2>1
<1> QED BY <1>2, <1>3, <1>4, <1>5 DEF Next, RotateStep, MainStep, LoggerStep

LEMMA NextLogType == LogType /\ Stream /\ [Next]_vars => LogType'
<1> SUFFICES ASSUME LogType, Stream, [Next]_vars PROVE LogType'
  OBVIOUS
<1>1. files' \in [DOMAIN files' -> Seq(Line)] /\ DOMAIN files' \subseteq 0 .. NumBackups
  <2>1. DOMAIN files \subseteq 0 .. NumBackups
    BY DEF LogType
  <2> QED BY <2>1, FileSteps DEF Rearranged, Extended
<1> QED BY <1>1, NextQueue, NextLogging, NextPcs DEF LogType

-----------------------------------------------------------------------------
(* Threads, stream and stop() *)

LEMMA NextThreads ==
    ASSUME LogType, Threads, [Next]_vars
    PROVE  Threads'
<1>0. /\ mainPc \in MainPcs /\ logPc \in LogPcs /\ queue \in Seq(Message)
      /\ logPc = "none" <=> mainPc \in {"init", "rotate", "open", "start", "stopped"}
      /\ mainPc = "running" <=> isRunning
      /\ logPc = "done" => ~isRunning
      /\ msg # 0 <=> logPc \in {"size", "rotate", "open", "append"}
  BY DEF LogType, Threads
<1> USE DEF logVars, queueVars, prodVars, MainPcs, LogPcs
<1>1. CASE \/ \E p \in Producer : LogMsg(p) \/ EndLogMsg(p)
           \/ Wait \/ WriteNote \/ Timeout \/ RemoveBackup \/ RenamePrevious \/ UNCHANGED vars
  <2>1. UNCHANGED <<mainPc, logPc, isRunning, msg>>
    BY <1>1 DEF LogMsg, EndLogMsg, Wait, WriteNote, Timeout, RemoveBackup, RenamePrevious, vars
  <2> QED BY <1>0, <2>1 DEF Threads
<1>2. CASE RotateFails \/ RotateDone
  <2>1. UNCHANGED <<isRunning, msg>> /\ (mainPc = "rotate" \/ logPc = "rotate")
    BY <1>2 DEF RotateFails, RotateDone, Rotating
  <2>2. /\ mainPc' = IF mainPc = "rotate" THEN "open" ELSE mainPc
        /\ logPc' = IF logPc = "rotate" THEN "open" ELSE logPc
    BY <1>2 DEF RotateFails, RotateDone, Rotated
  <2> QED BY <1>0, <2>1, <2>2 DEF Threads
<1>3. CASE OpenLog \/ OpenForAppending
  <2>1. /\ mainPc \in {"init", "open"} /\ mainPc' \in {"rotate", "start"}
        /\ UNCHANGED <<logPc, isRunning, msg>>
    BY <1>3 DEF OpenLog, OpenForAppending
  <2> QED BY <1>0, <2>1 DEF Threads
<1>4. CASE start \/ stop \/ Join
  BY <1>0, <1>4 DEF start, stop, Join, Threads
<1>5. CASE TestRunning \/ PopNothing \/ Quit
  BY <1>0, <1>5 DEF TestRunning, PopNothing, Quit, Threads
<1>6. CASE Pop
  <2>1. queue # <<>> /\ msg' = Head(queue)
    BY <1>6 DEF Pop
  <2>2. msg' # 0
    <3>1. Head(queue) \in Message
      BY <1>0, <2>1
    <3> QED BY <2>1, <3>1 DEF Message
  <2> QED BY <1>0, <1>6, <2>2 DEF Pop, Threads
<1>7. CASE FileSize \/ OpenNew \/ WriteLine
  <2>1. /\ UNCHANGED <<mainPc, isRunning>> /\ logPc \in {"size", "open", "append"}
        /\ \/ logPc' \in {"rotate", "append"} /\ UNCHANGED msg
           \/ logPc' = "test" /\ msg' = 0
    BY <1>7 DEF FileSize, OpenNew, WriteLine
  <2> QED BY <1>0, <2>1 DEF Threads
<1>8. CASE ProcessEnds \/ FileSizeThrows
  BY <1>8 DEF ProcessEnds, FileSizeThrows, NewProcess, Threads
<1> QED BY <1>1, <1>2, <1>3, <1>4, <1>5, <1>6, <1>7, <1>8
     DEF Next, RotateStep, MainStep, LoggerStep

\* While the files are moved the stream is closed; only rotations move the log.
LEMMA NextStream ==
    ASSUME LogType, Threads, Stream, [Next]_vars
    PROVE  Stream'
<1>0. /\ mainPc \in MainPcs /\ logPc \in LogPcs
      /\ m_log = "open" => 0 \in DOMAIN files
      /\ Rotating \/ mainPc = "open" \/ logPc = "open" => m_log = "null"
      /\ m_log = "bad" => unopened
  BY DEF LogType, Stream, exists
<1> USE DEF MainPcs, LogPcs, logVars, fileVars, histVars, exists
<1>1. CASE RemoveBackup \/ RenamePrevious
  <2>1. m_log = "null" /\ UNCHANGED <<m_log, mainPc, logPc, unopened>>
    BY <1>0, <1>1 DEF RemoveBackup, RenamePrevious
  <2> QED BY <1>0, <2>1 DEF Stream
<1>2. CASE RotateFails \/ RotateDone
  <2>1. m_log = "null" /\ UNCHANGED <<m_log, files, unopened>>
    BY <1>0, <1>2 DEF RotateFails, RotateDone
  <2> QED BY <2>1 DEF Stream
<1>3. CASE OpenForAppending
  <2>1. openFile(TRUE) /\ mainPc = "open" /\ mainPc' = "start" /\ logPc' = logPc /\ logPc = "none"
    BY <1>3 DEF OpenForAppending, Threads
  <2>2. (m_log' = "open" /\ 0 \in DOMAIN files') \/ (m_log' = "bad" /\ unopened')
    BY <2>1, OpenFacts
  <2> QED BY <2>1, <2>2 DEF Stream, Rotating
<1>4. CASE OpenNew
  <2>1. openFile(FALSE) /\ logPc = "open" /\ logPc' = "append" /\ mainPc' = mainPc
    BY <1>4 DEF OpenNew
  <2>2. (m_log' = "open" /\ 0 \in DOMAIN files') \/ (m_log' = "bad" /\ unopened')
    BY <2>1, OpenFacts
  <2> QED BY <2>1, <2>2 DEF Stream, Rotating, Threads
<1>5. CASE WriteNote \/ WriteLine
  <2>1. DOMAIN files' = DOMAIN files
    BY <1>5 DEF WriteNote, WriteLine
  <2>2. UNCHANGED <<m_log, mainPc, unopened>> /\ logPc' \in {logPc, "test"}
    BY <1>5 DEF WriteNote, WriteLine
  <2> QED BY <1>0, <2>1, <2>2 DEF Stream, Rotating
<1>6. CASE OpenLog \/ FileSize \/ ProcessEnds \/ FileSizeThrows
  <2>1. CASE m_log' = "null"
    BY <2>1 DEF Stream
  <2>2. CASE /\ UNCHANGED <<m_log, files, mainPc, unopened>> /\ logPc' = "append"
    BY <1>0, <2>2 DEF Stream, Rotating
  <2> QED BY <1>6, <2>1, <2>2 DEF OpenLog, FileSize, ProcessEnds, FileSizeThrows, NewProcess
<1>7. CASE \/ \E p \in Producer : LogMsg(p) \/ EndLogMsg(p)
           \/ start \/ stop \/ Join \/ TestRunning \/ Wait \/ PopNothing \/ Pop \/ Quit
           \/ Timeout \/ UNCHANGED vars
  <2>1. /\ UNCHANGED <<m_log, files, unopened>>
        /\ mainPc' \in {mainPc, "running", "join", "stopped"}
        /\ logPc' \in {logPc, "test", "none", "pop", "size", "done"}
    BY <1>7 DEF LogMsg, EndLogMsg, start, stop, Join, TestRunning, Wait, PopNothing, Pop, Quit,
                Timeout, vars
  <2> QED BY <1>0, <2>1 DEF Stream, Rotating
<1> QED BY <1>1, <1>2, <1>3, <1>4, <1>5, <1>6, <1>7 DEF Next, RotateStep, MainStep, LoggerStep

LEMMA NextRoom ==
    ASSUME LogType, Threads, Stream, HasRoom, [Next]_vars
    PROVE  HasRoom'
<1> USE DEF logVars, fileVars
<1>1. CASE WriteNote
  <2>1. Extended(Note) /\ logPc = "append" /\ m_log = "open" /\ ~rotateOk
    <3>1. 0 \in DOMAIN files /\ files' = [files EXCEPT ![0] = Append(files[0], Note)] /\ Note \in Line
      BY <1>1, LogBounds DEF WriteNote, Stream, exists, Note, Line
    <3> QED BY <1>1, <3>1, ExtendFacts DEF WriteNote
  <2>2. rotateOk' /\ logPc' = "append"
    BY <1>1, <2>1 DEF WriteNote
  <2>3. files[0] \in Seq(Line) /\ Len(files[0]) = 0
    BY <2>1 DEF HasRoom, LogType, Extended
  <2>4. Len(files'[0]) = 1
    BY <2>1, <2>3 DEF Extended
  <2> QED BY <2>2, <2>4, LogBounds DEF HasRoom
<1>2. CASE FileSize
  <2>1. /\ UNCHANGED <<rotateOk, files>> /\ logPc = "size"
        /\ \/ logPc' = "rotate"
           \/ logPc' = "append" /\ ~TooBig /\ (MaxLogSize > 0 => 0 \in DOMAIN files)
    BY <1>2 DEF FileSize, exists
  <2>2. 0 \in DOMAIN files => Len(files[0]) \in Nat
    <3>1. 0 \in DOMAIN files => files[0] \in Seq(Line)
      BY DEF LogType
    <3> QED BY <3>1
  <2> QED BY <2>1, <2>2, LogBounds DEF HasRoom, TooBig
<1>3. CASE OpenNew
  <2>1. openFile(FALSE) /\ logPc' = "append"
    BY <1>3 DEF OpenNew
  <2>2. m_log' = "open" => files'[0] = <<>>
    BY <2>1, OpenFacts
  <2> QED BY <2>1, <2>2, LogBounds DEF HasRoom
<1>4. CASE \/ TestRunning \/ PopNothing \/ Quit \/ WriteLine \/ start \/ Join \/ ProcessEnds
           \/ FileSizeThrows \/ RotateFails \/ RotateDone \/ OpenLog \/ OpenForAppending
           \/ RemoveBackup \/ RenamePrevious
  <2>1. logPc' \notin {"size", "append"}
    BY <1>4 DEF TestRunning, PopNothing, Quit, WriteLine, start, Join, ProcessEnds, FileSizeThrows,
                NewProcess, RotateFails, RotateDone, Rotated, Rotating, OpenLog, OpenForAppending,
                RemoveBackup, RenamePrevious, Threads
  <2> QED BY <2>1 DEF HasRoom
<1>5. CASE Pop
  BY <1>5 DEF Pop, HasRoom
<1>6. CASE \/ \E p \in Producer : LogMsg(p) \/ EndLogMsg(p)
           \/ stop \/ Wait \/ Timeout \/ UNCHANGED vars
  BY <1>6 DEF LogMsg, EndLogMsg, stop, Wait, Timeout, vars, HasRoom
<1> QED BY <1>1, <1>2, <1>3, <1>4, <1>5, <1>6 DEF Next, RotateStep, MainStep, LoggerStep

LEMMA NextDisk ==
    ASSUME LogType, Stream, HasRoom, DiskBound, [Next]_vars
    PROVE  DiskBound'
<1> SUFFICES ASSUME MaxLogSize > 0
             PROVE  \A a \in DOMAIN files' : Len(files'[a]) <= MaxLogSize + 1
  BY DEF DiskBound
<1>0. \A a \in DOMAIN files : Len(files[a]) <= MaxLogSize + 1
  BY DEF DiskBound
<1>1. CASE Rearranged
  BY <1>0, <1>1, LogBounds DEF Rearranged
<1>2. ASSUME NEW x, Extended(x), WriteNote \/ WriteLine
      PROVE  \A a \in DOMAIN files' : Len(files'[a]) <= MaxLogSize + 1
  <2>1. CASE UNCHANGED files
    BY <1>0, <2>1
  <2>2. CASE logPc = "append" /\ m_log = "open"
    <3>1. Len(files[0]) <= MaxLogSize
      BY <2>2, LogBounds DEF HasRoom
    <3>2. Len(files'[0]) = Len(files[0]) + 1 /\ Len(files[0]) \in Nat
      <4>1. files[0] \in Seq(Line)
        BY <1>2 DEF LogType, Extended
      <4> QED BY <1>2, <4>1 DEF Extended
    <3>3. Len(files'[0]) <= MaxLogSize + 1
      BY <3>1, <3>2, LogBounds
    <3> QED BY <1>0, <1>2, <3>3 DEF Extended
  <2> QED BY <1>2, <2>1, <2>2 DEF WriteNote, WriteLine
<1> QED BY <1>1, <1>2, FileSteps

LEMMA PopFacts ==
    ASSUME NEW S, NEW s \in Seq(S), s # <<>>
    PROVE  /\ Head(s) = s[1] /\ 1 \in DOMAIN s /\ Head(s) \in S
           /\ \A k \in DOMAIN s : k = 1 \/ (k - 1 \in DOMAIN Tail(s) /\ Tail(s)[k - 1] = s[k])
           /\ \A k \in DOMAIN Tail(s) : k \in Nat /\ k + 1 \in DOMAIN s /\ Tail(s)[k] = s[k + 1]
OBVIOUS

LEMMA PushFacts ==
    ASSUME NEW S, NEW s \in Seq(S), NEW e
    PROVE  /\ \A k \in DOMAIN s : k \in DOMAIN Append(s, e) /\ Append(s, e)[k] = s[k]
           /\ \A k \in DOMAIN Append(s, e) :
                 \/ k \in DOMAIN s /\ k \in Nat /\ k <= Len(s) /\ Append(s, e)[k] = s[k]
                 \/ k = Len(s) + 1 /\ Append(s, e)[k] = e
           /\ Len(s) \in Nat
OBVIOUS

LEMMA NextDue ==
    ASSUME LogType, Threads, Stream, Due, [Next]_vars
    PROVE  Due'
<1>0. queue \in Seq(Message) /\ mainPc \in MainPcs /\ logPc \in LogPcs
  BY DEF LogType
<1> USE DEF queueVars, logVars, histVars
<1>1. ASSUME NEW p \in Producer, EndLogMsg(p) PROVE Due'
  <2>1. /\ UNCHANGED <<unopened, mainPc, logPc, dueAtStop, written, msg>>
        /\ queue' = queue \/ queue' = Append(queue, logging[p].number)
    BY <1>1 DEF EndLogMsg, push
  <2>2. Range(queue) \subseteq Range(queue')
    BY <1>0, <2>1, PushFacts DEF Range
  <2> QED BY <2>1, <2>2 DEF Due
<1>2. CASE Pop
  <2>1. /\ UNCHANGED <<unopened, mainPc, dueAtStop, written>> /\ queue # <<>>
        /\ msg' = Head(queue) /\ queue' = Tail(queue) /\ logPc' = "size" /\ logPc \in {"pop", "test"}
    BY <1>2 DEF Pop
  <2>2. msg = 0
    BY <2>1 DEF Threads
  <2>3. Head(queue) # 0
    <3>1. Head(queue) \in Message
      BY <1>0, <2>1, PopFacts
    <3> QED BY <3>1 DEF Message
  <2>4. \A m \in Range(queue) : m \in Range(queue') \/ m = msg'
    <3> SUFFICES ASSUME NEW k \in DOMAIN queue PROVE queue[k] \in Range(queue') \/ queue[k] = msg'
      BY DEF Range
    <3>1. k = 1 \/ (k - 1 \in DOMAIN queue' /\ queue'[k - 1] = queue[k])
      BY <1>0, <2>1, PopFacts
    <3>2. msg' = queue[1]
      BY <1>0, <2>1, PopFacts
    <3> QED BY <3>1, <3>2 DEF Range
  <2> QED BY <2>1, <2>2, <2>3, <2>4 DEF Due
<1>3. CASE Quit
  <2>1. /\ UNCHANGED <<unopened, mainPc, dueAtStop, written, queue, msg>> /\ queue = <<>>
        /\ logPc = "test"
    BY <1>3 DEF Quit
  <2>2. msg = 0
    BY <2>1 DEF Threads
  <2>3. Range(queue) = {}
    BY <2>1 DEF Range
  <2> QED BY <2>1, <2>2, <2>3 DEF Due
<1>4. CASE stop
  <2>1. /\ mainPc = "running" /\ mainPc' = "join" /\ UNCHANGED <<queue, msg, logPc>>
        /\ dueAtStop' = Range(queue) \cup (IF msg # 0 THEN {msg} ELSE {})
    BY <1>4 DEF stop
  <2>2. logPc # "done"
    BY <2>1 DEF Threads
  <2> QED BY <2>1, <2>2 DEF Due
<1>5. CASE Join
  BY <1>5 DEF Join, Due
<1>6. CASE WriteLine
  <2>1. /\ UNCHANGED <<unopened, mainPc, dueAtStop, queue>> /\ msg' = 0
        /\ logPc = "append" /\ logPc' = "test"
        /\ \/ written' = written \cup {msg}
           \/ m_log = "bad" /\ written' = written
    BY <1>6 DEF WriteLine
  <2>2. m_log = "bad" => unopened
    BY DEF Stream
  <2> QED BY <2>1, <2>2 DEF Due
<1>7. CASE ProcessEnds \/ FileSizeThrows \/ start \/ OpenLog \/ OpenForAppending
  <2>1. mainPc' \notin {"join", "stopped"}
    BY <1>7 DEF ProcessEnds, FileSizeThrows, NewProcess, start, OpenLog, OpenForAppending
  <2> QED BY <2>1 DEF Due
<1>8. CASE OpenNew
  <2>1. /\ UNCHANGED <<queue, msg, mainPc, dueAtStop, written>> /\ logPc' = "append"
        /\ unopened => unopened'
    BY <1>8 DEF OpenNew, openFile
  <2> QED BY <2>1 DEF Due
<1>9. CASE RotateFails \/ RotateDone
  <2>1. /\ UNCHANGED <<queue, msg, dueAtStop, written, unopened>>
        /\ mainPc' = mainPc \/ mainPc' = "open"
        /\ logPc' = logPc \/ logPc' = "open"
    BY <1>9 DEF RotateFails, RotateDone, Rotated
  <2> QED BY <2>1 DEF Due
<1>10. CASE \/ \E p \in Producer : LogMsg(p)
            \/ RemoveBackup \/ RenamePrevious \/ TestRunning \/ Wait \/ PopNothing \/ FileSize
            \/ WriteNote \/ Timeout \/ UNCHANGED vars
  <2>1. /\ UNCHANGED <<queue, msg, mainPc, dueAtStop, written, unopened>>
        /\ logPc' = "done" => logPc = "done"
    BY <1>10 DEF LogMsg, RemoveBackup, RenamePrevious, TestRunning, Wait, PopNothing, FileSize,
                 WriteNote, Timeout, vars
  <2> QED BY <2>1 DEF Due
<1> QED BY <1>1, <1>2, <1>3, <1>4, <1>5, <1>6, <1>7, <1>8, <1>9, <1>10
     DEF Next, RotateStep, MainStep, LoggerStep

LEMMA InitLog == Init => LogInv
<1> SUFFICES ASSUME Init PROVE LogInv
  OBVIOUS
<1> USE DEF Init, NoProcess
<1>1. files = <<>> /\ files \in [DOMAIN files -> Seq(Line)] /\ DOMAIN files = {}
  OBVIOUS
<1>2. LogType
  <2>1. Idle \in [level : LOG_TRACE .. LOG_ALWAYS, number : Line]
    BY LogBounds DEF Idle, Line, LOG_TRACE, LOG_ALWAYS
  <2>2. logging \in [Producer -> [level : LOG_TRACE .. LOG_ALWAYS, number : Line]]
    BY <2>1
  <2>3. rot \in [i : 0 .. NumBackups, op : {"remove", "rename"}] /\ msg \in Line /\ accepted \in Line
    BY LogBounds DEF Line
  <2> QED BY <1>1, <2>2, <2>3 DEF LogType, MainPcs, LogPcs
<1>3. Threads /\ Stream /\ HasRoom /\ Due
  BY DEF Threads, Stream, HasRoom, Due, Rotating
<1>4. DiskBound
  BY <1>1 DEF DiskBound
<1> QED BY <1>2, <1>3, <1>4 DEF LogInv

LEMMA NextLog == LogInv /\ [Next]_vars => LogInv'
BY NextLogType, NextThreads, NextStream, NextRoom, NextDisk, NextDue DEF LogInv

\* No file grows past the limit by more than a line, also where a rotation fails half
\* way and the note goes first.
THEOREM FilesStayBounded == Spec => []DiskBound
<1>1. LogInv => DiskBound
  BY DEF LogInv
<1> QED BY InitLog, NextLog, <1>1, PTL DEF Spec

\* stop() returns when everything queued before it was written to the file.
THEOREM StopWaitsForQueue == Spec => []StopFlushes
<1>1. LogInv => StopFlushes
  BY DEF LogInv, Due, StopFlushes
<1> QED BY InitLog, NextLog, <1>1, PTL DEF Spec

-----------------------------------------------------------------------------
(* The order of the lines *)

LEMMA RearrangedKeeps ==
    ASSUME Rearranged
    PROVE  /\ \A x : LinesBelow(x) => LinesBelow(x)'
           /\ LogType /\ LinesInOrder => LinesInOrder'
<1>1. \A a \in DOMAIN files' : files'[a] = <<>> \/ \E c \in DOMAIN files : files'[a] = files[c]
  BY DEF Rearranged
<1>2. ASSUME NEW x, LinesBelow(x) PROVE LinesBelow(x)'
  BY <1>1, <1>2 DEF LinesBelow
<1>3. ASSUME LogType, LinesInOrder,
             NEW a \in DOMAIN files', NEW b \in DOMAIN files',
             NEW j \in DOMAIN files'[a], NEW k \in DOMAIN files'[b],
             a > b \/ (a = b /\ j < k), files'[a][j] # Note, files'[b][k] # Note
      PROVE  files'[a][j] < files'[b][k]
  <2>1. files'[a] # <<>> /\ files'[b] # <<>>
    OBVIOUS
  <2>2. CASE a > b
    <3>1. PICK c \in DOMAIN files, d \in DOMAIN files :
             c > d /\ files'[a] = files[c] /\ files'[b] = files[d]
      BY <2>1, <2>2 DEF Rearranged
    <3> QED BY <1>3, <3>1 DEF LinesInOrder
  <2>3. CASE a = b /\ j < k
    <3>1. PICK c \in DOMAIN files : files'[a] = files[c]
      BY <1>1, <2>1
    <3> QED BY <1>3, <2>3, <3>1 DEF LinesInOrder
  <2> QED BY <1>3, <2>2, <2>3
<1> QED BY <1>2, <1>3 DEF LinesInOrder, Note

\* The elements of the files after a line was added.
LEMMA ExtendedElems ==
    ASSUME LogType, NEW x, Extended(x), NEW a \in DOMAIN files', NEW j \in DOMAIN files'[a]
    PROVE  \/ a \in DOMAIN files /\ j \in DOMAIN files[a] /\ files'[a][j] = files[a][j]
           \/ /\ a = 0 /\ files'[a][j] = x /\ 0 \in DOMAIN files
              /\ j = Len(files[0]) + 1
<1>1. CASE a = 0
  <2>1. files[0] \in Seq(Line) /\ 0 \in DOMAIN files
    BY DEF LogType, Extended
  <2> QED BY <1>1, <2>1, PushFacts DEF Extended
<1>2. CASE a # 0
  BY <1>2 DEF Extended
<1> QED BY <1>1, <1>2

LEMMA ExtendedBelow ==
    ASSUME LogType, NEW x \in Line, Extended(x), NEW y, x < y, LinesBelow(y)
    PROVE  LinesBelow(y)'
BY ExtendedElems DEF LinesBelow

LEMMA ExtendedKeeps ==
    ASSUME LogType, LinesInOrder, NEW x \in Line, Extended(x), x = Note \/ LinesBelow(x)
    PROVE  LinesInOrder'
<1> SUFFICES ASSUME NEW a \in DOMAIN files', NEW b \in DOMAIN files',
                    NEW j \in DOMAIN files'[a], NEW k \in DOMAIN files'[b],
                    a > b \/ (a = b /\ j < k), files'[a][j] # Note, files'[b][k] # Note
             PROVE  files'[a][j] < files'[b][k]
  BY DEF LinesInOrder, Note
<1>1. CASE a \in DOMAIN files /\ j \in DOMAIN files[a] /\ files'[a][j] = files[a][j]
  <2>1. CASE b \in DOMAIN files /\ k \in DOMAIN files[b] /\ files'[b][k] = files[b][k]
    BY <1>1, <2>1 DEF LinesInOrder
  <2>2. CASE files'[b][k] = x
    BY <1>1, <2>2 DEF LinesBelow
  <2> QED BY <2>1, <2>2, ExtendedElems
<1>2. CASE a = 0 /\ 0 \in DOMAIN files /\ j = Len(files[0]) + 1
  <2>1. b \in Nat /\ files[0] \in Seq(Line) /\ DOMAIN files' = DOMAIN files
    BY <1>2, LogBounds DEF LogType, Extended
  <2>2. b = 0 /\ j < k
    BY <1>2, <2>1
  <2>3. k \in DOMAIN Append(files[0], x)
    BY <2>2 DEF Extended
  <2>4. k \in Nat /\ k <= Len(files[0]) + 1 /\ Len(files[0]) \in Nat
    BY <2>1, <2>3, PushFacts
  <2> QED BY <1>2, <2>2, <2>4
<1> QED BY <1>1, <1>2, ExtendedElems

\* What was accepted gets older on its way to the files.
LEMMA NextAges ==
    ASSUME LogType, Threads, Stream, Ages, [Next]_vars
    PROVE  Ages'
<1>0. /\ queue \in Seq(Message) /\ msg \in Line /\ accepted \in Line /\ MaxMsgs \in Nat
      /\ \A j \in DOMAIN queue : queue[j] \in Message
  BY LogBounds DEF LogType
<1>00. \A p \in Producer : p # "free" /\ p # "main"
  BY LogBounds
<1> USE DEF queueVars, prodVars, logVars, fileVars
<1>1. ASSUME NEW q \in Producer, LogMsg(q) PROVE Ages'
  <2>1. /\ lock = "free" /\ lock' = q /\ accepted' = accepted + 1
        /\ UNCHANGED <<queue, msg, files, mainPc>> /\ mainPc \notin {"rotate", "open"}
    BY <1>1 DEF LogMsg
  <2>2. PICK l \in Levels : logging' = [logging EXCEPT ![q] = [level |-> l, number |-> accepted']]
    BY <1>1 DEF LogMsg
  <2>3. \A p \in Producer : logging[p].number = 0
    BY <1>00, <2>1 DEF Ages
  <2>4. \A p \in Producer : logging'[p].number # 0 => p = q /\ logging'[p].number = accepted'
    BY <2>2, <2>3 DEF LogType
  <2>5. LinesBelow(accepted') /\ msg < accepted' /\ \A j \in DOMAIN queue : queue[j] < accepted'
    BY <1>0, <2>1 DEF Ages, Message, Line
  <2>6. LinesBelow(accepted' + 1)
    <3>1. \A a \in DOMAIN files : \A j \in DOMAIN files[a] : files[a][j] \in Line
      BY DEF LogType
    <3> QED BY <1>0, <2>1, <2>5, <3>1 DEF LinesBelow, Line
  <2>7. \A y : LinesBelow(y) => \A a \in DOMAIN files' : \A j \in DOMAIN files'[a] : files'[a][j] < y
    BY <2>1 DEF LinesBelow
  <2>8. /\ msg' # 0 => msg' <= accepted'
        /\ \A j \in DOMAIN queue' : queue'[j] <= accepted'
    BY <1>0, <2>1, <2>5 DEF Message, Line
  <2> QED BY <2>1, <2>4, <2>5, <2>6, <2>7, <2>8 DEF Ages, LinesBelow
<1>2. ASSUME NEW q \in Producer, EndLogMsg(q) PROVE Ages'
  <2>1. /\ logging[q].number # 0 /\ lock = q /\ lock' = "free"
        /\ UNCHANGED <<accepted, msg, files, mainPc>>
        /\ queue' = queue \/ queue' = Append(queue, logging[q].number)
    BY <1>2 DEF EndLogMsg, push, Ages
  <2>2. mainPc \notin {"rotate", "open"}
    BY <1>00, <2>1 DEF Ages
  <2>3. /\ logging[q].number = accepted /\ msg < accepted /\ LinesBelow(accepted)
        /\ \A j \in DOMAIN queue : queue[j] < accepted
    BY <2>1 DEF Ages
  <2>4. \A p \in Producer : logging'[p].number = 0
    <3>1. \A p \in Producer : logging[p].number # 0 => p = q
      BY <2>1 DEF Ages
    <3>2. logging' = [logging EXCEPT ![q] = Idle] /\ Idle.number = 0
      BY <1>2 DEF EndLogMsg, Idle
    <3> QED BY <3>1, <3>2 DEF LogType
  <2>5. \A y : LinesBelow(y) => LinesBelow(y)'
    BY <2>1 DEF LinesBelow
  <2>6. CASE queue' = queue
    BY <2>1, <2>2, <2>4, <2>5, <2>6 DEF Ages, LinesBelow
  <2>7. CASE queue' = Append(queue, accepted)
    <3>1. \A k \in DOMAIN queue' :
             \/ k \in DOMAIN queue /\ k \in Nat /\ k <= Len(queue) /\ queue'[k] = queue[k]
             \/ k = Len(queue) + 1 /\ queue'[k] = accepted
      BY <1>0, <2>7, PushFacts
    <3>2. \A k \in DOMAIN queue' : queue'[k] <= accepted /\ msg < queue'[k] /\ LinesBelow(queue'[k])
      BY <1>0, <2>3, <3>1 DEF Ages, Line
    <3>3. \A j, k \in DOMAIN queue' : j < k => queue'[j] < queue'[k]
      <4> SUFFICES ASSUME NEW j \in DOMAIN queue', NEW k \in DOMAIN queue', j < k
                   PROVE  queue'[j] < queue'[k]
        OBVIOUS
      <4>1. Len(queue) \in Nat
        BY <1>0
      <4>2. j \in DOMAIN queue /\ queue'[j] = queue[j]
        BY <3>1, <4>1
      <4> QED BY <2>3, <3>1, <4>2 DEF Ages
    <3> QED BY <2>1, <2>2, <2>4, <2>5, <3>2, <3>3 DEF Ages, LinesBelow
  <2> QED BY <2>1, <2>3, <2>6, <2>7
<1>3. CASE Pop
  <2>1. /\ queue # <<>> /\ msg' = Head(queue) /\ queue' = Tail(queue)
        /\ UNCHANGED <<lock, accepted, logging, files, mainPc>> /\ logPc \in {"pop", "test"}
    BY <1>3 DEF Pop
  <2>2. msg = 0
    BY <2>1 DEF Threads
  <2>3. msg' = queue[1] /\ 1 \in DOMAIN queue
    BY <1>0, <2>1, PopFacts
  <2>4. \A k \in DOMAIN queue' : k \in Nat /\ k > 0 /\ k + 1 \in DOMAIN queue /\ queue'[k] = queue[k + 1]
    BY <1>0, <2>1, PopFacts
  <2>5. \A y : LinesBelow(y) => LinesBelow(y)'
    BY <2>1 DEF LinesBelow
  <2>6. msg' <= accepted' /\ LinesBelow(queue[1])
    BY <2>1, <2>3 DEF Ages
  <2>7. \A k \in DOMAIN queue' : queue'[k] <= accepted' /\ msg' < queue'[k] /\ LinesBelow(queue'[k])
    BY <2>1, <2>3, <2>4 DEF Ages
  <2>8. \A j, k \in DOMAIN queue' : j < k => queue'[j] < queue'[k]
    BY <2>4 DEF Ages
  <2>9. \A p \in Producer : logging'[p].number # 0 =>
           /\ lock' = p /\ logging'[p].number = accepted' /\ msg' < accepted' /\ LinesBelow(accepted)
           /\ \A j \in DOMAIN queue' : queue'[j] < accepted'
    BY <2>1, <2>3, <2>4 DEF Ages
  <2> QED BY <2>1, <2>3, <2>5, <2>6, <2>7, <2>8, <2>9 DEF Ages, LinesBelow
<1>4. CASE WriteNote \/ WriteLine
  <2>1. UNCHANGED <<queue, lock, accepted, logging, mainPc>> /\ msg' \in {0, msg}
    BY <1>4 DEF WriteNote, WriteLine
  <2>2. ASSUME NEW y \in Nat, y > 0, LinesBelow(y), msg' # 0 \/ msg < y PROVE LinesBelow(y)'
    <3>1. CASE Rearranged
      BY <2>2, <3>1, RearrangedKeeps
    <3>2. CASE WriteNote /\ Extended(Note)
      BY <2>2, <3>2, ExtendedBelow, LogBounds DEF Note, Line
    <3>3. CASE WriteLine /\ Extended(msg)
      <4>1. msg' = 0
        BY <3>3 DEF WriteLine
      <4> QED BY <1>0, <2>2, <3>3, <4>1, ExtendedBelow
    <3> QED BY <3>1, <3>2, <3>3, FileSteps
  <2>3. msg < accepted + 1 /\ accepted + 1 \in Nat /\ accepted + 1 > 0
    BY <1>0 DEF Ages, Line
  <2>4. LinesBelow(accepted + 1)'
    <3>1. PICK y : y = accepted + 1
      OBVIOUS
    <3>2. LinesBelow(y)'
      BY <2>2, <2>3, <3>1 DEF Ages
    <3> QED BY <2>1, <3>1, <3>2 DEF LinesBelow
  <2>5. msg' # 0 => msg' <= accepted' /\ LinesBelow(msg)'
    <3> SUFFICES ASSUME msg' # 0 PROVE msg' <= accepted' /\ LinesBelow(msg)'
      OBVIOUS
    <3>1. PICK y : y = msg
      OBVIOUS
    <3>2. LinesBelow(y)'
      BY <1>0, <2>1, <2>2, <3>1 DEF Ages, Line
    <3> QED BY <2>1, <3>1, <3>2 DEF Ages, LinesBelow
  <2>6. ASSUME NEW k \in DOMAIN queue
        PROVE  queue[k] <= accepted /\ msg' < queue[k] /\ LinesBelow(queue[k])'
    <3>1. PICK y \in Message : y = queue[k]
      BY <1>0
    <3>2. y \in Nat /\ y > 0 /\ y <= accepted /\ msg < y /\ LinesBelow(y)
      BY <2>6, <3>1 DEF Ages, Message
    <3>3. LinesBelow(y)'
      BY <2>2, <3>2
    <3> QED BY <2>1, <3>1, <3>2, <3>3 DEF LinesBelow
  <2>7. ASSUME NEW p \in Producer, logging[p].number # 0
        PROVE  /\ lock = p /\ logging[p].number = accepted
               /\ msg' < accepted /\ LinesBelow(accepted)' /\ \A j \in DOMAIN queue : queue[j] < accepted
    <3>1. PICK y : y = accepted
      OBVIOUS
    <3>2. y \in Nat /\ y > 0 /\ msg < y /\ LinesBelow(y)
      BY <1>0, <2>7, <3>1 DEF Ages, Line
    <3>3. LinesBelow(y)'
      BY <2>2, <3>2
    <3> QED BY <2>1, <2>7, <3>1, <3>2, <3>3 DEF Ages, LinesBelow
  <2> QED BY <2>1, <2>4, <2>5, <2>6, <2>7 DEF Ages, LinesBelow
<1>5. CASE ProcessEnds \/ FileSizeThrows
  <2>1. /\ queue' = <<>> /\ msg' = 0 /\ mainPc' = "init" /\ UNCHANGED <<accepted, files>>
        /\ logging' = [p \in Producer |-> Idle]
    BY <1>5 DEF ProcessEnds, FileSizeThrows, NewProcess
  <2>2. \A p \in Producer : logging'[p].number = 0
    BY <2>1 DEF Idle
  <2> QED BY <2>1, <2>2 DEF Ages, LinesBelow
<1>6. CASE /\ ~WriteNote /\ ~WriteLine
           /\ \/ RotateStep \/ MainStep \/ TestRunning \/ Wait \/ PopNothing \/ Quit
              \/ FileSize \/ OpenNew \/ Timeout \/ UNCHANGED vars
  <2>1. UNCHANGED <<queue, msg, accepted, logging>>
    BY <1>6 DEF RotateStep, RemoveBackup, RenamePrevious, RotateFails, RotateDone,
                MainStep, OpenLog, OpenForAppending, start, stop, Join, TestRunning, Wait,
                PopNothing, Quit, FileSize, OpenNew, Timeout, vars
  <2>2. Rearranged
    BY <1>6, FileSteps
  <2>3. /\ mainPc' \in {"rotate", "open"} => lock' = "main"
        /\ lock' = lock \/ lock \notin Producer
    <3>1. CASE OpenLog
      BY <1>00, <3>1 DEF OpenLog
    <3>2. CASE OpenForAppending
      BY <1>00, <3>2 DEF OpenForAppending, Ages
    <3>3. CASE UNCHANGED lock /\ (mainPc' \in {"rotate", "open"} => mainPc \in {"rotate", "open"})
      BY <3>3 DEF Ages
    <3> QED BY <1>6, <3>1, <3>2, <3>3 DEF RotateStep, RemoveBackup, RenamePrevious, RotateFails,
            RotateDone, Rotated, MainStep, start, stop, Join, TestRunning, Wait, PopNothing, Quit,
            FileSize, OpenNew, Timeout, vars
  <2>4. \A y : LinesBelow(y) => LinesBelow(y)'
    BY <2>2, RearrangedKeeps
  <2> QED BY <2>1, <2>3, <2>4 DEF Ages, LinesBelow
<1> QED BY <1>1, <1>2, <1>3, <1>4, <1>5, <1>6 DEF Next, LoggerStep

LEMMA NextOrder ==
    ASSUME LogType, Threads, Stream, OrderInv, [Next]_vars
    PROVE  OrderInv'
<1>1. Ages'
  BY NextAges DEF OrderInv
<1>2. CASE Rearranged
  BY <1>1, <1>2, RearrangedKeeps DEF OrderInv
<1>3. CASE WriteNote /\ Extended(Note)
  BY <1>1, <1>3, ExtendedKeeps, LogBounds DEF OrderInv, Note, Line
<1>4. CASE WriteLine /\ Extended(msg)
  <2>1. msg # 0 /\ msg \in Line
    BY <1>4 DEF WriteLine, Threads, LogType
  <2>2. LinesBelow(msg)
    BY <2>1 DEF OrderInv, Ages
  <2> QED BY <1>1, <1>4, <2>1, <2>2, ExtendedKeeps DEF OrderInv
<1> QED BY <1>2, <1>3, <1>4, FileSteps

\* The lines of the log and its backups are in the order in which logMsg accepted them,
\* however many threads log, and whatever fails or ends half way.
THEOREM LinesStayInOrder == Spec => []LinesInOrder
<1>1. Init => OrderInv
  BY DEF Init, NoProcess, OrderInv, Ages, LinesInOrder, LinesBelow, Idle
<1>2. LogInv /\ OrderInv /\ [Next]_vars => OrderInv'
  BY NextOrder DEF LogInv
<1>3. OrderInv => LinesInOrder
  BY DEF OrderInv
<1> QED BY InitLog, NextLog, <1>1, <1>2, <1>3, PTL DEF Spec

-----------------------------------------------------------------------------
(* Concatenations: FlattenSeq, unfolded by induction over the number of pieces *)

LEMMA Least ==
    ASSUME NEW T \in SUBSET Nat, T # {}
    PROVE  \E x \in T : \A y \in T : x <= y
<1> DEFINE R == OpToRel(<, Nat)
<1>1. IsWellFoundedOn(R, Nat)
  BY NatLessThanWellFounded
<1>3. \A x, y \in Nat : y < x => <<y, x>> \in R
  BY DEF OpToRel
<1> HIDE DEF R
<1>2. PICK x \in T : \A y \in T : ~(<<y, x>> \in R)
  BY <1>1, WFMin
<1>4. ASSUME NEW y \in T PROVE x <= y
  <2>1. x \in Nat /\ y \in Nat
    OBVIOUS
  <2>2. ~(y < x)
    BY <1>2, <1>3, <2>1, Zenon
  <2> QED BY <2>1, <2>2
<1> QED BY <1>4

\* Induction over a set, since the provers cannot instantiate a predicate.
LEMMA Induction ==
    ASSUME NEW T, 0 \in T, \A n \in Nat : n \in T => n + 1 \in T
    PROVE  Nat \subseteq T
<1> SUFFICES ASSUME Nat \ T # {} PROVE FALSE
  OBVIOUS
<1>1. PICK x \in Nat \ T : \A y \in Nat \ T : x <= y
  BY Least
<1>2. x # 0 /\ x - 1 \in Nat /\ x - 1 \in T
  BY <1>1
<1> QED BY <1>2

\* The function that FlattenSeq chooses.
IsFlattening(f, s, n) ==
    f = [i \in 1 .. n |-> IF i = 1 THEN s[1] ELSE f[i - 1] \o s[i]]

LEMMA FlatteningExists ==
    ASSUME NEW s, NEW n \in Nat PROVE \E f : IsFlattening(f, s, n)
<1> DEFINE T == {k \in Nat : \E f : IsFlattening(f, s, k)}
<1>1. 0 \in T
  <2>1. IsFlattening([i \in 1 .. 0 |-> 0], s, 0)
    BY DEF IsFlattening
  <2> QED BY <2>1
<1>2. ASSUME NEW k \in Nat, k \in T PROVE k + 1 \in T
  <2>1. PICK f : IsFlattening(f, s, k)
    BY <1>2
  <2> DEFINE g == [i \in 1 .. k + 1 |-> IF i = k + 1 THEN IF i = 1 THEN s[1] ELSE f[k] \o s[i] ELSE f[i]]
  <2>2. ASSUME NEW i \in 1 .. k + 1 PROVE g[i] = IF i = 1 THEN s[1] ELSE g[i - 1] \o s[i]
    <3>1. CASE i = k + 1
      BY <3>1
    <3>2. CASE i # k + 1
      <4>1. i \in 1 .. k /\ g[i] = f[i] /\ (i # 1 => i - 1 \in 1 .. k /\ g[i - 1] = f[i - 1])
        BY <3>2
      <4>2. f[i] = IF i = 1 THEN s[1] ELSE f[i - 1] \o s[i]
        BY <2>1, <4>1 DEF IsFlattening
      <4> QED BY <4>1, <4>2
    <3> QED BY <3>1, <3>2
  <2>3. g = [i \in 1 .. k + 1 |-> g[i]]
    OBVIOUS
  <2> HIDE DEF g
  <2>4. IsFlattening(g, s, k + 1)
    BY <2>2, <2>3 DEF IsFlattening
  <2> QED BY <2>4
<1> HIDE DEF T
<1>3. n \in T
  BY <1>1, <1>2, Induction
<1> QED BY <1>3 DEF T

LEMMA FlattenSeqUnfolds ==
    ASSUME NEW n \in Nat \ {0}, NEW s, Len(s) = n
    PROVE  \E f : IsFlattening(f, s, n) /\ FlattenSeq(s) = f[n]
<1> DEFINE f == CHOOSE f : IsFlattening(f, s, n)
<1>1. IsFlattening(f, s, n)
  BY FlatteningExists
<1>2. FlattenSeq(s) = f[n]
  BY DEF FlattenSeq, IsFlattening
<1> QED BY <1>1, <1>2

\* n sequences over S.
Pieces(S, n) == [1 .. n -> Seq(S)]

\* The flattenings of the first pieces, one after the other.
Flattens(f, s, S, n) ==
    /\ f \in [1 .. n -> Seq(S)] /\ f[1] = s[1]
    /\ \A i \in 2 .. n : f[i] = f[i - 1] \o s[i]

LEMMA FlattenSeqIs ==
    ASSUME NEW S, NEW n \in Nat \ {0}, NEW s \in Pieces(S, n)
    PROVE  \E f : Flattens(f, s, S, n) /\ FlattenSeq(s) = f[n]
<1>0. Len(s) = n
  BY DEF Pieces
<1>1. PICK f : IsFlattening(f, s, n) /\ FlattenSeq(s) = f[n]
  BY <1>0, FlattenSeqUnfolds
<1>2. f = [i \in 1 .. n |-> f[i]] /\ f[1] = s[1]
  BY <1>1 DEF IsFlattening
<1>3. ASSUME NEW i \in 2 .. n PROVE f[i] = f[i - 1] \o s[i]
  <2>1. i \in 1 .. n /\ i # 1
    OBVIOUS
  <2> QED BY <1>1, <2>1 DEF IsFlattening
<1> DEFINE T == {k \in Nat : k + 1 <= n => f[k + 1] \in Seq(S)}
<1>4. 0 \in T
  BY <1>2 DEF Pieces
<1>5. ASSUME NEW k \in Nat, k \in T PROVE k + 1 \in T
  <2>1. CASE (k + 1) + 1 <= n
    <3>1. f[k + 1] \in Seq(S) /\ s[k + 2] \in Seq(S)
      BY <1>5, <2>1 DEF Pieces
    <3>2. f[k + 2] = f[k + 1] \o s[k + 2]
      <4>1. k + 2 \in 2 .. n /\ (k + 2) - 1 = k + 1
        BY <2>1
      <4> QED BY <1>3, <4>1
    <3>3. f[k + 2] \in Seq(S)
      BY <3>1, <3>2, ConcatProperties
    <3> QED BY <3>3
  <2>2. CASE ~((k + 1) + 1 <= n)
    BY <2>2
  <2> QED BY <2>1, <2>2
<1> HIDE DEF T
<1>6. Nat \subseteq T
  BY <1>4, <1>5, Induction
<1>7. ASSUME NEW i \in 1 .. n PROVE f[i] \in Seq(S)
  <2>1. i - 1 \in T /\ (i - 1) + 1 = i /\ i <= n
    BY <1>6
  <2> QED BY <2>1 DEF T
<1>8. Flattens(f, s, S, n)
  BY <1>2, <1>3, <1>7 DEF Flattens
<1> QED BY <1>1, <1>8

\* Two flattenings that differ by a prefix still do, if the pieces that follow agree.
SamePieces(s, t, a, b) == \A i \in a + 1 .. b : s[i] = t[i]

Prefixed(f, g, x, a) == f[a] = x \o g[a]

LEMMA FlatteningsAgree ==
    ASSUME NEW S, NEW n \in Nat, NEW s \in Pieces(S, n), NEW t \in Pieces(S, n),
           NEW f, Flattens(f, s, S, n), NEW g, Flattens(g, t, S, n),
           NEW x \in Seq(S), NEW a \in 1 .. n, NEW b \in a .. n,
           Prefixed(f, g, x, a), SamePieces(s, t, a, b)
    PROVE  Prefixed(f, g, x, b)
<1> USE DEF Prefixed
<1> DEFINE T == {k \in Nat : a + k <= b => f[a + k] = x \o g[a + k]}
<1>1. 0 \in T
  OBVIOUS
<1>2. ASSUME NEW k \in Nat, k \in T PROVE k + 1 \in T
  <2> SUFFICES ASSUME a + (k + 1) <= b PROVE f[a + (k + 1)] = x \o g[a + (k + 1)]
    OBVIOUS
  <2> DEFINE i == a + k
  <2>1. i \in 1 .. n /\ i + 1 \in 2 .. n /\ i + 1 \in 1 .. n /\ i + 1 \in a + 1 .. b /\ (i + 1) - 1 = i
        /\ a + (k + 1) = i + 1
    OBVIOUS
  <2>2. f[i] = x \o g[i]
    BY <1>2
  <2> HIDE DEF i
  <2>3. g[i] \in Seq(S) /\ f[i + 1] = f[i] \o s[i + 1] /\ g[i + 1] = g[i] \o t[i + 1]
    BY <2>1 DEF Flattens
  <2>4. s[i + 1] = t[i + 1] /\ t[i + 1] \in Seq(S)
    BY <2>1 DEF Pieces, SamePieces
  <2>5. (x \o g[i]) \o t[i + 1] = x \o (g[i] \o t[i + 1])
    <3> DEFINE y == g[i]
               z == t[i + 1]
    <3>1. y \in Seq(S) /\ z \in Seq(S)
      BY <2>3, <2>4
    <3> HIDE DEF y, z
    <3>2. (x \o y) \o z = x \o (y \o z)
      BY <3>1, ConcatAssociative
    <3> QED BY <3>2 DEF y, z
  <2> QED BY <2>1, <2>2, <2>3, <2>4, <2>5
<1> HIDE DEF T
<1>3. Nat \subseteq T
  BY <1>1, <1>2, Induction
<1>4. b - a \in T
  BY <1>3
<1> QED BY <1>4 DEF T

LEMMA FlattenType ==
    ASSUME NEW S, NEW n \in Nat \ {0}, NEW s \in Pieces(S, n)
    PROVE  FlattenSeq(s) \in Seq(S)
<1>1. Len(s) = n
  BY DEF Pieces
<1>2. PICK f : Flattens(f, s, S, n) /\ FlattenSeq(s) = f[n]
  BY <1>1, FlattenSeqIs
<1> QED BY <1>2 DEF Flattens

\* Only the last piece differs.
SameStart(S, x, a, y, b) == \E u \in Seq(S) : x = u \o a /\ y = u \o b
LastDiffers(s, t, n) == \A i \in 1 .. n : i # n => s[i] = t[i]

LEMMA FlattenLast ==
    ASSUME NEW S, NEW n \in Nat \ {0}, NEW s \in Pieces(S, n), NEW t \in Pieces(S, n),
           LastDiffers(s, t, n)
    PROVE  SameStart(S, FlattenSeq(s), s[n], FlattenSeq(t), t[n])
<1>1. Len(s) = n /\ Len(t) = n /\ s[n] \in Seq(S) /\ t[n] \in Seq(S)
  BY DEF Pieces
<1>2. PICK f : Flattens(f, s, S, n) /\ FlattenSeq(s) = f[n]
  BY <1>1, FlattenSeqIs
<1>3. PICK g : Flattens(g, t, S, n) /\ FlattenSeq(t) = g[n]
  BY <1>1, FlattenSeqIs
<1>4. CASE n = 1
  <2>1. f[n] = s[n] /\ g[n] = t[n] /\ <<>> \in Seq(S)
    BY <1>2, <1>3, <1>4 DEF Flattens, Pieces
  <2> QED BY <1>1, <1>2, <1>3, <2>1, ConcatEmptySeq DEF SameStart
<1>5. CASE n # 1
  <2>1. f[1] = s[1] /\ g[1] = t[1] /\ f[1] = g[1] /\ g[1] \in Seq(S) /\ <<>> \in Seq(S)
    BY <1>2, <1>3, <1>5 DEF Flattens, Pieces, LastDiffers
  <2>2. Prefixed(f, g, <<>>, 1)
    BY <2>1, ConcatEmptySeq DEF Prefixed
  <2>0. 1 \in 1 .. n /\ n - 1 \in 1 .. n /\ n \in 2 .. n /\ SamePieces(s, t, 1, n - 1)
    BY <1>5 DEF SamePieces, LastDiffers
  <2>3. Prefixed(f, g, <<>>, n - 1)
    <3> DEFINE b == n - 1
    <3>1. b \in 1 .. n /\ SamePieces(s, t, 1, b) /\ 1 \in 1 .. n
      BY <2>0
    <3> HIDE DEF b
    <3>2. Prefixed(f, g, <<>>, b)
      BY <1>2, <1>3, <2>1, <2>2, <3>1, FlatteningsAgree
    <3> QED BY <3>2 DEF b
  <2>4. g[n - 1] \in Seq(S) /\ f[n] = f[n - 1] \o s[n] /\ g[n] = g[n - 1] \o t[n]
    BY <1>2, <1>3, <2>0 DEF Flattens
  <2>5. f[n - 1] = g[n - 1]
    BY <2>3, <2>4, ConcatEmptySeq DEF Prefixed
  <2> QED BY <1>2, <1>3, <2>4, <2>5 DEF SameStart
<1> QED BY <1>4, <1>5

\* The first piece is emptied.
FirstEmptied(s, t, n) == t[1] = <<>> /\ \A i \in 2 .. n : s[i] = t[i]

LEMMA FlattenFirst ==
    ASSUME NEW S, NEW n \in Nat \ {0}, NEW s \in Pieces(S, n), NEW t \in Pieces(S, n),
           FirstEmptied(s, t, n)
    PROVE  FlattenSeq(s) = s[1] \o FlattenSeq(t)
<1>1. Len(s) = n /\ Len(t) = n /\ s[1] \in Seq(S)
  BY DEF Pieces
<1>2. PICK f : Flattens(f, s, S, n) /\ FlattenSeq(s) = f[n]
  BY <1>1, FlattenSeqIs
<1>3. PICK g : Flattens(g, t, S, n) /\ FlattenSeq(t) = g[n]
  BY <1>1, FlattenSeqIs
<1>4. f[1] = s[1] /\ g[1] = <<>>
  BY <1>2, <1>3 DEF Flattens, Pieces, FirstEmptied
<1>5. Prefixed(f, g, s[1], 1)
  BY <1>1, <1>4, ConcatEmptySeq DEF Prefixed
<1>6. Prefixed(f, g, s[1], n)
  <2>1. 1 \in 1 .. n /\ n \in 1 .. n /\ SamePieces(s, t, 1, n)
    BY DEF SamePieces, FirstEmptied
  <2> QED BY <1>1, <1>2, <1>3, <1>5, <2>1, FlatteningsAgree
<1> QED BY <1>2, <1>3, <1>6 DEF Prefixed

\* A piece moves into an empty place before it.
Moved(s, t, n, j) ==
    /\ s[j] = <<>> /\ t[j + 1] = <<>> /\ t[j] = s[j + 1]
    /\ \A i \in 1 .. n : i # j /\ i # j + 1 => s[i] = t[i]

LEMMA FlattenMoved ==
    ASSUME NEW S, NEW n \in Nat \ {0}, NEW s \in Pieces(S, n), NEW t \in Pieces(S, n),
           NEW j \in 1 .. n - 1, Moved(s, t, n, j)
    PROVE  FlattenSeq(t) = FlattenSeq(s)
<1>0. /\ s[j] = <<>> /\ t[j + 1] = <<>> /\ t[j] = s[j + 1]
      /\ \A i \in 1 .. n : i # j /\ i # j + 1 => s[i] = t[i]
  BY DEF Moved
<1> USE <1>0
<1>1. Len(s) = n /\ Len(t) = n /\ <<>> \in Seq(S) /\ s[j + 1] \in Seq(S)
  BY DEF Pieces
<1>2. PICK f : Flattens(f, s, S, n) /\ FlattenSeq(s) = f[n]
  BY <1>1, FlattenSeqIs
<1>3. PICK g : Flattens(g, t, S, n) /\ FlattenSeq(t) = g[n]
  BY <1>1, FlattenSeqIs
<1>f. f[1] = s[1] /\ (\A i \in 2 .. n : f[i] = f[i - 1] \o s[i]) /\ \A i \in 1 .. n : f[i] \in Seq(S)
  BY <1>2 DEF Flattens, Pieces
<1>g. g[1] = t[1] /\ (\A i \in 2 .. n : g[i] = g[i - 1] \o t[i]) /\ \A i \in 1 .. n : g[i] \in Seq(S)
  BY <1>3 DEF Flattens, Pieces
<1>4. f[j + 1] = f[j] \o s[j + 1] /\ g[j + 1] = g[j] \o <<>> /\ g[j + 1] = g[j]
  <2>1. j + 1 \in 2 .. n /\ (j + 1) - 1 = j /\ j \in 1 .. n
    OBVIOUS
  <2>2. g[j] \in Seq(S) /\ g[j + 1] = g[j] \o <<>>
    BY <1>g, <2>1
  <2> QED BY <1>f, <2>1, <2>2, ConcatEmptySeq
<1>5. f[j + 1] = g[j + 1]
  <2>1. CASE j = 1
    <3>1. f[j] = <<>> /\ g[j] = s[j + 1]
      BY <1>f, <1>g, <2>1
    <3> QED BY <1>1, <1>4, <3>1, ConcatEmptySeq
  <2>2. CASE j # 1
    <3>1. j - 1 \in 1 .. n /\ j \in 2 .. n /\ 1 \in 1 .. n /\ j - 1 \in 1 .. n /\ SamePieces(s, t, 1, j - 1)
      BY <2>2 DEF SamePieces
    <3>2. Prefixed(f, g, <<>>, 1)
      BY <1>f, <1>g, <2>2, <3>1, ConcatEmptySeq DEF Prefixed
    <3>3. Prefixed(f, g, <<>>, j - 1)
      <4> DEFINE b == j - 1
      <4>1. b \in 1 .. n /\ SamePieces(s, t, 1, b) /\ 1 \in 1 .. n
        BY <3>1
      <4> HIDE DEF b
      <4>2. Prefixed(f, g, <<>>, b)
        BY <1>1, <1>2, <1>3, <3>2, <4>1, FlatteningsAgree
      <4> QED BY <4>2 DEF b
    <3>4. f[j - 1] = g[j - 1] /\ f[j - 1] \in Seq(S)
      BY <1>g, <3>1, <3>3, ConcatEmptySeq DEF Prefixed
    <3>5. f[j] = f[j - 1] \o <<>> /\ g[j] = g[j - 1] \o s[j + 1]
      BY <1>f, <1>g, <3>1
    <3>6. f[j] = f[j - 1]
      BY <3>4, <3>5, ConcatEmptySeq
    <3> QED BY <1>4, <3>4, <3>5, <3>6
  <2> QED BY <2>1, <2>2
<1>6. g[n] \in Seq(S) /\ g[j + 1] \in Seq(S) /\ j + 1 \in 1 .. n
  BY <1>g
<1>7. Prefixed(f, g, <<>>, j + 1)
  BY <1>5, <1>6, ConcatEmptySeq DEF Prefixed
<1>8. Prefixed(f, g, <<>>, n)
  <2>1. n \in j + 1 .. n /\ SamePieces(s, t, j + 1, n)
    BY DEF SamePieces
  <2> QED BY <1>1, <1>2, <1>3, <1>6, <1>7, <2>1, FlatteningsAgree
<1>9. f[n] = g[n]
  BY <1>6, <1>8, ConcatEmptySeq DEF Prefixed
<1> QED BY <1>2, <1>3, <1>9

\* Every piece is empty.
LEMMA FlattenEmpty ==
    ASSUME NEW S, NEW n \in Nat \ {0}, NEW s \in Pieces(S, n), \A i \in 1 .. n : s[i] = <<>>
    PROVE  FlattenSeq(s) = <<>>
<1>1. PICK f : Flattens(f, s, S, n) /\ FlattenSeq(s) = f[n]
  BY FlattenSeqIs
<1> DEFINE T == {k \in Nat : k + 1 <= n => f[k + 1] = <<>>}
<1>2. 0 \in T
  BY <1>1 DEF Flattens
<1>3. ASSUME NEW k \in Nat, k \in T PROVE k + 1 \in T
  <2> SUFFICES ASSUME (k + 1) + 1 <= n PROVE f[(k + 1) + 1] = <<>>
    OBVIOUS
  <2>1. /\ k + 2 \in 2 .. n /\ k + 2 \in 1 .. n /\ (k + 2) - 1 = k + 1 /\ (k + 1) + 1 = k + 2
        /\ f[k + 1] = <<>>
    BY <1>3
  <2>2. f[k + 2] = f[k + 1] \o s[k + 2] /\ s[k + 2] = <<>>
    BY <1>1, <2>1 DEF Flattens
  <2> QED BY <2>1, <2>2
<1> HIDE DEF T
<1>4. n - 1 \in T
  BY <1>2, <1>3, Induction
<1> QED BY <1>1, <1>4 DEF T

-----------------------------------------------------------------------------
(* What the files hold, read from the oldest backup to the log *)

\* The lines of file i, and the files in the order in which Kept reads them.
LinesOf(fs, i) == IF i \in DOMAIN fs THEN fs[i] ELSE <<>>
PieceOf(fs)    == [j \in 1 .. NumBackups + 1 |-> LinesOf(fs, NumBackups + 1 - j)]
KeptOf(fs)     == FlattenSeq(PieceOf(fs))
HoldsLines(fs) == fs \in [DOMAIN fs -> Seq(Line)]

LEMMA KeptIs == Kept = KeptOf(files) /\ Kept' = KeptOf(files')
BY DEF Kept, KeptOf, PieceOf, LinesOf, exists

LEMMA PieceType ==
    ASSUME NEW fs, HoldsLines(fs)
    PROVE  /\ PieceOf(fs) \in Pieces(Line, NumBackups + 1)
           /\ KeptOf(fs) \in Seq(Line) /\ \A i : LinesOf(fs, i) \in Seq(Line)
<1>1. NumBackups + 1 \in Nat \ {0}
  BY LogBounds
<1>2. \A i : LinesOf(fs, i) \in Seq(Line)
  BY DEF LinesOf, HoldsLines
<1>3. PieceOf(fs) \in Pieces(Line, NumBackups + 1)
  BY <1>2 DEF PieceOf, Pieces
<1>4. KeptOf(fs) \in Seq(Line)
  BY <1>1, <1>3, FlattenType DEF KeptOf
<1> QED BY <1>2, <1>3, <1>4

LEMMA PieceAt ==
    ASSUME NEW fs, NEW j \in 1 .. NumBackups + 1
    PROVE  NumBackups + 1 - j \in 0 .. NumBackups /\ PieceOf(fs)[j] = LinesOf(fs, NumBackups + 1 - j)
BY LogBounds DEF PieceOf

LEMMA PieceOfFile ==
    ASSUME NEW fs, NEW i \in 0 .. NumBackups, NEW j, j = NumBackups + 1 - i
    PROVE  j \in 1 .. NumBackups + 1 /\ PieceOf(fs)[j] = LinesOf(fs, i)
<1>1. j \in 1 .. NumBackups + 1 /\ NumBackups + 1 - j = i
  BY LogBounds
<1> QED BY <1>1 DEF PieceOf

\* No file holds other lines than before.
LEMMA KeptSame ==
    ASSUME NEW fs, NEW gs, \A i \in 0 .. NumBackups : LinesOf(gs, i) = LinesOf(fs, i)
    PROVE  KeptOf(gs) = KeptOf(fs)
<1>1. \A j \in 1 .. NumBackups + 1 : LinesOf(gs, NumBackups + 1 - j) = LinesOf(fs, NumBackups + 1 - j)
  BY PieceAt
<1>2. PieceOf(gs) = PieceOf(fs)
  BY <1>1 DEF PieceOf
<1> QED BY <1>2 DEF KeptOf

\* Only the log changes.
LEMMA KeptNewest ==
    ASSUME NEW fs, NEW gs, HoldsLines(fs), HoldsLines(gs),
           \A i \in 1 .. NumBackups : LinesOf(gs, i) = LinesOf(fs, i)
    PROVE  SameStart(Line, KeptOf(fs), LinesOf(fs, 0), KeptOf(gs), LinesOf(gs, 0))
<1> DEFINE n == NumBackups + 1
<1>1. n \in Nat \ {0} /\ 0 \in 0 .. NumBackups /\ n - 0 = n
  BY LogBounds
<1>2. PieceOf(fs)[n] = LinesOf(fs, 0) /\ PieceOf(gs)[n] = LinesOf(gs, 0)
  BY <1>1, PieceOfFile
<1>3. ASSUME NEW j \in 1 .. n, j # n PROVE PieceOf(fs)[j] = PieceOf(gs)[j]
  <2>1. j \in 1 .. NumBackups + 1 /\ NumBackups + 1 - j \in 1 .. NumBackups
    BY <1>3, LogBounds
  <2> QED BY <2>1, PieceAt
<1>4. PieceOf(fs) \in Pieces(Line, n) /\ PieceOf(gs) \in Pieces(Line, n)
  BY PieceType
<1> HIDE DEF n
<1>5. LastDiffers(PieceOf(fs), PieceOf(gs), n)
  BY <1>3 DEF LastDiffers
<1>6. SameStart(Line, FlattenSeq(PieceOf(fs)), PieceOf(fs)[n], FlattenSeq(PieceOf(gs)), PieceOf(gs)[n])
  BY <1>1, <1>4, <1>5, FlattenLast
<1> QED BY <1>2, <1>6 DEF KeptOf

\* Only the oldest backup changes, to nothing.
LEMMA KeptOldest ==
    ASSUME NEW fs, NEW gs, HoldsLines(fs), HoldsLines(gs), LinesOf(gs, NumBackups) = <<>>,
           \A i \in 0 .. NumBackups : i # NumBackups => LinesOf(gs, i) = LinesOf(fs, i)
    PROVE  KeptOf(fs) = LinesOf(fs, NumBackups) \o KeptOf(gs)
<1> DEFINE n == NumBackups + 1
<1>1. n \in Nat \ {0} /\ NumBackups \in 0 .. NumBackups /\ n - NumBackups = 1 /\ 1 \in 1 .. n
  BY LogBounds
<1>2. PieceOf(fs)[1] = LinesOf(fs, NumBackups) /\ PieceOf(gs)[1] = <<>>
  BY <1>1, PieceOfFile
<1>3. ASSUME NEW j \in 2 .. n PROVE PieceOf(fs)[j] = PieceOf(gs)[j]
  <2>1. j \in 1 .. NumBackups + 1 /\ NumBackups + 1 - j \in 0 .. NumBackups /\ NumBackups + 1 - j # NumBackups
    BY LogBounds
  <2> QED BY <2>1, PieceAt
<1>4. PieceOf(fs) \in Pieces(Line, n) /\ PieceOf(gs) \in Pieces(Line, n)
  BY PieceType
<1>5. FirstEmptied(PieceOf(fs), PieceOf(gs), n)
  BY <1>2, <1>3 DEF FirstEmptied
<1> HIDE DEF n
<1>6. FlattenSeq(PieceOf(fs)) = PieceOf(fs)[1] \o FlattenSeq(PieceOf(gs))
  BY <1>1, <1>4, <1>5, FlattenFirst
<1> QED BY <1>2, <1>6 DEF KeptOf

\* A file moves to the free number above it.
LEMMA KeptMoved ==
    ASSUME NEW fs, NEW gs, HoldsLines(fs), HoldsLines(gs), NEW k \in 1 .. NumBackups,
           LinesOf(fs, k) = <<>>, LinesOf(gs, k - 1) = <<>>, LinesOf(gs, k) = LinesOf(fs, k - 1),
           \A i \in 0 .. NumBackups : i # k /\ i # k - 1 => LinesOf(gs, i) = LinesOf(fs, i)
    PROVE  KeptOf(gs) = KeptOf(fs)
<1> DEFINE n == NumBackups + 1
           j == n - k
<1>1. /\ n \in Nat \ {0} /\ j \in 1 .. n - 1 /\ n - (k - 1) = j + 1 /\ j \in 1 .. n /\ j + 1 \in 1 .. n
      /\ k \in 0 .. NumBackups /\ k - 1 \in 0 .. NumBackups
  BY LogBounds
<1>2. /\ PieceOf(fs)[j] = LinesOf(fs, k) /\ PieceOf(gs)[j] = LinesOf(gs, k)
      /\ PieceOf(fs)[j + 1] = LinesOf(fs, k - 1) /\ PieceOf(gs)[j + 1] = LinesOf(gs, k - 1)
  <2>1. PICK b, c, d : b = k - 1 /\ c = j /\ d = j + 1
    OBVIOUS
  <2>2. b \in 0 .. NumBackups /\ d = NumBackups + 1 - b /\ c = NumBackups + 1 - k
    BY <1>1, <2>1, LogBounds
  <2>3. PieceOf(fs)[d] = LinesOf(fs, b) /\ PieceOf(gs)[d] = LinesOf(gs, b)
    BY <2>2, PieceOfFile
  <2>4. PieceOf(fs)[c] = LinesOf(fs, k) /\ PieceOf(gs)[c] = LinesOf(gs, k)
    BY <1>1, <2>2, PieceOfFile
  <2> QED BY <2>1, <2>3, <2>4
<1>3. ASSUME NEW i \in 1 .. n, i # j, i # j + 1 PROVE PieceOf(fs)[i] = PieceOf(gs)[i]
  <2>1. /\ i \in 1 .. NumBackups + 1 /\ NumBackups + 1 - i \in 0 .. NumBackups
        /\ NumBackups + 1 - i # k /\ NumBackups + 1 - i # k - 1
    BY <1>3, LogBounds
  <2> QED BY <2>1, PieceAt
<1>4. PieceOf(fs) \in Pieces(Line, n) /\ PieceOf(gs) \in Pieces(Line, n)
  BY PieceType
<1> HIDE DEF n, j
<1>5. Moved(PieceOf(fs), PieceOf(gs), n, j)
  BY <1>2, <1>3 DEF Moved
<1> QED BY <1>1, <1>4, <1>5, FlattenMoved DEF KeptOf

\* No file holds a line.
LEMMA KeptEmpty ==
    ASSUME NEW fs, HoldsLines(fs), \A i \in 0 .. NumBackups : LinesOf(fs, i) = <<>>
    PROVE  KeptOf(fs) = <<>>
<1> DEFINE n == NumBackups + 1
<1>1. n \in Nat \ {0}
  BY LogBounds
<1>2. \A j \in 1 .. n : PieceOf(fs)[j] = <<>>
  BY PieceAt
<1>3. PieceOf(fs) \in Pieces(Line, n)
  BY PieceType
<1> HIDE DEF n
<1> QED BY <1>1, <1>2, <1>3, FlattenEmpty DEF KeptOf

-----------------------------------------------------------------------------
(* The log implements LogStore *)

\* rotateLogs moves a file only onto a free number: the one it has just removed, or the
\* one it has just moved away.  After a rotation that went through, the log itself is
\* gone, or there are no backups.
FreeNumber ==
    /\ Rotating /\ (rot.op = "rename" \/ rot.i < NumBackups) => ~exists(rot.i)
    /\ logPc = "open" /\ rotateOk => NumBackups = 0 \/ ~exists(0)

LEMMA NextFreeNumber ==
    ASSUME LogType, Threads, FreeNumber, [Next]_vars
    PROVE  FreeNumber'
<1>0. /\ rot.i \in 0 .. NumBackups /\ rot.op \in {"remove", "rename"} /\ NumBackups \in Nat
      /\ files \in [DOMAIN files -> Seq(Line)]
  BY LogBounds DEF LogType
<1>00. /\ logPc # "none" => mainPc \notin {"init", "rotate", "open", "start", "stopped"}
       /\ mainPc \notin {"init", "rotate", "open", "start", "stopped"} => logPc # "none"
  BY DEF Threads
<1> USE DEF exists, Rotating, logVars, fileVars
<1>1. CASE RemoveBackup
  <2>1. /\ files' = [k \in DOMAIN files \ {rot.i} |-> files[k]]
        /\ rot' = [rot EXCEPT !.op = "rename"] /\ UNCHANGED <<mainPc, logPc>> /\ logPc # "open"
    BY <1>00, <1>1 DEF RemoveBackup, Restrict
  <2>2. rot'.i = rot.i /\ DOMAIN files' = DOMAIN files \ {rot.i}
    BY <2>1 DEF LogType
  <2> QED BY <2>1, <2>2 DEF FreeNumber
<1>2. CASE RenamePrevious
  <2>1. /\ Rotating /\ rot.i > 0 /\ rot.op = "rename" /\ rot' = [i |-> rot.i - 1, op |-> "remove"]
        /\ UNCHANGED <<mainPc, logPc>> /\ logPc # "open"
    BY <1>00, <1>2 DEF RenamePrevious
  <2>2. rot.i - 1 \notin DOMAIN files'
    <3>1. CASE rot.i - 1 \in DOMAIN files
      <4>1. DOMAIN files' = (DOMAIN files \ {rot.i - 1}) \cup {rot.i}
        BY <1>2, <3>1 DEF RenamePrevious
      <4> QED BY <1>0, <4>1
    <3>2. CASE rot.i - 1 \notin DOMAIN files
      BY <1>2, <3>2 DEF RenamePrevious
    <3> QED BY <3>1, <3>2
  <2> QED BY <2>1, <2>2 DEF FreeNumber
<1>3. CASE RotateFails \/ RotateDone
  <2>1. Rotating /\ UNCHANGED <<files, rot>> /\ ~Rotating'
    BY <1>00, <1>3 DEF RotateFails, RotateDone, Rotated
  <2>2. CASE logPc' = "open" /\ rotateOk'
    <3>1. RotateDone /\ rot.i = 0
      BY <1>00, <1>3, <2>2 DEF RotateFails, RotateDone, Rotated
    <3> QED BY <1>0, <2>1, <3>1 DEF FreeNumber
  <2> QED BY <2>1, <2>2 DEF FreeNumber
<1>4. CASE OpenLog \/ FileSize
  <2>1. \/ rot' = [i |-> NumBackups, op |-> "remove"] /\ logPc' # "open"
        \/ logPc' = "append" /\ UNCHANGED <<mainPc, rot>> /\ mainPc # "rotate"
    BY <1>00, <1>4 DEF OpenLog, FileSize, StartRotation
  <2> QED BY <1>0, <2>1 DEF FreeNumber
<1>5. CASE OpenForAppending \/ OpenNew \/ start \/ Join \/ ProcessEnds \/ FileSizeThrows
           \/ TestRunning \/ PopNothing \/ Pop \/ Quit \/ WriteNote \/ WriteLine
  <2>1. ~Rotating' /\ logPc' # "open"
    BY <1>00, <1>5 DEF OpenForAppending, OpenNew, start, Join, ProcessEnds, FileSizeThrows, NewProcess,
                       TestRunning, PopNothing, Pop, Quit, WriteNote, WriteLine
  <2> QED BY <2>1 DEF FreeNumber
<1>6. CASE stop
  <2>1. UNCHANGED <<files, rot, logPc, rotateOk>> /\ mainPc' = "join"
    BY <1>6 DEF stop
  <2> QED BY <2>1 DEF FreeNumber
<1>7. CASE \/ \E p \in Producer : LogMsg(p) \/ EndLogMsg(p)
           \/ Wait \/ Timeout \/ UNCHANGED vars
  <2>1. UNCHANGED <<files, rot, logPc, rotateOk, mainPc>>
    BY <1>7 DEF LogMsg, EndLogMsg, Wait, Timeout, vars
  <2> QED BY <2>1 DEF FreeNumber
<1> QED BY <1>1, <1>2, <1>3, <1>4, <1>5, <1>6, <1>7 DEF Next, RotateStep, MainStep, LoggerStep

\* The refinement mapping.
Pending == (IF msg # 0 THEN <<msg>> ELSE <<>>) \o queue
Unsaid  == logPc = "append" /\ ~rotateOk

\* Neither what waits nor the note changes.
Waits == Pending' = Pending /\ Unsaid' = Unsaid

LEMMA WaitsIf ==
    ASSUME UNCHANGED <<queue, msg>>,
           \/ UNCHANGED <<logPc, rotateOk>>
           \/ (logPc # "append" \/ rotateOk) /\ (logPc' # "append" \/ rotateOk')
    PROVE  Waits
<1>1. Pending' = Pending
  BY DEF Pending
<1>2. CASE UNCHANGED <<logPc, rotateOk>>
  BY <1>1, <1>2 DEF Waits, Unsaid
<1>3. CASE (logPc # "append" \/ rotateOk) /\ (logPc' # "append" \/ rotateOk')
  <2>1. Unsaid = FALSE /\ Unsaid' = FALSE
    BY <1>3, Zenon DEF Unsaid
  <2> QED BY <1>1, <2>1 DEF Waits
<1> QED BY <1>2, <1>3

LEMMA RotationWaits ==
    ASSUME LogType, Threads, RotateStep
    PROVE  Waits
<1>1. UNCHANGED <<queue, msg>>
  BY DEF RotateStep, RemoveBackup, RenamePrevious, RotateFails, RotateDone, queueVars, logVars
<1>2. Rotating => logPc # "append"
  BY DEF Rotating, Threads
<1>3. \/ UNCHANGED <<logPc, rotateOk>>
      \/ logPc # "append" /\ logPc' # "append"
  BY <1>2 DEF RotateStep, RemoveBackup, RenamePrevious, RotateFails, RotateDone, Rotated, logVars
<1> QED BY <1>1, <1>3, WaitsIf

LEMMA KeptTyped ==
    ASSUME LogType, LogType'
    PROVE  /\ HoldsLines(files) /\ HoldsLines(files')
           /\ Kept \in Seq(Line) /\ Kept' \in Seq(Line)
<1>1. HoldsLines(files) /\ HoldsLines(files')
  BY DEF LogType, HoldsLines
<1> QED BY <1>1, KeptIs, PieceType

\* Lines were lost at the old end, or none.
Forgets == \E k \in 1 .. Len(Kept) : Kept' = SubSeq(Kept, k + 1, Len(Kept))

LEMMA DroppedPrefix ==
    ASSUME NEW S, NEW u \in Seq(S), NEW v \in Seq(S)
    PROVE  /\ SubSeq(u \o v, Len(u) + 1, Len(u \o v)) = v
           /\ SubSeq(u \o v, 1, Len(u)) = u /\ Len(u \o v) = Len(u) + Len(v)
<1>1. u \o v \in Seq(S) /\ Len(u \o v) = Len(u) + Len(v) /\ Len(u) \in Nat /\ Len(v) \in Nat
  BY ConcatProperties, LenProperties
<1> DEFINE x == SubSeq(u \o v, Len(u) + 1, Len(u) + Len(v))
           y == SubSeq(u \o v, 1, Len(u))
<1>2. Len(x) = Len(v) /\ x \in Seq(S) /\ \A i \in 1 .. Len(v) : x[i] = v[i]
  BY <1>1
<1>3. x = v
  BY <1>2, SeqEqual
<1>4. Len(y) = Len(u) /\ y \in Seq(S) /\ \A i \in 1 .. Len(u) : y[i] = u[i]
  BY <1>1
<1>5. y = u
  BY <1>4, SeqEqual
<1> QED BY <1>1, <1>3, <1>5

LEMMA RemoveForgets ==
    ASSUME LogType, LogType', FreeNumber, RemoveBackup
    PROVE  Kept' = Kept \/ Forgets
<1>0. /\ rot.i \in 1 .. NumBackups /\ NumBackups \in Nat /\ Rotating
      /\ files' = [k \in DOMAIN files \ {rot.i} |-> files[k]]
  BY LogBounds DEF LogType, RemoveBackup, Restrict
<1>1. LinesOf(files', rot.i) = <<>> /\ \A i : i # rot.i => LinesOf(files', i) = LinesOf(files, i)
  BY <1>0 DEF LinesOf
<1>2. CASE rot.i < NumBackups
  <2>1. LinesOf(files, rot.i) = <<>>
    BY <1>0, <1>2 DEF FreeNumber, LinesOf, exists
  <2> QED BY <1>1, <2>1, KeptSame, KeptIs
<1>3. CASE rot.i = NumBackups
  <2> DEFINE u == LinesOf(files, NumBackups)
  <2>1. u \in Seq(Line) /\ Kept = u \o Kept' /\ Kept' \in Seq(Line)
    BY <1>1, <1>3, KeptTyped, KeptOldest, KeptIs, PieceType
  <2> HIDE DEF u
  <2>2. CASE u = <<>>
    BY <2>1, <2>2, ConcatEmptySeq
  <2>3. CASE u # <<>>
    <3>1. Len(u) \in 1 .. Len(Kept) /\ Kept' = SubSeq(Kept, Len(u) + 1, Len(Kept))
      BY <2>1, <2>3, DroppedPrefix, EmptySeq, LenProperties
    <3> QED BY <3>1 DEF Forgets
  <2> QED BY <2>2, <2>3
<1> QED BY <1>0, <1>2, <1>3

LEMMA RenameKeeps ==
    ASSUME LogType, LogType', FreeNumber, RenamePrevious
    PROVE  Kept' = Kept
<1>1. CASE files' = files
  BY <1>1, KeptIs
<1>2. CASE rot.i - 1 \in DOMAIN files
  <2>1. PICK n : n = rot.i
    OBVIOUS
  <2>2. n \in 1 .. NumBackups /\ n \notin DOMAIN files /\ n \in Nat /\ n - 1 # n
    BY <2>1, LogBounds DEF LogType, RenamePrevious, FreeNumber, exists
  <2>3. files' = [k \in (DOMAIN files \ {n - 1}) \cup {n} |-> IF k = n THEN files[n - 1] ELSE files[k]]
    BY <1>2, <2>1 DEF RenamePrevious, exists
  <2>4. /\ LinesOf(files, n) = <<>> /\ LinesOf(files', n) = LinesOf(files, n - 1)
        /\ LinesOf(files', n - 1) = <<>>
    BY <1>2, <2>1, <2>2, <2>3 DEF LinesOf
  <2>5. ASSUME NEW i, i # n, i # n - 1 PROVE LinesOf(files', i) = LinesOf(files, i)
    BY <2>3, <2>5 DEF LinesOf
  <2> QED BY <2>2, <2>4, <2>5, KeptMoved, KeptTyped, KeptIs
<1> QED BY <1>1, <1>2 DEF RenamePrevious, exists

LEMMA AppendConcat ==
    ASSUME NEW S, NEW u \in Seq(S), NEW v \in Seq(S), NEW x \in S
    PROVE  u \o Append(v, x) = Append(u \o v, x)
<1>1. u \o v \in Seq(S) /\ Append(v, x) \in Seq(S) /\ Append(u \o v, x) \in Seq(S)
  BY ConcatProperties, AppendProperties
<1>2. Append(v, x) = v \o <<x>> /\ Append(u \o v, x) = (u \o v) \o <<x>> /\ <<x>> \in Seq(S)
  BY <1>1, AppendIsConcat
<1> QED BY <1>2, ConcatAssociative

\* Opening the log changes nothing but the log, and leaves it as it was or empty.
LEMMA OpenKeeps ==
    ASSUME LogType, LogType', NEW append, openFile(append)
    PROVE  /\ Kept' = Kept \/ \E k \in 0 .. Len(Kept) : Kept' = SubSeq(Kept, 1, k)
           /\ append \/ ~exists(0) => Kept' = Kept
           /\ NumBackups = 0 => Kept' = Kept \/ Kept' = <<>>
<1>1. CASE files' = files
  BY <1>1, KeptIs
<1>2. CASE files' = [k \in DOMAIN files \cup {0} |-> IF k = 0 THEN <<>> ELSE files[k]]
           /\ ~(append /\ exists(0))
  <2>1. LinesOf(files', 0) = <<>> /\ \A i : i # 0 => LinesOf(files', i) = LinesOf(files, i)
    BY <1>2 DEF LinesOf
  <2>2. PICK u \in Seq(Line) : Kept = u \o LinesOf(files, 0) /\ Kept' = u \o <<>>
    <3>1. \A i \in 1 .. NumBackups : LinesOf(files', i) = LinesOf(files, i)
      BY <2>1
    <3>2. SameStart(Line, Kept, LinesOf(files, 0), Kept', LinesOf(files', 0))
      BY <3>1, KeptNewest, KeptTyped, KeptIs
    <3> QED BY <2>1, <3>2 DEF SameStart
  <2>3. Kept' = u /\ LinesOf(files, 0) \in Seq(Line)
    BY <2>2, ConcatEmptySeq, KeptTyped, PieceType
  <2>4. Len(u) \in 0 .. Len(Kept) /\ Kept' = SubSeq(Kept, 1, Len(u))
    BY <2>2, <2>3, DroppedPrefix, LenProperties
  <2>5. ~exists(0) => Kept' = Kept
    <3>1. ~exists(0) => LinesOf(files, 0) = <<>>
      BY DEF LinesOf, exists
    <3> QED BY <2>2, <3>1
  <2>6. NumBackups = 0 => Kept' = <<>>
    <3> SUFFICES ASSUME NumBackups = 0 PROVE Kept' = <<>>
      OBVIOUS
    <3>1. \A i \in 0 .. NumBackups : LinesOf(files', i) = <<>>
      BY <2>1
    <3> QED BY <3>1, KeptEmpty, KeptTyped, KeptIs
  <2> QED BY <1>2, <2>4, <2>5, <2>6
<1> QED BY <1>1, <1>2 DEF openFile

LEMMA OpenNewCuts ==
    ASSUME LogType, LogType', FreeNumber, OpenNew
    PROVE  /\ Pending' = Pending
           /\ \/ Unsaid' = Unsaid /\ (Kept' = Kept \/ Forgets)
              \/ Unsaid' = TRUE /\ \E k \in 0 .. Len(Kept) : Kept' = SubSeq(Kept, 1, k)
<1>0. /\ openFile(FALSE) /\ UNCHANGED <<queue, msg, rotateOk>> /\ logPc = "open" /\ logPc' = "append"
      /\ Kept \in Seq(Line)
  BY KeptTyped DEF OpenNew, queueVars
<1>1. Pending' = Pending
  BY <1>0 DEF Pending
<1>2. CASE rotateOk
  <2>1. Waits
    BY <1>0, <1>2, WaitsIf
  <2>2. Kept' = Kept \/ (NumBackups = 0 /\ Kept' = <<>>)
    BY <1>0, <1>2, OpenKeeps DEF FreeNumber
  <2>3. CASE Kept' = <<>> /\ Kept # <<>>
    <3>1. Len(Kept) \in 1 .. Len(Kept) /\ SubSeq(Kept, Len(Kept) + 1, Len(Kept)) = <<>>
      BY <1>0, <2>3, EmptySeq, LenProperties
    <3> QED BY <1>1, <2>1, <2>3, <3>1 DEF Forgets, Waits
  <2> QED BY <1>1, <2>1, <2>2, <2>3 DEF Waits
<1>3. CASE ~rotateOk
  <2>1. Unsaid' = TRUE
    BY <1>0, <1>3, Zenon DEF Unsaid
  <2>2. Len(Kept) \in 0 .. Len(Kept) /\ SubSeq(Kept, 1, Len(Kept)) = Kept
    <3>1. Len(Kept) \in Nat
      BY <1>0
    <3>2. SubSeq(Kept \o <<>>, 1, Len(Kept)) = Kept
      BY <1>0, DroppedPrefix
    <3> QED BY <1>0, <3>1, <3>2, ConcatEmptySeq
  <2> QED BY <1>0, <1>1, <2>1, <2>2, OpenKeeps
<1> QED BY <1>2, <1>3

LEMMA ExtendKeeps ==
    ASSUME LogType, LogType', NEW x \in Line, Extended(x)
    PROVE  Kept' = Append(Kept, x)
<1>1. /\ LinesOf(files', 0) = Append(LinesOf(files, 0), x)
      /\ \A i : i # 0 => LinesOf(files', i) = LinesOf(files, i)
  BY DEF LinesOf, Extended
<1>2. PICK u \in Seq(Line) : Kept = u \o LinesOf(files, 0) /\ Kept' = u \o Append(LinesOf(files, 0), x)
  <2>1. \A i \in 1 .. NumBackups : LinesOf(files', i) = LinesOf(files, i)
    BY <1>1
  <2>2. SameStart(Line, Kept, LinesOf(files, 0), Kept', LinesOf(files', 0))
    BY <2>1, KeptNewest, KeptTyped, KeptIs
  <2> QED BY <1>1, <2>2 DEF SameStart
<1>3. LinesOf(files, 0) \in Seq(Line)
  BY KeptTyped, PieceType
<1> QED BY <1>2, <1>3, AppendConcat

\* A message that passes the filter joins what waits.
LEMMA EndLogMsgAccepts ==
    ASSUME LogType, NEW p \in Producer, EndLogMsg(p)
    PROVE  /\ Unsaid' = Unsaid
           /\ Pending' = Pending \/ \E m \in Message : Pending' = Append(Pending, m)
<1>0. /\ UNCHANGED <<logPc, rotateOk, msg>> /\ queue \in Seq(Message) /\ msg \in Line
      /\ queue' = queue \/ queue' = Append(queue, logging[p].number)
  BY DEF EndLogMsg, push, logVars, queueVars, LogType
<1>1. logging[p].number \in Message
  BY LogBounds DEF EndLogMsg, LogType, Line, Message
<1>2. Unsaid' = Unsaid
  BY <1>0 DEF Unsaid
<1>3. CASE queue' = queue
  BY <1>0, <1>2, <1>3 DEF Pending
<1>4. CASE queue' = Append(queue, logging[p].number)
  <2>1. (IF msg # 0 THEN <<msg>> ELSE <<>>) \in Seq(Message)
    <3>1. msg # 0 => msg \in Message
      BY <1>0, LogBounds DEF Line, Message
    <3> QED BY <3>1
  <2>2. Pending' = Append(Pending, logging[p].number)
    BY <1>0, <1>1, <1>4, <2>1, AppendConcat DEF Pending
  <2> QED BY <1>1, <1>2, <2>2
<1> QED BY <1>0, <1>3, <1>4

\* The logging thread takes a message: it still waits to be written.
LEMMA PopWaits ==
    ASSUME LogType, Threads, Pop
    PROVE  Waits
<1>0. /\ queue \in Seq(Message) /\ queue # <<>> /\ msg' = Head(queue) /\ queue' = Tail(queue)
      /\ logPc \in {"pop", "test"} /\ logPc' = "size"
  BY DEF Pop, LogType
<1>1. msg = 0
  BY <1>0 DEF Threads
<1>2. msg' # 0 /\ Head(queue) \in Message
  <2>1. Head(queue) \in Message
    BY <1>0
  <2> QED BY <1>0, <2>1 DEF Message
<1>3. <<Head(queue)>> \o Tail(queue) = queue
  <2>1. queue = <<Head(queue)>> \o Tail(queue)
    BY <1>0
  <2> QED BY <2>1
<1>4. Pending' = queue /\ Pending = queue
  BY <1>0, <1>1, <1>2, <1>3, ConcatEmptySeq DEF Pending
<1>5. Unsaid = FALSE /\ Unsaid' = FALSE
  BY <1>0, Zenon DEF Unsaid
<1> QED BY <1>4, <1>5 DEF Waits

LEMMA WriteLineWrites ==
    ASSUME LogType, LogType', Threads, Stream, WriteLine
    PROVE  /\ Pending # <<>> /\ Pending' = Tail(Pending) /\ Unsaid' = FALSE
           /\ \/ Unsaid = FALSE /\ Kept' = Append(Kept, Head(Pending))
              \/ Kept' = Kept
<1>0. /\ queue \in Seq(Message) /\ queue' = queue /\ msg' = 0 /\ logPc' = "test"
      /\ msg # 0 /\ msg \in Line /\ msg \in Message
  <2>1. msg # 0 /\ msg \in Line
    BY DEF WriteLine, Threads, LogType
  <2> QED BY <2>1, LogBounds DEF WriteLine, LogType, queueVars, Line, Message
<1>1. Pending = <<msg>> \o queue /\ Pending' = queue
  BY <1>0, ConcatEmptySeq DEF Pending
<1>2. Pending # <<>> /\ Head(Pending) = msg /\ Tail(Pending) = queue
  BY <1>0, <1>1
<1>3. Unsaid' = FALSE
  BY <1>0, Zenon DEF Unsaid
<1>4. CASE UNCHANGED files
  BY <1>1, <1>2, <1>3, <1>4, KeptIs
<1>5. CASE m_log = "open" /\ rotateOk /\ files' = [files EXCEPT ![0] = Append(files[0], msg)]
  <2>1. Unsaid = FALSE
    BY <1>5, Zenon DEF Unsaid
  <2>2. Extended(msg)
    BY <1>0, <1>5, ExtendFacts DEF Stream, exists
  <2>3. Kept' = Append(Kept, msg)
    BY <1>0, <2>2, ExtendKeeps
  <2> QED BY <1>1, <1>2, <1>3, <2>1, <2>3
<1> QED BY <1>4, <1>5 DEF WriteLine

LEMMA WriteNoteSays ==
    ASSUME LogType, LogType', Stream, WriteNote
    PROVE  Unsaid = TRUE /\ Unsaid' = FALSE /\ Pending' = Pending /\ Kept' = Append(Kept, Note)
<1>1. /\ 0 \in DOMAIN files /\ files' = [files EXCEPT ![0] = Append(files[0], Note)]
      /\ UNCHANGED <<queue, msg, logPc>> /\ logPc = "append" /\ ~rotateOk /\ rotateOk' = TRUE
  BY DEF WriteNote, Stream, exists, queueVars
<1>2. Note \in Line
  BY LogBounds DEF Note, Line
<1>3. Kept' = Append(Kept, Note)
  BY <1>1, <1>2, ExtendFacts, ExtendKeeps
<1>4. Unsaid = TRUE /\ Unsaid' = FALSE
  BY <1>1, Zenon DEF Unsaid
<1> QED BY <1>1, <1>3, <1>4 DEF Pending

\* What waits is lost when the process ends, and with it the note; the files stay.
LEMMA EndLoses ==
    ASSUME ProcessEnds \/ FileSizeThrows
    PROVE  Pending' = <<>> /\ Unsaid' = FALSE /\ Kept' = Kept
<1>1. queue' = <<>> /\ msg' = 0 /\ logPc' = "none" /\ files' = files
  BY DEF ProcessEnds, FileSizeThrows, NewProcess
<1>2. Unsaid' = FALSE
  BY <1>1, Zenon DEF Unsaid
<1>3. Pending' = <<>> \o <<>>
  BY <1>1 DEF Pending
<1> QED BY <1>1, <1>2, <1>3, KeptIs

\* The other steps of the threads leave the files alone.
LEMMA OtherSteps ==
    ASSUME LogType, Threads, HasRoom,
           \/ \E p \in Producer : LogMsg(p)
           \/ OpenLog \/ start \/ stop \/ Join
           \/ TestRunning \/ Wait \/ PopNothing \/ Quit \/ FileSize \/ Timeout \/ UNCHANGED vars
    PROVE  Waits /\ Kept' = Kept
<1>1. UNCHANGED <<queue, msg, files>>
  BY DEF LogMsg, OpenLog, start, stop, Join, TestRunning, Wait, PopNothing, Quit, FileSize, Timeout,
         vars, queueVars, logVars, fileVars
<1>2. \/ UNCHANGED <<logPc, rotateOk>>
      \/ logPc # "append" /\ (logPc' # "append" \/ rotateOk')
  BY DEF LogMsg, OpenLog, start, stop, Join, TestRunning, Wait, PopNothing, Quit, FileSize, Timeout,
         vars, logVars, Threads, HasRoom
<1>3. Kept' = Kept
  BY <1>1, KeptIs
<1> QED BY <1>1, <1>2, <1>3, WaitsIf

LEMMA StoreStep ==
    ASSUME LogType, LogType', Threads, Stream, HasRoom, FreeNumber, [Next]_vars
    PROVE  [Store!Next]_(Store!vars)
<1> USE DEF Store!Next
<1>0. Waits /\ Kept' = Kept => UNCHANGED Store!vars
  BY DEF Store!vars, Waits, Pending, Unsaid
<1>1. Waits /\ Forgets => Store!Forget
  BY DEF Store!Forget, Waits, Forgets, Pending, Unsaid
<1>2. ASSUME NEW p \in Producer, EndLogMsg(p) PROVE [Store!Next]_(Store!vars)
  <2>1. Kept' = Kept
    BY <1>2, KeptIs DEF EndLogMsg, fileVars
  <2>2. CASE Pending' = Pending
    BY <1>0, <1>2, <2>1, <2>2, EndLogMsgAccepts DEF Waits
  <2>3. CASE \E m \in Message : Pending' = Append(Pending, m)
    <3>1. Store!Accept
      BY <1>2, <2>1, <2>3, EndLogMsgAccepts DEF Store!Accept, Pending, Unsaid
    <3> QED BY <3>1
  <2> QED BY <1>2, <2>2, <2>3, EndLogMsgAccepts
<1>3. CASE RemoveBackup
  BY <1>0, <1>1, <1>3, RemoveForgets, RotationWaits DEF RotateStep
<1>4. CASE RenamePrevious
  BY <1>0, <1>4, RenameKeeps, RotationWaits DEF RotateStep
<1>5. CASE RotateFails \/ RotateDone
  <2>1. Kept' = Kept
    BY <1>5, KeptIs DEF RotateFails, RotateDone, fileVars
  <2> QED BY <1>0, <1>5, <2>1, RotationWaits DEF RotateStep
<1>6. CASE OpenForAppending
  <2>1. openFile(TRUE) /\ UNCHANGED <<queue, msg, logPc, rotateOk>>
    BY <1>6 DEF OpenForAppending, queueVars, logVars
  <2>2. Waits
    BY <2>1, WaitsIf
  <2> QED BY <1>0, <2>1, <2>2, OpenKeeps
<1>7. CASE OpenNew
  <2>1. CASE Unsaid' = Unsaid /\ (Kept' = Kept \/ Forgets)
    BY <1>0, <1>1, <1>7, <2>1, OpenNewCuts DEF Waits
  <2>2. CASE Unsaid' = TRUE /\ \E k \in 0 .. Len(Kept) : Kept' = SubSeq(Kept, 1, k)
    <3>1. Store!Cut
      BY <1>7, <2>2, OpenNewCuts DEF Store!Cut, Pending, Unsaid
    <3> QED BY <3>1
  <2> QED BY <1>7, <2>1, <2>2, OpenNewCuts
<1>8. CASE WriteNote
  <2>1. Store!SayCut
    BY <1>8, WriteNoteSays DEF Store!SayCut, Pending, Unsaid
  <2> QED BY <2>1
<1>9. CASE WriteLine
  <2>1. CASE Unsaid = FALSE /\ Kept' = Append(Kept, Head(Pending))
    <3>1. Store!Write
      BY <1>9, <2>1, WriteLineWrites DEF Store!Write, Pending, Unsaid
    <3> QED BY <3>1
  <2>2. CASE Kept' = Kept
    <3>1. Store!Drop
      BY <1>9, <2>2, WriteLineWrites DEF Store!Drop, Pending, Unsaid
    <3> QED BY <3>1
  <2> QED BY <1>9, <2>1, <2>2, WriteLineWrites
<1>10. CASE ProcessEnds \/ FileSizeThrows
  <2>1. Store!ProcessEnds
    BY <1>10, EndLoses DEF Store!ProcessEnds, Pending, Unsaid
  <2> QED BY <2>1
<1>11. CASE Pop
  <2>1. Kept' = Kept
    BY <1>11, KeptIs DEF Pop, fileVars
  <2> QED BY <1>0, <1>11, <2>1, PopWaits
<1>12. CASE \/ \E p \in Producer : LogMsg(p)
            \/ OpenLog \/ start \/ stop \/ Join
            \/ TestRunning \/ Wait \/ PopNothing \/ Quit \/ FileSize \/ Timeout \/ UNCHANGED vars
  BY <1>0, <1>12, OtherSteps
<1> QED BY <1>2, <1>3, <1>4, <1>5, <1>6, <1>7, <1>8, <1>9, <1>10, <1>11, <1>12
     DEF Next, RotateStep, MainStep, LoggerStep

LEMMA StoreInit == Init => Store!Init
<1> SUFFICES ASSUME Init PROVE Store!Init
  OBVIOUS
<1>1. queue = <<>> /\ msg = 0 /\ logPc = "none" /\ files = <<>>
  BY DEF Init, NoProcess
<1>2. HoldsLines(files) /\ \A i : LinesOf(files, i) = <<>>
  BY <1>1 DEF HoldsLines, LinesOf
<1>3. Kept = <<>>
  BY <1>2, KeptEmpty, KeptIs
<1>4. Unsaid = FALSE
  BY <1>1, Zenon DEF Unsaid
<1>5. Pending = <<>>
  BY <1>1 DEF Pending
<1> QED BY <1>3, <1>4, <1>5 DEF Store!Init, Pending, Unsaid

\* The queue, the logging thread and the files implement LogStore: however the rotations
\* fail and wherever the process ends, lines are lost only at the old end of what the
\* files hold, or at its new end with the note in their place.
THEOREM LoggerIsLogStore == Spec => IsLogStore
<1>1. Init => FreeNumber
  BY DEF Init, NoProcess, FreeNumber, Rotating
<1>2. LogInv /\ FreeNumber /\ [Next]_vars => FreeNumber'
  BY NextFreeNumber DEF LogInv
<1>3. LogInv /\ LogInv' /\ FreeNumber /\ [Next]_vars => [Store!Next]_(Store!vars)
  BY StoreStep DEF LogInv
<1> QED BY InitLog, NextLog, StoreInit, <1>1, <1>2, <1>3, PTL DEF Spec, IsLogStore, Store!Spec

=============================================================================
