------------------------- MODULE ClientManagerProofs -------------------------
(***************************************************************************)
(* Proofs about ClientManager, for every set of clients, every number of   *)
(* retries, every size of the sequence number space above 1.               *)
(***************************************************************************)
EXTENDS ClientManager, TLAPS

USE DEF IsRunning, Dispatching

LEMMA NextSeqType == \A s \in Seqs : NextSeq(s) \in Seqs
BY BoundAssumption DEF NextSeq, Seqs

LEMMA NullTypes == NullCommand \in Command /\ NoFrame \in Frame
BY BoundAssumption DEF NullCommand, NoFrame, Command, Frame, ClientOrNull, Seqs

LEMMA AsCurrentType == \A c \in Command : AsCurrent(c) \in Current
BY BoundAssumption DEF AsCurrent, Command, Current, ClientOrNull, Results, Seqs

\* A non-empty queue has a head of its type, and a tail.
LEMMA HeadTail ==
    ASSUME NEW S, NEW s \in Seq(S), s # <<>>
    PROVE  Head(s) \in S /\ Tail(s) \in Seq(S)
OBVIOUS

LEMMA WriteType ==
    ASSUME out \in [Client -> Seq(Message)], NEW c \in Client, NEW m \in Message
    PROVE  Write(c, m) \in [Client -> Seq(Message)]
BY DEF Write

LEMMA AnswerType ==
    \A i \in Nat, k \in {"relay", "timeout", "local", "notif"} : Answer(k, i) \in Message
BY DEF Answer, Message

LEMMA UnionType ==
    ASSUME newParams \in [Client -> SUBSET Flags], NEW cs \in SUBSET Client
    PROVE  UnionOf(cs) \subseteq Flags
BY DEF UnionOf

-----------------------------------------------------------------------------
(* Type correctness *)

LEMMA InitType == Init => TypeOK
<1> SUFFICES ASSUME Init PROVE TypeOK
  OBVIOUS
<1>1. current \in Current /\ cmd \in Command /\ frame \in Frame
  BY NullTypes, AsCurrentType DEF Init
<1>2. seqNo \in Seqs /\ built \in Seqs
  BY BoundAssumption DEF Init, Seqs
<1>3. reset \in [ResetThreads -> {"none", "stop", "close", "empty", "io"}]
  BY DEF Init
<1>4. conn \in [Client -> ConnStates] /\ out \in [Client -> Seq(Message)]
  BY DEF Init, ConnStates
<1>5. params \in [Client -> SUBSET Flags] /\ newParams \in [Client -> SUBSET Flags]
      /\ inTxn \in [Client -> BOOLEAN]
  BY DEF Init
<1> QED
  <2>1. trouble \subseteq {"timeout", "disconnect", "removed", "misrouted", "null", "refused"}
    BY DEF Init
  <2>2. queue \in Seq(Command) /\ toMgr \in Seq(Frame) /\ fromMgr \in Seq(Frame)
    BY DEF Init
  <2>3. cmdResult \in Results /\ ioClient \in ClientOrNull
    BY DEF Init, Results, ClientOrNull
  <2> QED BY <1>1, <1>2, <1>3, <1>4, <1>5, <2>1, <2>2, <2>3 DEF Init, TypeOK

LEMMA NextType == TypeOK /\ [Next]_vars => TypeOK'
<1> SUFFICES ASSUME TypeOK, [Next]_vars PROVE TypeOK'
  OBVIOUS
<1> USE DEF TypeOK, vars, listVars, linkVars, ctlVars, logVars, clientVars, subVars,
            filterVars, pushVars, cmdVars, picVars, ioVars, stopVars, mgrVars
<1>1. ASSUME NEW c \in Client, AddClient(c) PROVE TypeOK'
  BY <1>1 DEF AddClient, ConnStates
<1>2. ASSUME NEW c \in Client, NEW r \in Request, HandleCommand(c, r) PROVE TypeOK'
  <2>1. [client |-> c, type |-> r.type, data |-> r.data, short |-> r.short,
         id |-> nextId] \in Command
    BY RequestAssumption DEF Command, ClientOrNull
  <2> QED BY <1>2, <2>1 DEF HandleCommand
<1>3. ASSUME NEW c \in Client, ReadError(c) PROVE TypeOK'
  BY <1>3 DEF ReadError, ConnStates, ClientOrNull
<1>4. CASE Mark
  <2>1. current' \in Current
    BY <1>4 DEF Mark, Current, Results
  <2> QED BY <1>4, <2>1 DEF Mark
<1>5. CASE Erase
  <2>1. UnionOf(clients \ {ioClient}) \subseteq Flags
    BY UnionType
  <2>2. ioUnion' \subseteq Flags
    BY <1>5, <2>1 DEF Erase
  <2>3. lock' \in {"free", "io"} \cup ResetThreads
        /\ ioPc' \in {"idle", "mark", "erase", "store", "push"}
    BY <1>5 DEF Erase
  <2>4. ioClient' \in ClientOrNull
    BY <1>5 DEF Erase, ClientOrNull
  <2>5. clients' \subseteq Client
        /\ trouble' \subseteq {"timeout", "disconnect", "removed", "misrouted", "null", "refused"}
    BY <1>5 DEF Erase
  <2>6. UNCHANGED <<conn, subVars, filterVars, pushVars, current, cmdVars, linkVars,
                    stopVars, out>>
    BY <1>5 DEF Erase
  <2> QED BY <2>2, <2>3, <2>4, <2>5, <2>6
<1>6. CASE IoStore
  BY <1>6 DEF IoStore, ClientOrNull
<1>7. CASE IoPush
  <2>1. [client |-> NoClient, type |-> "SUBSCRIBE", data |-> filterUnion,
         short |-> FALSE, id |-> nextId] \in Command
    BY DEF Command, ClientOrNull, Types
  <2> QED BY <1>7, <2>1 DEF IoPush, ClientOrNull
<1>8. CASE PopGone
  BY <1>8, HeadTail DEF PopGone
<1>9. CASE PopLocal
  <2>1. Head(queue) \in Command /\ Tail(queue) \in Seq(Command)
    BY <1>9, HeadTail DEF PopLocal
  <2>2. Answer("local", Head(queue).id) \in Message
    BY <2>1, AnswerType DEF Command
  <2>3. out' \in [Client -> Seq(Message)]
    BY <1>9, <2>2, WriteType DEF PopLocal
  <2> QED BY <1>9, <2>1, <2>3 DEF PopLocal
<1>10. CASE PopSubscribe
  <2>1. Head(queue) \in Command /\ Tail(queue) \in Seq(Command)
    BY <1>10, HeadTail DEF PopSubscribe
  <2>2. Head(queue).data \subseteq Flags
    BY <2>1 DEF Command
  <2> QED BY <1>10, <2>1, <2>2 DEF PopSubscribe
<1>11. CASE PopForward
  <2>1. Head(queue) \in Command /\ Tail(queue) \in Seq(Command)
    BY <1>11, HeadTail DEF PopForward
  <2>2. cmd' \in Command /\ current' \in Current
    BY <1>11, <2>1, AsCurrentType DEF PopForward
  <2>3. queue' \in Seq(Command) /\ cmdPc' = "send" /\ attempt' = 0 /\ cmdResult' = "TIMEOUT"
    BY <1>11, <2>1 DEF PopForward
  <2>4. UNCHANGED <<clientVars, subVars, filterVars, nextId, cmdUnion, built, linkVars,
                    ioVars, ctlVars, logVars>>
    BY <1>11 DEF PopForward
  <2> QED BY <2>2, <2>3, <2>4 DEF Results
<1>12. CASE CmdUnion
  <2>1. UnionOf(clients) \subseteq Flags
    BY UnionType
  <2> QED BY <1>12, <2>1 DEF CmdUnion
<1>13. CASE CmdStore
  BY <1>13 DEF CmdStore
<1>14. CASE Rewrite
  <2>1. cmd' \in Command
    BY <1>14 DEF Rewrite, Command, FilterToVector
  <2> QED BY <1>14, <2>1, AsCurrentType DEF Rewrite, Results
<1>15. CASE Build
  BY <1>15 DEF Build
<1>16. CASE Publish
  <2>1. [type |-> cmd.type, data |-> cmd.data, seq |-> built, ok |-> FALSE,
         id |-> cmd.id] \in Frame
    BY DEF Frame, Command
  <2>2. current' \in Current
    BY <1>16 DEF Publish, Current
  <2> QED BY <1>16, <2>1, <2>2, BoundAssumption DEF Publish, Seqs
<1>17. CASE WaitDone
  BY <1>17 DEF WaitDone, Current
<1>18. CASE Finish \/ Undo
  <2>1. filterUnion' \subseteq Flags /\ cmdPc' \in {"clear", "unset"}
    BY <1>18 DEF Finish, Undo
  <2>2. UNCHANGED <<clientVars, subVars, prevFilter, pushVars, current, cmd, attempt,
                    cmdResult, cmdUnion, built, linkVars, ioVars, ctlVars, logVars>>
    BY <1>18 DEF Finish, Undo
  <2> QED BY <2>1, <2>2
<1>36. CASE Unset
  <2>1. newParams' \in [Client -> SUBSET Flags] /\ inTxn' \in [Client -> BOOLEAN]
    BY <1>36 DEF Unset, ResetFilter
  <2>2. /\ cmdPc' = "tell"
        /\ UNCHANGED <<clientVars, params, filterVars, pushVars, current, cmd, attempt,
                       cmdResult, cmdUnion, built, linkVars, ioVars, ctlVars, logVars>>
    BY <1>36 DEF Unset
  <2> QED BY <2>1, <2>2
<1>37. CASE Tell
  <2>1. Answer("timeout", cmd.id) \in Message
    BY AnswerType DEF Command
  <2>2. out' \in [Client -> Seq(Message)]
    <3>1. CASE cmd.client \in Client
      BY <1>37, <2>1, <3>1, WriteType DEF Tell
    <3>2. CASE cmd.client \notin Client
      BY <1>37, <3>2 DEF Tell, Write
    <3> QED BY <3>1, <3>2
  <2>3. reset' \in [ResetThreads -> {"none", "stop", "close", "empty", "io"}]
    BY <1>37 DEF Tell, StartReset
  <2>4. /\ cmdPc' = "clear"
        /\ UNCHANGED <<listVars, cmd, attempt, cmdResult, cmdUnion, built, linkVars, ioVars,
                       lock, lisPc, picRunning, ioStopped, mainPc, trouble>>
    BY <1>37 DEF Tell
  <2> QED BY <2>2, <2>3, <2>4
<1>19. CASE Clear
  BY <1>19, NullTypes, AsCurrentType DEF Clear, Results
<1>20. CASE CmdExit
  BY <1>20 DEF CmdExit
<1>38. ASSUME NEW t \in ResetThreads, ResetStop(t) PROVE TypeOK'
  <2>1. reset' \in [ResetThreads -> {"none", "stop", "close", "empty", "io"}]
        /\ picRunning' \in BOOLEAN /\ lisPc' \in {"check", "wait", "waiting", "done"}
    BY <1>38 DEF ResetStop
  <2>2. UNCHANGED <<listVars, cmdVars, linkVars, ioVars, lock, ioStopped, mainPc, logVars>>
    BY <1>38 DEF ResetStop
  <2> QED BY <2>1, <2>2
<1>21. ASSUME NEW t \in ResetThreads, ResetClose(t) PROVE TypeOK'
  BY <1>21 DEF ResetClose, ConnStates
<1>22. ASSUME NEW t \in ResetThreads, ResetEmpty(t) PROVE TypeOK'
  BY <1>22 DEF ResetEmpty, ConnStates, Unlock
<1>23. ASSUME NEW t \in ResetThreads, ResetIo(t) PROVE TypeOK'
  BY <1>23 DEF ResetIo
<1>24. CASE Recv
  <2>1. Head(fromMgr) \in Frame /\ Tail(fromMgr) \in Seq(Frame)
    BY <1>24, HeadTail DEF Recv
  <2>2. seqNo' \in Seqs
    BY <1>24, <2>1, NextSeqType DEF Recv, SeqAfter, Frame
  <2> QED BY <1>24, <2>1, <2>2 DEF Recv
<1>25. CASE Validate
  BY <1>25, NullTypes DEF Validate
<1>26. CASE Deliver
  <2>1. current' \in Current
    BY <1>26 DEF Deliver, Current, Results
  <2>2. trouble' \subseteq {"timeout", "disconnect", "removed", "misrouted", "null", "refused"}
    BY <1>26 DEF Deliver, Misrouted
  <2>3. /\ picPc' = "check"
        /\ UNCHANGED <<clientVars, subVars, filterVars, pushVars, cmdVars, seqNo, frame,
                       mgrVars, unsolicited, ioVars, ctlVars, out>>
    BY <1>26 DEF Deliver
  <2> QED BY <2>1, <2>2, <2>3
<1>42. CASE FindClient
  <2>1. frame' \in Frame /\ picPc' \in {"read", "relay"}
    BY <1>42, NullTypes DEF FindClient
  <2>2. UNCHANGED <<listVars, cmdVars, seqNo, mgrVars, unsolicited, ioVars, ctlVars, logVars>>
    BY <1>42 DEF FindClient
  <2> QED BY <2>1, <2>2
<1>39. CASE Relay
  <2>1. current.client \in ClientOrNull /\ current.id \in Nat /\ frame.id \in Nat
    BY DEF Current, Frame
  <2>3. out' \in [Client -> Seq(Message)]
    <3>1. CASE current.client = NoClient
      BY <1>39, <3>1 DEF Relay
    <3>2. CASE current.client # NoClient
      <4>1. current.client \in Client
        BY <2>1, <3>2 DEF ClientOrNull
      <4>2. PICK f \in SUBSET Flags :
              out' = Write(current.client, [kind |-> "relay", id |-> current.id,
                                            rid |-> frame.id, flags |-> f])
        BY <1>39, <3>2, <4>1 DEF Relay
      <4> DEFINE m == [kind |-> "relay", id |-> current.id, rid |-> frame.id, flags |-> f]
      <4>3. m \in Message /\ out' = Write(current.client, m)
        BY <2>1, <4>2 DEF Message
      <4> HIDE DEF m
      <4>4. out \in [Client -> Seq(Message)]
        OBVIOUS
      <4> QED BY <4>1, <4>3, <4>4, WriteType
    <3> QED BY <3>1, <3>2
  <2>4. trouble' \subseteq {"timeout", "disconnect", "removed", "misrouted", "null", "refused"}
    BY <1>39 DEF Relay, Misrouted
  <2>5. frame' \in Frame /\ picPc' \in {"read", "commit"}
    BY <1>39, NullTypes DEF Relay
  <2>6. UNCHANGED <<listVars, cmdVars, seqNo, mgrVars, unsolicited, ioVars, ctlVars>>
    BY <1>39 DEF Relay
  <2> QED BY <2>3, <2>4, <2>5, <2>6
<1>40. CASE Commit
  <2>1. params' \in [Client -> SUBSET Flags] /\ inTxn' \in [Client -> BOOLEAN]
    <3>1. CASE current.client = NoClient
      BY <1>40, <3>1 DEF Commit
    <3>2. CASE current.client # NoClient
      <4>1. current.client \in Client
        BY <3>2 DEF Current, ClientOrNull
      <4>2. newParams[current.client] \in SUBSET Flags
        BY <4>1
      <4> QED BY <1>40, <3>2, <4>2 DEF Commit
    <3> QED BY <3>1, <3>2
  <2>2. trouble' \subseteq {"timeout", "disconnect", "removed", "misrouted", "null", "refused"}
    BY <1>40 DEF Commit, Misrouted
  <2>3. frame' \in Frame /\ picPc' = "read"
    BY <1>40, NullTypes DEF Commit
  <2>4. UNCHANGED <<clientVars, newParams, filterVars, pushVars, current, cmdVars, seqNo,
                    mgrVars, unsolicited, ioVars, ctlVars, out>>
    BY <1>40 DEF Commit
  <2> QED BY <2>1, <2>2, <2>3, <2>4
<1>27. ASSUME NEW n \in Notif, HandleNotif(n) PROVE TypeOK'
  <2>1. [kind |-> "notif", id |-> 0, rid |-> 0, flags |-> {n}] \in Message
    BY DEF Message, Flags
  <2> QED BY <1>27, <2>1 DEF HandleNotif
<1>28. CASE PicardReset
  <2>1. reset' \in [ResetThreads -> {"none", "stop", "close", "empty", "io"}]
    BY <1>28 DEF PicardReset, StartReset
  <2>2. unsolicited' \in Nat
    BY <1>28 DEF PicardReset
  <2>3. UNCHANGED <<listVars, cmdVars, seqNo, picVars, mgrVars, ioVars, lock, lisPc,
                    picRunning, ioStopped, mainPc, logVars>>
    BY <1>28 DEF PicardReset
  <2> QED BY <2>1, <2>2, <2>3
<1>29. CASE PicExit
  BY <1>29 DEF PicExit
<1>30. CASE MainStop
  BY <1>30 DEF MainStop
<1>31. CASE MainJoinCmd
  BY <1>31 DEF MainJoinCmd
<1>32. CASE MainJoinListen \/ MainJoinPic
  <2>1. mainPc' \in {"run", "joincmd", "joinlisten", "joinpic", "joined"}
        /\ picRunning' \in BOOLEAN
    BY <1>32 DEF MainJoinListen, MainJoinPic
  <2>2. UNCHANGED <<listVars, cmdVars, linkVars, ioVars, lock, lisPc, reset, ioStopped,
                    logVars>>
    BY <1>32 DEF MainJoinListen, MainJoinPic
  <2> QED BY <2>1, <2>2
<1>41. CASE ListenStep \/ SpuriousWake
  <2>1. lisPc' \in {"check", "wait", "waiting", "done"}
    BY <1>41 DEF ListenStep, ListenAtOnce, ListenLate, SpuriousWake
  <2>2. UNCHANGED <<listVars, cmdVars, linkVars, ioVars, lock, reset, picRunning, ioStopped,
                    mainPc, logVars>>
    BY <1>41 DEF ListenStep, ListenAtOnce, ListenLate, SpuriousWake
  <2> QED BY <2>1, <2>2
<1>33. ASSUME NEW ok \in BOOLEAN, MgrAnswer(ok) PROVE TypeOK'
  <2>1. Head(toMgr) \in Frame /\ Tail(toMgr) \in Seq(Frame)
    BY <1>33, HeadTail DEF MgrAnswer
  <2>2. [Head(toMgr) EXCEPT !.ok = ok] \in Frame /\ Head(toMgr).data \subseteq Flags
    BY <2>1 DEF Frame
  <2>3. toMgr' \in Seq(Frame) /\ fromMgr' \in Seq(Frame)
    BY <1>33, <2>1, <2>2 DEF MgrAnswer
  <2>4. mgrFilter' \subseteq Flags
    BY <1>33, <2>2 DEF MgrAnswer
  <2>5. UNCHANGED <<listVars, cmdVars, seqNo, picVars, unsolicited, ioVars, ctlVars,
                    logVars>>
    BY <1>33 DEF MgrAnswer
  <2> QED BY <2>3, <2>4, <2>5
<1>34. CASE Lose
  <2>1. toMgr' \in Seq(Frame) /\ fromMgr' \in Seq(Frame)
    <3>1. CASE toMgr # <<>> /\ toMgr' = Tail(toMgr) /\ UNCHANGED fromMgr
      BY <3>1, HeadTail
    <3>2. CASE fromMgr # <<>> /\ fromMgr' = Tail(fromMgr) /\ UNCHANGED toMgr
      BY <3>2, HeadTail
    <3> QED BY <1>34, <3>1, <3>2 DEF Lose
  <2>2. UNCHANGED <<listVars, cmdVars, seqNo, picVars, mgrFilter, unsolicited, ioVars,
                    ctlVars, logVars>>
    BY <1>34 DEF Lose
  <2> QED BY <2>1, <2>2
<1>35. CASE UNCHANGED vars
  BY <1>35
<1> QED
  BY <1>1, <1>2, <1>3, <1>4, <1>5, <1>6, <1>7, <1>8, <1>9, <1>10, <1>11, <1>12, <1>13,
     <1>14, <1>15, <1>16, <1>17, <1>18, <1>19, <1>20, <1>21, <1>22, <1>23, <1>24,
     <1>25, <1>26, <1>27, <1>28, <1>29, <1>30, <1>31, <1>32, <1>33, <1>34, <1>35,
     <1>36, <1>37, <1>38, <1>39, <1>40, <1>41, <1>42
  DEF Next, CmdStep, PicStep, IoStep, MainStep, EnvStep, ResetStep, PopNothing, Terminated

\* Every record, program counter and set of ClientManager stays in its type,
\* whatever the interleaving of the threads.
THEOREM TypeCorrect == Spec => []TypeOK
BY InitType, NextType, PTL DEF Spec

-----------------------------------------------------------------------------
(* Sequence numbers in flight *)

LEMMA NextSeqDiffers == \A s \in Seqs : NextSeq(s) # s
<1> SUFFICES ASSUME NEW s \in Seqs PROVE NextSeq(s) # s
  OBVIOUS
<1>1. CASE s = SeqMod - 1
  <2>1. (s + 1) % SeqMod = 0
    BY <1>1, BoundAssumption DEF Seqs
  <2> QED BY <1>1, <2>1, BoundAssumption DEF NextSeq, Seqs
<1>2. CASE s # SeqMod - 1
  <2>1. (s + 1) % SeqMod = s + 1
    BY <1>2, BoundAssumption DEF Seqs
  <2> QED BY <2>1 DEF NextSeq, Seqs
<1> QED BY <1>1, <1>2

LEMMA TailFacts ==
    ASSUME NEW S, NEW s \in Seq(S), s # <<>>
    PROVE  /\ Tail(s) \in Seq(S)
           /\ DOMAIN Tail(s) = 1 .. Len(s) - 1
           /\ \A i \in DOMAIN Tail(s) : i + 1 \in DOMAIN s /\ Tail(s)[i] = s[i + 1]
           /\ 1 \in DOMAIN s /\ Head(s) = s[1]
OBVIOUS

LEMMA AppendFacts ==
    ASSUME NEW S, NEW s \in Seq(S), NEW e \in S
    PROVE  /\ Append(s, e) \in Seq(S)
           /\ DOMAIN Append(s, e) = 1 .. Len(s) + 1
           /\ \A i \in DOMAIN s : i \in DOMAIN Append(s, e) /\ Append(s, e)[i] = s[i]
           /\ \A i \in DOMAIN Append(s, e) : i \in DOMAIN s \/ i = Len(s) + 1
           /\ Append(s, e)[Len(s) + 1] = e
OBVIOUS

LEMMA InitInFlight == Init => InFlightSeq
BY DEF Init, InFlightSeq, NoOlderAfter, Fresh

\* Only the command thread, the receiving thread and the line touch the frames.
LEMMA OtherStepsLeaveLink ==
    ASSUME [Next]_vars, ~Build, ~Publish, ~Recv, ~(\E ok \in BOOLEAN : MgrAnswer(ok)), ~Lose
    PROVE  UNCHANGED <<toMgr, fromMgr, seqNo, built>>
           /\ (cmdPc' = "publish" => cmdPc = "publish")
BY DEF Next, CmdStep, PicStep, FindClient, IoStep, MainStep, EnvStep, ResetStep, PopNothing,
   Terminated, vars, listVars, linkVars, ctlVars, logVars, clientVars, subVars, filterVars,
   pushVars, cmdVars, picVars, ioVars, stopVars, mgrVars, AddClient, HandleCommand, ReadError,
   Mark, Erase, IoStore, IoPush, PopGone, PopLocal, PopSubscribe, PopForward, CmdUnion,
   CmdStore, Rewrite, WaitDone, Finish, Undo, Unset, Tell, Clear, CmdExit, ResetStop,
   ResetClose, ResetEmpty, ResetIo, Validate, Deliver, Relay, Commit, HandleNotif, PicardReset,
   PicExit, MainStop, MainJoinCmd, MainJoinListen, MainJoinPic, ListenStep, ListenAtOnce,
   ListenLate, SpuriousWake

LEMMA NextInFlight == TypeOK /\ InFlightSeq /\ [Next]_vars => InFlightSeq'
<1> SUFFICES ASSUME TypeOK, InFlightSeq, [Next]_vars PROVE InFlightSeq'
  OBVIOUS
<1>0. toMgr \in Seq(Frame) /\ fromMgr \in Seq(Frame) /\ seqNo \in Seqs /\ built \in Seqs
  BY DEF TypeOK
<1> USE DEF InFlightSeq, Recent, NoOlderAfter, Fresh
<1>1. CASE Build
  <2>1. built' = seqNo /\ UNCHANGED <<toMgr, fromMgr, seqNo>>
    BY <1>1 DEF Build, linkVars, mgrVars
  <2> QED BY <2>1
<1>2. CASE Publish
  <2> DEFINE f == [type |-> cmd.type, data |-> cmd.data, seq |-> built, ok |-> FALSE,
                   id |-> cmd.id]
  <2>1. f \in Frame
    BY <1>0 DEF TypeOK, Command, Frame
  <2>2. /\ toMgr' = Append(toMgr, f) /\ UNCHANGED <<fromMgr, seqNo>>
        /\ cmdPc' = "wait" /\ cmdPc = "publish"
    BY <1>2 DEF Publish
  <2>3. f.seq = built
    OBVIOUS
  <2> HIDE DEF f
  <2> QED BY <1>0, <2>1, <2>2, <2>3, AppendFacts
<1>3. CASE Recv
  <2>1. /\ fromMgr # <<>> /\ fromMgr' = Tail(fromMgr)
        /\ seqNo' = NextSeq(Head(fromMgr).seq)
        /\ UNCHANGED <<toMgr, cmdPc, built>>
    BY <1>3 DEF Recv, SeqAfter, cmdVars
  <2>2. Head(fromMgr) = fromMgr[1] /\ 1 \in DOMAIN fromMgr
    BY <1>0, <2>1, TailFacts
  <2>3. CASE fromMgr[1].seq = seqNo
    <3>1. \A i \in DOMAIN fromMgr : fromMgr[i].seq = seqNo
      BY <1>0, <2>2, <2>3
    <3>2. \A i \in DOMAIN toMgr : toMgr[i].seq = seqNo
      BY <2>2, <2>3
    <3>3. cmdPc = "publish" => built = seqNo
      BY <2>2, <2>3
    <3>4. seqNo' = NextSeq(seqNo) /\ seqNo' # seqNo
      BY <1>0, <2>1, <2>2, <2>3, NextSeqDiffers
    <3>5. \A i \in DOMAIN fromMgr' : fromMgr'[i].seq = seqNo
      BY <1>0, <2>1, <3>1, TailFacts
    <3> QED BY <2>1, <3>2, <3>3, <3>4, <3>5
  <2>4. CASE fromMgr[1].seq # seqNo
    <3>1. seqNo' = seqNo
      BY <2>1, <2>2, <2>4
    <3>2. \A i \in DOMAIN fromMgr' : /\ i \in Nat /\ i + 1 \in DOMAIN fromMgr
                                     /\ fromMgr'[i] = fromMgr[i + 1]
      BY <1>0, <2>1, TailFacts
    <3>3. \A i \in DOMAIN fromMgr' :
           fromMgr'[i].seq = seqNo' \/ NextSeq(fromMgr'[i].seq) = seqNo'
      BY <3>1, <3>2
    <3>4. NoOlderAfter(fromMgr)'
      BY <3>1, <3>2
    <3>5. Fresh(fromMgr)' => Fresh(fromMgr)
      BY <3>1, <3>2
    <3> QED BY <2>1, <3>1, <3>3, <3>4, <3>5
  <2> QED BY <2>3, <2>4
<1>4. ASSUME NEW ok \in BOOLEAN, MgrAnswer(ok) PROVE InFlightSeq'
  <2> DEFINE f == [Head(toMgr) EXCEPT !.ok = ok]
  <2>1. /\ toMgr # <<>> /\ toMgr' = Tail(toMgr) /\ fromMgr' = Append(fromMgr, f)
        /\ UNCHANGED <<seqNo, cmdPc, built>>
    BY <1>4 DEF MgrAnswer, cmdVars
  <2>2. Head(toMgr) = toMgr[1] /\ 1 \in DOMAIN toMgr /\ toMgr[1] \in Frame
    BY <1>0, <2>1, TailFacts
  <2>3. f \in Frame /\ f.seq = toMgr[1].seq
    BY <2>2 DEF Frame
  <2> HIDE DEF f
  <2>4. \A i \in DOMAIN toMgr' : /\ i \in Nat /\ i > 0 /\ i + 1 \in DOMAIN toMgr
                                 /\ toMgr'[i] = toMgr[i + 1]
    BY <1>0, <2>1, TailFacts
  <2>5. \A i \in DOMAIN fromMgr' :
           \/ i \in DOMAIN fromMgr /\ fromMgr'[i] = fromMgr[i]
           \/ i = Len(fromMgr) + 1 /\ fromMgr'[i] = f
    BY <1>0, <2>1, <2>3, AppendFacts
  <2>6. Fresh(fromMgr) => f.seq = seqNo
    BY <2>2, <2>3
  <2>7. NoOlderAfter(fromMgr)'
    BY <1>0, <2>1, <2>5, <2>6
  <2>8. f.seq = seqNo => \A i \in DOMAIN toMgr : toMgr[i].seq = seqNo
    <3>1. \A i \in DOMAIN toMgr : i = 1 \/ 1 < i
      BY <1>0
    <3> QED BY <2>2, <2>3, <3>1
  <2>9. Fresh(fromMgr)' => Fresh(fromMgr) \/ f.seq = seqNo
    BY <2>1, <2>5
  <2>10. NoOlderAfter(toMgr)'
    BY <2>1, <2>4
  <2>11. Recent(f)
    BY <2>2, <2>3
  <2>12. \A i \in DOMAIN fromMgr' :
           fromMgr'[i].seq = seqNo' \/ NextSeq(fromMgr'[i].seq) = seqNo'
    BY <2>1, <2>5, <2>11
  <2>13. \A i \in DOMAIN toMgr' :
           toMgr'[i].seq = seqNo' \/ NextSeq(toMgr'[i].seq) = seqNo'
    BY <2>1, <2>4
  <2>14. Fresh(fromMgr)' => \A i \in DOMAIN toMgr' : toMgr'[i].seq = seqNo'
    BY <2>1, <2>4, <2>8, <2>9
  <2>15. Fresh(toMgr)' => Fresh(toMgr)
    BY <2>1, <2>4
  <2>16. f.seq = seqNo => Fresh(toMgr)
    BY <2>2, <2>3
  <2>17. cmdPc' = "publish" =>
           /\ built' = seqNo' \/ NextSeq(built') = seqNo'
           /\ Fresh(fromMgr)' \/ Fresh(toMgr)' => built' = seqNo'
    BY <2>1, <2>9, <2>15, <2>16
  <2> QED BY <2>7, <2>10, <2>12, <2>13, <2>14, <2>17
<1>5. CASE Lose
  <2>1. UNCHANGED <<seqNo, cmdPc, built>>
    BY <1>5 DEF Lose, cmdVars
  <2>2. CASE toMgr # <<>> /\ toMgr' = Tail(toMgr) /\ UNCHANGED fromMgr
    <3>1. \A i \in DOMAIN toMgr' : /\ i \in Nat /\ i + 1 \in DOMAIN toMgr
                                   /\ toMgr'[i] = toMgr[i + 1]
      BY <1>0, <2>2, TailFacts
    <3> QED BY <2>1, <2>2, <3>1
  <2>3. CASE fromMgr # <<>> /\ fromMgr' = Tail(fromMgr) /\ UNCHANGED toMgr
    <3>1. \A i \in DOMAIN fromMgr' : /\ i \in Nat /\ i + 1 \in DOMAIN fromMgr
                                     /\ fromMgr'[i] = fromMgr[i + 1]
      BY <1>0, <2>3, TailFacts
    <3> QED BY <2>1, <2>3, <3>1
  <2> QED BY <1>5, <2>2, <2>3 DEF Lose
<1>6. CASE ~Build /\ ~Publish /\ ~Recv /\ ~(\E ok \in BOOLEAN : MgrAnswer(ok)) /\ ~Lose
  <2>1. UNCHANGED <<toMgr, fromMgr, seqNo, built>> /\ (cmdPc' = "publish" => cmdPc = "publish")
    BY <1>6, OtherStepsLeaveLink
  <2> QED BY <2>1
<1> QED BY <1>1, <1>2, <1>3, <1>4, <1>5, <1>6

\* At most two adjacent sequence numbers are ever in flight, in order: a response
\* that passes the test of commandComplete is at most one command old.
THEOREM TwoSeqsInFlight == Spec => []InFlightSeq
<1>1. Spec => []TypeOK
  BY TypeCorrect
<1> QED BY <1>1, InitInFlight, NextInFlight, PTL DEF Spec

-----------------------------------------------------------------------------
(* What a client is told: its answers come, in the order of its commands, and *)
(* notifications wait for the reply. *)

\* The command in the hands of commandLoop and m_currentCommand are the same
\* command wherever a response can be delivered; its client has connected.
HandInv ==
    /\ current.client # NoClient => current.client = cmd.client /\ current.id = cmd.id
    /\ cmdPc \in {"send", "publish", "wait", "unset", "tell", "clear"} =>
         current.client = cmd.client /\ current.id = cmd.id
    /\ cmdPc \in {"unset", "tell"} => cmd.client # NoClient
    /\ cmdPc \in {"pop", "done"} => cmd = NullCommand
    /\ \A c \in clients : conn[c] # "free"
    /\ cmd.client # NoClient => conn[cmd.client] # "free"

\* Commands are numbered as they are pushed: what was answered is not newer than
\* the command in hand, which is older than everything queued.
OrderInv ==
    /\ nextId > 0 /\ cmd.id < nextId
    /\ cmdPc \notin {"pop", "done"} => cmd.id # 0
    /\ \A k \in DOMAIN queue : cmd.id < queue[k].id /\ queue[k].id < nextId
    /\ \A i, j \in DOMAIN queue : i < j => queue[i].id < queue[j].id
    /\ \A c \in Client : \A k \in DOMAIN out[c] :
         /\ out[c][k].id < nextId
         /\ cmd.id # 0 => out[c][k].id <= cmd.id
         /\ \A j \in DOMAIN queue : out[c][k].id < queue[j].id
    /\ AnswersInOrder

\* commandComplete has set CLIENT_OK and has yet to write the response.
Relaying == picPc \in {"check", "relay"}

\* A result of CLIENT_OK means a response was written, in m_currentCommand, unless
\* commandComplete is about to write it, as well as in the copy commandLoop acts on.
AnswerInv ==
    /\ current.result = "OK" /\ current.client # NoClient /\ Writable(current.client)
         => Answered(current.client, current.id) \/ Relaying
    /\ cmdPc = "send" /\ cmdResult = "OK" /\ cmd.client # NoClient /\ Writable(cmd.client)
         => Answered(cmd.client, cmd.id)
    /\ AnsweredBeforeCleared

-----------------------------------------------------------------------------
(* The command in hand *)

LEMMA InitHand == Init => HandInv
BY DEF Init, HandInv, AsCurrent, NullCommand

\* The steps that leave the command in hand and the client list alone.
LEMMA HandUntouched ==
    ASSUME [Next]_vars,
           ~(\E c \in Client : AddClient(c) \/ ReadError(c)), ~Mark, ~Erase,
           ~PopSubscribe, ~PopForward, ~CmdUnion, ~CmdStore, ~Rewrite, ~Build, ~Publish,
           ~WaitDone, ~Finish, ~Undo, ~Unset, ~Tell, ~Clear, ~CmdExit, ~Deliver,
           ~(\E t \in ResetThreads : ResetClose(t) \/ ResetEmpty(t))
    PROVE  UNCHANGED <<current, cmd, cmdPc, cmdResult, clients, conn>>
BY DEF Next, CmdStep, PicStep, FindClient, IoStep, MainStep, EnvStep, ResetStep, PopNothing,
   Terminated, vars, listVars, linkVars, ctlVars, logVars, clientVars, subVars, filterVars,
   pushVars, cmdVars, picVars, ioVars, stopVars, mgrVars, HandleCommand, IoStore, IoPush,
   PopGone, PopLocal, ResetStop, ResetIo, Recv, Validate, Relay, Commit, HandleNotif,
   PicardReset, PicExit, MainStop, MainJoinCmd, MainJoinListen, MainJoinPic, ListenStep,
   ListenAtOnce, ListenLate, SpuriousWake, MgrAnswer, Lose

LEMMA NextHand == TypeOK /\ HandInv /\ [Next]_vars => HandInv'
<1> SUFFICES ASSUME TypeOK, HandInv, [Next]_vars PROVE HandInv'
  OBVIOUS
<1>0. /\ clients \subseteq Client /\ conn \in [Client -> ConnStates]
      /\ current \in Current /\ cmd \in Command
      /\ cmd.client \in ClientOrNull /\ current.client \in ClientOrNull
  BY DEF TypeOK, Current, Command
<1> USE DEF HandInv, clientVars, listVars
<1>1. ASSUME NEW c \in Client, AddClient(c) PROVE HandInv'
  BY <1>0, <1>1 DEF AddClient, cmdVars, ClientOrNull
<1>2. ASSUME NEW c \in Client, ReadError(c) PROVE HandInv'
  BY <1>0, <1>2 DEF ReadError, cmdVars, ClientOrNull
<1>3. CASE Mark
  BY <1>0, <1>3 DEF Mark, cmdVars, Current
<1>4. CASE Erase
  BY <1>4 DEF Erase, cmdVars
<1>5. CASE PopSubscribe \/ PopForward
  <2>1. cmd = NullCommand /\ current.client = NoClient /\ cmdPc = "pop"
    BY <1>5 DEF PopSubscribe, PopForward, NullCommand
  <2>2. cmd'.client # NoClient => cmd'.client \in clients
    BY <1>5 DEF PopSubscribe, PopForward, Serves
  <2>3. UNCHANGED clientVars
    BY <1>5 DEF PopSubscribe, PopForward
  <2>4. CASE PopSubscribe
    BY <2>1, <2>2, <2>3, <2>4 DEF PopSubscribe
  <2>5. CASE PopForward
    <3>1. current' = AsCurrent(cmd') /\ cmdPc' = "send"
      BY <2>5 DEF PopForward
    <3>2. current'.client = cmd'.client /\ current'.id = cmd'.id
      BY <3>1 DEF AsCurrent
    <3> QED BY <2>2, <2>3, <3>1, <3>2
  <2> QED BY <1>5, <2>4, <2>5
<1>6. CASE CmdUnion \/ CmdStore \/ Build \/ WaitDone \/ Finish \/ Undo \/ Unset \/ Tell
  <2>1. UNCHANGED <<current, cmd, clientVars>>
    BY <1>6 DEF CmdUnion, CmdStore, Build, WaitDone, Finish, Undo, Unset, Tell
  <2>2. cmdPc' \in {"send", "publish", "wait", "unset", "tell", "clear"} =>
          cmdPc \in {"send", "publish", "wait", "unset", "tell", "clear"}
    BY <1>6 DEF CmdUnion, CmdStore, Build, WaitDone, Finish, Undo, Unset, Tell, Over
  <2>3. cmdPc' \notin {"pop", "done"}
    BY <1>6 DEF CmdUnion, CmdStore, Build, WaitDone, Finish, Undo, Unset, Tell
  <2>4. cmdPc' \in {"unset", "tell"} => cmd.client # NoClient
    BY <1>6 DEF CmdUnion, CmdStore, Build, WaitDone, Finish, Undo, Unset, Tell, Unanswered
  <2> QED BY <2>1, <2>2, <2>3, <2>4
<1>7. CASE Rewrite
  <2>1. cmd'.client = cmd.client /\ cmd'.id = cmd.id
    BY <1>0, <1>7 DEF Rewrite, Command
  <2>2. current'.client = cmd.client /\ current'.id = cmd.id
    BY <1>7 DEF Rewrite, AsCurrent
  <2> QED BY <1>7, <2>1, <2>2 DEF Rewrite
<1>8. CASE Publish
  BY <1>0, <1>8 DEF Publish, Current
<1>9. CASE Clear
  BY <1>9 DEF Clear, AsCurrent, NullCommand
<1>10. CASE CmdExit
  BY <1>10 DEF CmdExit
<1>11. CASE Deliver
  BY <1>0, <1>11 DEF Deliver, Current, cmdVars
<1>12. ASSUME NEW t \in ResetThreads, ResetClose(t) \/ ResetEmpty(t) PROVE HandInv'
  BY <1>0, <1>12 DEF ResetClose, ResetEmpty, cmdVars, ClientOrNull
<1>13. CASE /\ ~(\E c \in Client : AddClient(c) \/ ReadError(c)) /\ ~Mark /\ ~Erase
            /\ ~PopSubscribe /\ ~PopForward /\ ~CmdUnion /\ ~CmdStore /\ ~Rewrite /\ ~Build
            /\ ~Publish /\ ~WaitDone /\ ~Finish /\ ~Undo /\ ~Unset /\ ~Tell /\ ~Clear
            /\ ~CmdExit /\ ~Deliver
            /\ ~(\E t \in ResetThreads : ResetClose(t) \/ ResetEmpty(t))
  BY <1>13, HandUntouched
<1> QED
  BY <1>1, <1>2, <1>3, <1>4, <1>5, <1>6, <1>7, <1>8, <1>9, <1>10, <1>11, <1>12, <1>13

LEMMA HandAlways == Spec => []HandInv
<1>1. Spec => []TypeOK
  BY TypeCorrect
<1> QED BY <1>1, InitHand, NextHand, PTL DEF Spec

-----------------------------------------------------------------------------
(* Writing to the clients *)

LEMMA WriteFacts ==
    ASSUME out \in [Client -> Seq(Message)], NEW c \in Client, NEW m \in Message,
           out' = Write(c, m)
    PROVE  \A d \in Client : \/ out'[d] = out[d]
                             \/ d = c /\ out'[d] = Append(out[d], m)
BY DEF Write

\* What was written stays written, and a new message is the last one.
LEMMA GrowFacts ==
    ASSUME out \in [Client -> Seq(Message)], NEW d \in Client, NEW m \in Message,
           out'[d] = Append(out[d], m)
    PROVE  /\ \A k \in DOMAIN out[d] : k \in DOMAIN out'[d] /\ out'[d][k] = out[d][k]
           /\ \A k \in DOMAIN out'[d] :
                \/ k \in DOMAIN out[d] /\ out'[d][k] = out[d][k]
                \/ k = Len(out[d]) + 1 /\ out'[d][k] = m
           /\ \A k \in DOMAIN out[d] : k < Len(out[d]) + 1
           /\ Len(out[d]) + 1 \in DOMAIN out'[d] /\ out'[d][Len(out[d]) + 1] = m
<1>1. out[d] \in Seq(Message)
  OBVIOUS
<1> QED BY <1>1, AppendFacts

\* The ids in the log of a client, after a step that writes at most one message
\* to each client, none of them older than what that client already got.
LEMMA OrderGrows ==
    ASSUME TypeOK, AnswersInOrder, NEW i \in Nat,
           \A d \in Client : \A k \in DOMAIN out[d] : i = 0 \/ out[d][k].id <= i,
           \A d \in Client : \/ out'[d] = out[d]
                             \/ \E m \in Message : m.id = i /\ out'[d] = Append(out[d], m)
    PROVE  /\ AnswersInOrder'
           /\ \A d \in Client : \A k \in DOMAIN out'[d] :
                out'[d][k].id = i \/ \E j \in DOMAIN out[d] : out'[d][k].id = out[d][j].id
<1>0. out \in [Client -> Seq(Message)]
  BY DEF TypeOK
<1> SUFFICES ASSUME NEW d \in Client
             PROVE  /\ \A j, k \in DOMAIN out'[d] :
                         j < k /\ out'[d][j].id # 0 /\ out'[d][k].id # 0
                           => out'[d][j].id <= out'[d][k].id
                    /\ \A k \in DOMAIN out'[d] : out'[d][k].id = i
                         \/ \E j \in DOMAIN out[d] : out'[d][k].id = out[d][j].id
  BY DEF AnswersInOrder
<1>1. CASE out'[d] = out[d]
  BY <1>1 DEF AnswersInOrder
<1>2. CASE \E m \in Message : m.id = i /\ out'[d] = Append(out[d], m)
  <2>1. PICK m \in Message : m.id = i /\ out'[d] = Append(out[d], m)
    BY <1>2
  <2>2. \A k \in DOMAIN out'[d] :
                \/ k \in DOMAIN out[d] /\ out'[d][k] = out[d][k]
                \/ k = Len(out[d]) + 1 /\ out'[d][k] = m
    BY <1>0, <2>1, GrowFacts
  <2>3. \A k \in DOMAIN out[d] : k \in Nat /\ k < Len(out[d]) + 1
    BY <1>0
  <2>4. ASSUME NEW j \in DOMAIN out'[d], NEW k \in DOMAIN out'[d],
               j < k, out'[d][j].id # 0, out'[d][k].id # 0
        PROVE  out'[d][j].id <= out'[d][k].id
    <3>1. CASE k \in DOMAIN out[d] /\ out'[d][k] = out[d][k]
      <4>1. j \in DOMAIN out[d] /\ out'[d][j] = out[d][j]
        BY <1>0, <2>2, <2>3, <2>4, <3>1
      <4> QED BY <2>4, <3>1, <4>1 DEF AnswersInOrder
    <3>2. CASE k = Len(out[d]) + 1 /\ out'[d][k] = m
      <4>1. j \in DOMAIN out[d] /\ out'[d][j] = out[d][j]
        BY <1>0, <2>2, <2>4, <3>2
      <4> QED BY <2>1, <2>4, <3>2, <4>1
    <3> QED BY <2>2, <3>1, <3>2
  <2> QED BY <2>1, <2>2, <2>4
<1> QED BY <1>1, <1>2

-----------------------------------------------------------------------------
(* Answers in the order of the commands *)

LEMMA InitOrder == Init => OrderInv
BY DEF Init, OrderInv, AnswersInOrder, NullCommand

LEMMA OrderUntouched ==
    ASSUME [Next]_vars,
           ~(\E c \in Client, r \in Request : HandleCommand(c, r)), ~IoPush,
           ~PopGone, ~PopLocal, ~PopSubscribe, ~PopForward, ~CmdUnion, ~CmdStore,
           ~Rewrite, ~Build, ~Publish, ~WaitDone, ~Finish, ~Undo, ~Unset, ~Tell, ~Clear,
           ~CmdExit, ~Relay, ~(\E n \in Notif : HandleNotif(n)), ~MainStop
    PROVE  UNCHANGED <<queue, nextId, cmd, cmdPc, out>>
BY DEF Next, CmdStep, PicStep, FindClient, IoStep, MainStep, EnvStep, ResetStep, PopNothing,
   Terminated, vars, listVars, linkVars, ctlVars, logVars, clientVars, subVars, filterVars,
   pushVars, cmdVars, picVars, ioVars, stopVars, mgrVars, AddClient, ReadError, Mark, Erase,
   IoStore, ResetStop, ResetClose, ResetEmpty, ResetIo, Recv, Validate, Deliver, Commit,
   PicardReset, PicExit, MainJoinCmd, MainJoinListen, MainJoinPic, ListenStep, ListenAtOnce,
   ListenLate, SpuriousWake, MgrAnswer, Lose

LEMMA NextOrder == TypeOK /\ HandInv /\ OrderInv /\ [Next]_vars => OrderInv'
<1> SUFFICES ASSUME TypeOK, HandInv, OrderInv, [Next]_vars PROVE OrderInv'
  OBVIOUS
<1>0. /\ queue \in Seq(Command) /\ nextId \in Nat /\ cmd \in Command /\ cmd.id \in Nat
      /\ out \in [Client -> Seq(Message)]
      /\ \A c \in Client : \A k \in DOMAIN out[c] : out[c][k].id \in Nat
      /\ \A k \in DOMAIN queue : queue[k] \in Command /\ queue[k].id \in Nat
  <2>1. /\ queue \in Seq(Command) /\ nextId \in Nat /\ cmd \in Command
        /\ out \in [Client -> Seq(Message)]
    BY DEF TypeOK
  <2>2. \A c \in Client : \A k \in DOMAIN out[c] : out[c][k] \in Message
    BY <2>1
  <2>3. \A k \in DOMAIN queue : queue[k] \in Command
    BY <2>1
  <2>4. \A m \in Message : m.id \in Nat
    BY DEF Message
  <2>5. \A c \in Command : c.id \in Nat
    BY DEF Command
  <2> QED BY <2>1, <2>2, <2>3, <2>4, <2>5
<1> USE DEF OrderInv
<1>1. ASSUME NEW e \in Command, e.id = nextId, queue' = Append(queue, e),
             nextId' = nextId + 1, UNCHANGED <<cmd, cmdPc, out>>
      PROVE  OrderInv'
  <2>1. \A k \in DOMAIN queue' :
           \/ k \in DOMAIN queue /\ queue'[k] = queue[k]
           \/ k = Len(queue) + 1 /\ queue'[k] = e
    BY <1>0, <1>1, AppendFacts
  <2>2. \A k \in DOMAIN queue : k < Len(queue) + 1
    BY <1>0
  <2>3. \A k \in DOMAIN queue' : cmd'.id < queue'[k].id /\ queue'[k].id < nextId'
    BY <1>0, <1>1, <2>1
  <2>4. \A i, j \in DOMAIN queue' : i < j => queue'[i].id < queue'[j].id
    <3> SUFFICES ASSUME NEW i \in DOMAIN queue', NEW j \in DOMAIN queue', i < j
                 PROVE  queue'[i].id < queue'[j].id
      OBVIOUS
    <3>1. i \in Nat /\ j \in Nat /\ Len(queue) \in Nat
      BY <1>0, <1>1, AppendFacts
    <3>2. i \in DOMAIN queue /\ queue'[i] = queue[i]
      BY <1>0, <2>1, <2>2, <3>1
    <3> QED BY <1>0, <1>1, <2>1, <3>2
  <2>5. \A c \in Client : \A k \in DOMAIN out[c] : \A j \in DOMAIN queue' :
           out[c][k].id < queue'[j].id
    BY <1>1, <2>1
  <2>6. AnswersInOrder'
    BY <1>1 DEF AnswersInOrder
  <2>7. \A c \in Client : \A k \in DOMAIN out[c] : out[c][k].id < nextId'
    BY <1>0, <1>1
  <2>8. nextId' > 0 /\ cmd'.id < nextId'
    BY <1>0, <1>1
  <2> QED BY <1>1, <2>3, <2>4, <2>5, <2>6, <2>7, <2>8
<1>2. ASSUME NEW c \in Client, NEW r \in Request, HandleCommand(c, r) PROVE OrderInv'
  <2> DEFINE e == [client |-> c, type |-> r.type, data |-> r.data, short |-> r.short,
                   id |-> nextId]
  <2>1. e \in Command /\ e.id = nextId
    BY <1>0, RequestAssumption DEF Command, ClientOrNull
  <2>2. queue' = Append(queue, e) /\ nextId' = nextId + 1 /\ UNCHANGED <<cmd, cmdPc, out>>
    BY <1>2 DEF HandleCommand, cmdVars, logVars
  <2> QED BY <1>1, <2>1, <2>2
<1>3. CASE IoPush
  <2> DEFINE e == [client |-> NoClient, type |-> "SUBSCRIBE", data |-> filterUnion,
                   short |-> FALSE, id |-> nextId]
  <2>1. e \in Command /\ e.id = nextId
    BY <1>0 DEF Command, ClientOrNull, Types, TypeOK
  <2>2. queue' = Append(queue, e) /\ nextId' = nextId + 1 /\ UNCHANGED <<cmd, cmdPc, out>>
    BY <1>3 DEF IoPush, cmdVars, logVars
  <2> QED BY <1>1, <2>1, <2>2
<1>4. CASE PopGone \/ PopLocal \/ PopSubscribe \/ PopForward
  <2>1. /\ queue # <<>> /\ queue' = Tail(queue) /\ nextId' = nextId /\ cmdPc = "pop"
    BY <1>4 DEF PopGone, PopLocal, PopSubscribe, PopForward
  <2>2. cmd.id = 0
    BY <2>1 DEF HandInv, NullCommand
  <2>3. /\ 1 \in DOMAIN queue /\ Head(queue) = queue[1]
        /\ \A k \in DOMAIN queue' : /\ k \in Nat /\ k > 0 /\ k + 1 \in DOMAIN queue
                                    /\ queue'[k] = queue[k + 1]
    BY <1>0, <2>1, TailFacts
  <2> DEFINE h == queue[1]
  <2>4. h \in Command /\ h.id \in Nat /\ h.id # 0 /\ h.id < nextId
    BY <1>0, <2>2, <2>3
  <2>5. \A k \in DOMAIN queue' :
           0 < queue'[k].id /\ h.id < queue'[k].id /\ queue'[k].id < nextId
    BY <1>0, <2>2, <2>3
  <2>6. \A i, j \in DOMAIN queue' : i < j => queue'[i].id < queue'[j].id
    BY <2>3
  <2>7. \A c \in Client : \A k \in DOMAIN out[c] :
           out[c][k].id <= h.id /\ \A j \in DOMAIN queue' : out[c][k].id < queue'[j].id
    BY <1>0, <2>3, <2>4
  <2> HIDE DEF h
  <2>8. CASE PopGone
    <3>1. UNCHANGED <<cmd, cmdPc, out>>
      BY <2>8 DEF PopGone, cmdVars, logVars
    <3>2. AnswersInOrder'
      BY <3>1 DEF AnswersInOrder
    <3> QED BY <2>1, <2>2, <2>5, <2>6, <2>7, <3>1, <3>2
  <2>9. CASE PopLocal
    <3>1. UNCHANGED <<cmd, cmdPc>> /\ h.client \in Client
          /\ out' = Write(h.client, Answer("local", h.id))
      BY <2>3, <2>9 DEF PopLocal, cmdVars, h, TypeOK
    <3>2. Answer("local", h.id) \in Message /\ Answer("local", h.id).id = h.id
      BY <2>4, AnswerType DEF Answer
    <3>3. \A d \in Client : \/ out'[d] = out[d]
            \/ \E m \in Message : m.id = h.id /\ out'[d] = Append(out[d], m)
      BY <1>0, <3>1, <3>2, WriteFacts
    <3>4. AnswersInOrder' /\ \A d \in Client : \A k \in DOMAIN out'[d] :
             out'[d][k].id = h.id \/ \E j \in DOMAIN out[d] : out'[d][k].id = out[d][j].id
      BY <2>4, <2>7, <3>3, OrderGrows
    <3>5. \A c \in Client : \A k \in DOMAIN out'[c] : out'[c][k].id < nextId
            /\ \A j \in DOMAIN queue' : out'[c][k].id < queue'[j].id
      BY <2>4, <2>5, <2>7, <3>4
    <3> QED BY <2>1, <2>2, <2>5, <2>6, <3>1, <3>4, <3>5
  <2>10. CASE PopSubscribe \/ PopForward
    <3>1. cmd' = h /\ UNCHANGED out
      BY <2>3, <2>10 DEF PopSubscribe, PopForward, logVars, h
    <3>2. AnswersInOrder'
      BY <3>1 DEF AnswersInOrder
    <3> QED BY <2>1, <2>4, <2>5, <2>6, <2>7, <3>1, <3>2
  <2> QED BY <1>4, <2>8, <2>9, <2>10
<1>5. CASE CmdUnion \/ CmdStore \/ Rewrite \/ Build \/ Publish \/ WaitDone \/ Finish
           \/ Undo \/ Unset
  <2>1. UNCHANGED <<queue, nextId, out>> /\ cmdPc \notin {"pop", "done"}
    BY <1>5 DEF CmdUnion, CmdStore, Rewrite, Build, Publish, WaitDone, Finish, Undo, Unset,
                Over, listVars, pushVars, logVars
  <2>2. cmd'.id = cmd.id
    BY <1>0, <1>5 DEF CmdUnion, CmdStore, Rewrite, Build, Publish, WaitDone, Finish, Undo,
                      Unset, Command
  <2>3. AnswersInOrder'
    BY <2>1 DEF AnswersInOrder
  <2> QED BY <2>1, <2>2, <2>3
<1>6. ASSUME UNCHANGED <<queue, nextId, cmd>>, cmd.id # 0,
             \A d \in Client : \/ out'[d] = out[d]
               \/ \E m \in Message : m.id = cmd.id /\ out'[d] = Append(out[d], m)
      PROVE  OrderInv'
  <2>1. AnswersInOrder' /\ \A d \in Client : \A k \in DOMAIN out'[d] :
          out'[d][k].id = cmd.id \/ \E j \in DOMAIN out[d] : out'[d][k].id = out[d][j].id
    BY <1>0, <1>6, OrderGrows
  <2>2. \A d \in Client : \A k \in DOMAIN out'[d] :
          /\ out'[d][k].id < nextId /\ out'[d][k].id <= cmd.id
          /\ \A j \in DOMAIN queue : out'[d][k].id < queue[j].id
    <3> SUFFICES ASSUME NEW d \in Client, NEW k \in DOMAIN out'[d]
                 PROVE  /\ out'[d][k].id < nextId /\ out'[d][k].id <= cmd.id
                        /\ \A j \in DOMAIN queue : out'[d][k].id < queue[j].id
      OBVIOUS
    <3>1. cmd.id \in Nat /\ cmd.id < nextId /\ \A j \in DOMAIN queue : cmd.id < queue[j].id
      BY <1>0, <1>6
    <3>2. CASE out'[d][k].id = cmd.id
      BY <3>1, <3>2
    <3>3. CASE \E j \in DOMAIN out[d] : out'[d][k].id = out[d][j].id
      <4>1. PICK i \in DOMAIN out[d] : out'[d][k].id = out[d][i].id
        BY <3>3
      <4>2. /\ out[d][i].id < nextId /\ out[d][i].id <= cmd.id
            /\ \A j \in DOMAIN queue : out[d][i].id < queue[j].id
        BY <1>6
      <4> QED BY <4>1, <4>2
    <3> QED BY <2>1, <3>2, <3>3
  <2> QED BY <1>0, <1>6, <2>1, <2>2
<1>7. CASE Tell
  <2>1. UNCHANGED <<queue, nextId, cmd>> /\ cmd.id # 0 /\ cmd.client \in Client
    BY <1>0, <1>7 DEF Tell, Over, Unanswered, listVars, pushVars, HandInv, Command,
                      ClientOrNull
  <2>2. Answer("timeout", cmd.id) \in Message /\ Answer("timeout", cmd.id).id = cmd.id
    BY <1>0, AnswerType DEF Answer
  <2>3. out' = Write(cmd.client, Answer("timeout", cmd.id))
    BY <1>7 DEF Tell
  <2>4. \A d \in Client : \/ out'[d] = out[d]
                         \/ out'[d] = Append(out[d], Answer("timeout", cmd.id))
    BY <1>0, <2>1, <2>2, <2>3, WriteFacts
  <2> QED BY <1>6, <2>1, <2>2, <2>4
<1>8. CASE Relay
  <2>1. UNCHANGED <<queue, nextId, cmd, cmdPc>>
    BY <1>8 DEF Relay, listVars, pushVars, cmdVars
  <2>2. CASE current.client = NoClient
    <3>1. UNCHANGED out
      BY <1>8, <2>2 DEF Relay
    <3>2. AnswersInOrder'
      BY <3>1 DEF AnswersInOrder
    <3> QED BY <2>1, <3>1, <3>2
  <2>3. CASE current.client # NoClient
    <3>1. current.client = cmd.client /\ current.id = cmd.id /\ current.client \in Client
      BY <2>3 DEF HandInv, TypeOK, Current, ClientOrNull
    <3>2. cmd.id # 0
      BY <2>3, <3>1 DEF HandInv, NullCommand
    <3>3. PICK f \in SUBSET Flags :
            out' = Write(current.client, [kind |-> "relay", id |-> current.id,
                                          rid |-> frame.id, flags |-> f])
      BY <1>8, <2>3, <3>1 DEF Relay, TypeOK
    <3> DEFINE m == [kind |-> "relay", id |-> current.id, rid |-> frame.id, flags |-> f]
    <3>4. m \in Message /\ m.id = cmd.id
      BY <1>0, <3>1 DEF Message, TypeOK, Frame
    <3>5. out' = Write(current.client, m)
      BY <3>3
    <3> HIDE DEF m
    <3>6. \A d \in Client : out'[d] = out[d] \/ (d = current.client /\ out'[d] = Append(out[d], m))
      BY <1>0, <3>1, <3>4, <3>5, WriteFacts
    <3> QED BY <1>6, <2>1, <3>2, <3>4, <3>6
  <2> QED BY <2>2, <2>3
<1>9. ASSUME NEW n \in Notif, HandleNotif(n) PROVE OrderInv'
  <2> DEFINE m == [kind |-> "notif", id |-> 0, rid |-> 0, flags |-> {n}]
  <2>1. m \in Message /\ m.id = 0
    BY DEF Message, Flags
  <2>2. UNCHANGED <<queue, nextId, cmd, cmdPc>>
    BY <1>9 DEF HandleNotif, listVars, pushVars, cmdVars
  <2>3. \A d \in Client : out'[d] = out[d] \/ out'[d] = Append(out[d], m)
    BY <1>9 DEF HandleNotif
  <2> HIDE DEF m
  <2>4. \A d \in Client : \/ out'[d] = out[d]
                         \/ \E e \in Message : e.id = 0 /\ out'[d] = Append(out[d], e)
    BY <2>1, <2>3
  <2>5. AnswersInOrder
    BY <1>0
  <2> HIDE DEF OrderInv
  <2>6. AnswersInOrder' /\ \A d \in Client : \A k \in DOMAIN out'[d] :
          out'[d][k].id = 0 \/ \E j \in DOMAIN out[d] : out'[d][k].id = out[d][j].id
    BY <2>4, <2>5, OrderGrows
  <2> QED BY <1>0, <2>2, <2>6 DEF OrderInv
<1>10. CASE Clear
  <2>1. UNCHANGED <<queue, nextId, out>> /\ cmd' = NullCommand /\ cmdPc' = "pop"
    BY <1>10 DEF Clear, pushVars, logVars
  <2>2. cmd'.id = 0
    BY <2>1 DEF NullCommand
  <2>3. AnswersInOrder'
    BY <2>1 DEF AnswersInOrder
  <2>4. \A k \in DOMAIN queue : 0 < queue[k].id
    BY <1>0
  <2> QED BY <2>1, <2>2, <2>3, <2>4
<1>11. CASE CmdExit
  <2>1. UNCHANGED <<queue, nextId, out, cmd>> /\ cmdPc' = "done"
    BY <1>11 DEF CmdExit, listVars, pushVars, logVars
  <2>2. AnswersInOrder'
    BY <2>1 DEF AnswersInOrder
  <2> QED BY <2>1, <2>2
<1>12. CASE MainStop
  <2>1. UNCHANGED <<nextId, out, cmd, cmdPc>> /\ queue' = <<>>
    BY <1>12 DEF MainStop, cmdVars, logVars
  <2>2. AnswersInOrder'
    BY <2>1 DEF AnswersInOrder
  <2> QED BY <2>1, <2>2
<1>13. CASE /\ ~(\E c \in Client, r \in Request : HandleCommand(c, r)) /\ ~IoPush
            /\ ~PopGone /\ ~PopLocal /\ ~PopSubscribe /\ ~PopForward /\ ~CmdUnion
            /\ ~CmdStore /\ ~Rewrite /\ ~Build /\ ~Publish /\ ~WaitDone /\ ~Finish
            /\ ~Undo /\ ~Unset /\ ~Tell /\ ~Clear /\ ~CmdExit /\ ~Relay
            /\ ~(\E n \in Notif : HandleNotif(n)) /\ ~MainStop
  <2>1. UNCHANGED <<queue, nextId, cmd, cmdPc, out>>
    BY <1>13, OrderUntouched
  <2>2. AnswersInOrder'
    BY <2>1 DEF AnswersInOrder
  <2> QED BY <2>1, <2>2
<1> QED
  BY <1>2, <1>3, <1>4, <1>5, <1>7, <1>8, <1>9, <1>10, <1>11, <1>12, <1>13

LEMMA OrderAlways == Spec => []OrderInv
<1>1. Spec => []TypeOK
  BY TypeCorrect
<1>2. Spec => []HandInv
  BY HandAlways
<1> QED BY <1>1, <1>2, InitOrder, NextOrder, PTL DEF Spec

\* For any number of clients and commands, the responses a client is written are
\* in the order of its commands: the mux protocol gives it nothing else to match
\* them by.
THEOREM AnswersStayInOrder == Spec => []AnswersInOrder
<1>3. Spec => []OrderInv
  BY OrderAlways
<1>4. OrderInv => AnswersInOrder
  BY DEF OrderInv
<1> QED BY <1>3, <1>4, PTL

-----------------------------------------------------------------------------
(* Every command is answered before the loop moves on *)

LEMMA OutUntouched ==
    ASSUME [Next]_vars, ~PopLocal, ~Tell, ~Relay, ~(\E n \in Notif : HandleNotif(n))
    PROVE  UNCHANGED out
BY DEF Next, CmdStep, PicStep, FindClient, IoStep, MainStep, EnvStep, ResetStep, PopNothing,
   Terminated, vars, logVars, AddClient, HandleCommand, ReadError, Mark, Erase, IoStore, IoPush,
   PopGone, PopSubscribe, PopForward, CmdUnion, CmdStore, Rewrite, Build, Publish, WaitDone,
   Finish, Undo, Unset, Clear, CmdExit, ResetStop, ResetClose, ResetEmpty, ResetIo, Recv,
   Validate, Deliver, Commit, PicardReset, PicExit, MainStop, MainJoinCmd, MainJoinListen,
   MainJoinPic, ListenStep, ListenAtOnce, ListenLate, SpuriousWake, MgrAnswer, Lose

\* A step writes at most one message to a client; a notification only to a
\* client that can be written to and whose committed filter has the type.
LEMMA OutStep ==
    ASSUME TypeOK, HandInv, [Next]_vars, NEW d \in Client
    PROVE  \/ out'[d] = out[d]
           \/ \E m \in Message :
                /\ out'[d] = Append(out[d], m)
                /\ m.kind = "notif" => /\ Writable(d)
                                       /\ \E n \in params[d] : m.flags = {n}
<1>0. out \in [Client -> Seq(Message)]
  BY DEF TypeOK
<1>1. CASE PopLocal
  <2>1. Head(queue) \in Command /\ Head(queue).client \in Client
    BY <1>1, HeadTail DEF PopLocal, TypeOK
  <2> DEFINE m == Answer("local", Head(queue).id)
  <2>2. m \in Message /\ m.kind # "notif"
    BY <2>1, AnswerType DEF Command, Answer
  <2>3. out' = Write(Head(queue).client, m)
    BY <1>1 DEF PopLocal
  <2> HIDE DEF m
  <2> QED BY <1>0, <2>1, <2>2, <2>3, WriteFacts
<1>2. CASE Tell
  <2> DEFINE m == Answer("timeout", cmd.id)
  <2>1. m \in Message /\ m.kind # "notif"
    BY AnswerType DEF Command, Answer, TypeOK
  <2>2. cmd.client \in Client /\ out' = Write(cmd.client, m)
    BY <1>2 DEF Tell, Over, Unanswered, HandInv, TypeOK, Command, ClientOrNull
  <2> HIDE DEF m
  <2> QED BY <1>0, <2>1, <2>2, WriteFacts
<1>3. CASE Relay
  <2>1. CASE current.client = NoClient
    BY <1>3, <2>1 DEF Relay
  <2>2. CASE current.client # NoClient
    <3>1. current.client \in Client /\ current.id \in Nat /\ frame.id \in Nat
      BY <2>2 DEF TypeOK, Current, ClientOrNull, Frame
    <3>2. PICK f \in SUBSET Flags :
            out' = Write(current.client, [kind |-> "relay", id |-> current.id,
                                          rid |-> frame.id, flags |-> f])
      BY <1>3, <2>2, <3>1 DEF Relay, TypeOK
    <3> DEFINE m == [kind |-> "relay", id |-> current.id, rid |-> frame.id, flags |-> f]
    <3>3. m \in Message /\ m.kind # "notif" /\ out' = Write(current.client, m)
      BY <3>1, <3>2 DEF Message
    <3> HIDE DEF m
    <3> QED BY <1>0, <3>1, <3>3, WriteFacts
  <2> QED BY <2>1, <2>2
<1>4. ASSUME NEW n \in Notif, HandleNotif(n)
      PROVE  \/ out'[d] = out[d]
             \/ \E m \in Message :
                  /\ out'[d] = Append(out[d], m)
                  /\ m.kind = "notif" => /\ Writable(d)
                                         /\ \E x \in params[d] : m.flags = {x}
  <2> DEFINE m == [kind |-> "notif", id |-> 0, rid |-> 0, flags |-> {n}]
  <2>1. m \in Message /\ m.flags = {n}
    BY DEF Message, Flags
  <2>2. \/ out'[d] = out[d]
        \/ out'[d] = Append(out[d], m) /\ Writable(d) /\ n \in params[d]
    BY <1>4 DEF HandleNotif, IsSubscribed
  <2> HIDE DEF m
  <2> QED BY <2>1, <2>2
<1>5. CASE ~PopLocal /\ ~Tell /\ ~Relay /\ ~(\E n \in Notif : HandleNotif(n))
  BY <1>5, OutUntouched
<1> QED BY <1>1, <1>2, <1>3, <1>4, <1>5

LEMMA OutGrows ==
    ASSUME TypeOK, HandInv, [Next]_vars, NEW d \in Client
    PROVE  \A k \in DOMAIN out[d] : k \in DOMAIN out'[d] /\ out'[d][k] = out[d][k]
<1>1. out \in [Client -> Seq(Message)]
  BY DEF TypeOK
<1>2. CASE out'[d] = out[d]
  BY <1>2
<1>3. ASSUME NEW m \in Message, out'[d] = Append(out[d], m)
      PROVE  \A k \in DOMAIN out[d] : k \in DOMAIN out'[d] /\ out'[d][k] = out[d][k]
  BY <1>1, <1>3, GrowFacts
<1> QED BY <1>2, <1>3, OutStep

\* A connection that was lost does not come back.
LEMMA WritableShrinks ==
    ASSUME TypeOK, [Next]_vars, NEW c \in Client, conn[c] # "free", Writable(c)'
    PROVE  Writable(c)
<1>1. conn \in [Client -> ConnStates]
  BY DEF TypeOK
<1>2. ASSUME NEW d \in Client, AddClient(d) PROVE Writable(c)
  BY <1>1, <1>2 DEF AddClient, Writable
<1>3. ASSUME NEW d \in Client, ReadError(d) PROVE Writable(c)
  BY <1>1, <1>3 DEF ReadError, Writable
<1>4. ASSUME NEW t \in ResetThreads, ResetClose(t) \/ ResetEmpty(t) PROVE Writable(c)
  BY <1>1, <1>4 DEF ResetClose, ResetEmpty, Writable
<1>5. CASE conn' = conn
  BY <1>5 DEF Writable
<1>6. CASE conn' # conn
  <2>1. \/ \E d \in Client : AddClient(d) \/ ReadError(d)
        \/ \E t \in ResetThreads : ResetClose(t) \/ ResetEmpty(t)
    BY <1>6
    DEF Next, CmdStep, PicStep, FindClient, IoStep, MainStep, EnvStep, ResetStep, PopNothing,
        Terminated, vars, listVars, clientVars, HandleCommand, Mark, Erase, IoStore, IoPush,
        PopGone, PopLocal, PopSubscribe, PopForward, CmdUnion, CmdStore, Rewrite, Build,
        Publish, WaitDone, Finish, Undo, Unset, Tell, Clear, CmdExit, ResetStop, ResetIo, Recv,
        Validate, Deliver, Relay, Commit, HandleNotif, PicardReset, PicExit, MainStop,
        MainJoinCmd, MainJoinListen, MainJoinPic, ListenStep, ListenAtOnce, ListenLate,
        SpuriousWake, MgrAnswer, Lose
  <2> QED BY <1>2, <1>3, <1>4, <2>1
<1> QED BY <1>5, <1>6

LEMMA AnsweredStays ==
    ASSUME TypeOK, HandInv, [Next]_vars, NEW c \in Client, conn[c] # "free", NEW i,
           Writable(c) => Answered(c, i)
    PROVE  Writable(c)' => \E k \in DOMAIN out'[c] : out'[c][k].id = i
BY WritableShrinks, OutGrows DEF Answered

LEMMA InitAnswer == Init => AnswerInv
BY DEF Init, AnswerInv, AnsweredBeforeCleared, AsCurrent

LEMMA HandStepUntouched ==
    ASSUME [Next]_vars, ~Mark, ~PopSubscribe, ~PopForward, ~CmdUnion, ~CmdStore, ~Rewrite,
           ~Build, ~Publish, ~WaitDone, ~Finish, ~Undo, ~Unset, ~Tell, ~Clear, ~CmdExit,
           ~Deliver
    PROVE  UNCHANGED <<current, cmd, cmdPc, cmdResult>>
BY DEF Next, CmdStep, PicStep, FindClient, IoStep, MainStep, EnvStep, ResetStep, PopNothing,
   Terminated, vars, listVars, cmdVars, AddClient, HandleCommand, ReadError, Erase, IoStore,
   IoPush, PopGone, PopLocal, ResetStop, ResetClose, ResetEmpty, ResetIo, Recv, Validate, Relay,
   Commit, HandleNotif, PicardReset, PicExit, MainStop, MainJoinCmd, MainJoinListen,
   MainJoinPic, ListenStep, ListenAtOnce, ListenLate, SpuriousWake, MgrAnswer, Lose

\* What the Picard thread is about to do is left to it.
LEMMA RelayStays ==
    ASSUME [Next]_vars, Relaying, ~Relay, current.client # NoClient
    PROVE  Relaying'
BY DEF Relaying, Next, CmdStep, PicStep, FindClient, IoStep, MainStep, EnvStep, ResetStep,
   PopNothing, Terminated, vars, linkVars, picVars, AddClient, HandleCommand, ReadError, Mark,
   Erase, IoStore, IoPush, PopGone, PopLocal, PopSubscribe, PopForward, CmdUnion, CmdStore,
   Rewrite, Build, Publish, WaitDone, Finish, Undo, Unset, Tell, Clear, CmdExit, ResetStop,
   ResetClose, ResetEmpty, ResetIo, Recv, Reading, Validate, Deliver, Commit, HandleNotif,
   PicardReset, PicExit, MainStop, MainJoinCmd, MainJoinListen, MainJoinPic, ListenStep,
   ListenAtOnce, ListenLate, SpuriousWake, MgrAnswer, Lose

LEMMA NextAnswer == TypeOK /\ HandInv /\ AnswerInv /\ [Next]_vars => AnswerInv'
<1> SUFFICES ASSUME TypeOK, HandInv, AnswerInv, [Next]_vars PROVE AnswerInv'
  OBVIOUS
<1>0. /\ current \in Current /\ cmd \in Command /\ out \in [Client -> Seq(Message)]
      /\ current.client # NoClient => current.client \in Client
      /\ cmd.client # NoClient => cmd.client \in Client
  BY DEF TypeOK, Current, Command, ClientOrNull
<1>a. \A c \in Client, i \in Nat :
        /\ conn[c] # "free" /\ (Writable(c) => Answered(c, i))
        /\ conn'[c] \in {"open", "eof"}
        => \E k \in DOMAIN out'[c] : out'[c][k].id = i
  BY AnsweredStays DEF Writable
<1>b. current.id \in Nat /\ cmd.id \in Nat
  BY <1>0 DEF Current, Command
\* A written answer stays; one that is about to be written still is, or is written.
<1>c. ASSUME current.client # NoClient, current.result = "OK",
             conn'[current.client] \in {"open", "eof"}
      PROVE  \/ \E k \in DOMAIN out'[current.client] : out'[current.client][k].id = current.id
             \/ Relaying
  <2>1. conn[current.client] # "free"
    BY <1>c DEF HandInv
  <2>2. (Writable(current.client) => Answered(current.client, current.id)) \/ Relaying
    BY <1>c DEF AnswerInv
  <2> QED BY <1>0, <1>a, <1>b, <1>c, <2>1, <2>2
<1>1. ASSUME current.client # NoClient, current.result = "OK",
             conn'[current.client] \in {"open", "eof"}, ~Relay
      PROVE  \/ \E k \in DOMAIN out'[current.client] : out'[current.client][k].id = current.id
             \/ Relaying'
  BY <1>c, <1>1, RelayStays
<1>2. ASSUME cmd.client # NoClient, conn'[cmd.client] \in {"open", "eof"},
             (cmdPc = "send" /\ cmdResult = "OK") \/ cmdPc = "clear"
      PROVE  \E k \in DOMAIN out'[cmd.client] : out'[cmd.client][k].id = cmd.id
  <2>1. conn[cmd.client] # "free"
    BY <1>2 DEF HandInv
  <2>2. Writable(cmd.client) => Answered(cmd.client, cmd.id)
    BY <1>2 DEF AnswerInv, AnsweredBeforeCleared
  <2> QED BY <1>0, <1>a, <1>b, <1>2, <2>1, <2>2
<1> USE DEF AnswerInv, AnsweredBeforeCleared, Answered, Writable
<1>3. CASE (PopSubscribe \/ CmdUnion \/ CmdStore \/ CmdExit \/ Undo \/ Unset) /\ ~Relay
  <2>1. UNCHANGED current /\ cmdPc' \notin {"send", "clear"}
    BY <1>3 DEF PopSubscribe, CmdUnion, CmdStore, CmdExit, Undo, Unset, listVars
  <2> QED BY <1>1, <1>3, <2>1
<1>4. CASE (Build \/ Publish) /\ ~Relay
  <2>1. /\ current'.client = current.client /\ current'.result = current.result
        /\ current'.id = current.id /\ cmdPc' \notin {"send", "clear"}
    BY <1>0, <1>4 DEF Build, Publish, listVars, Current
  <2> QED BY <1>1, <1>4, <2>1
<1>5. CASE PopForward \/ Rewrite
  <2>1. current'.result = "TIMEOUT" /\ cmdResult' = "TIMEOUT" /\ cmdPc' = "send"
    BY <1>5 DEF PopForward, Rewrite, AsCurrent
  <2> QED BY <2>1
<1>6. CASE Clear
  <2>1. current'.result = "TIMEOUT" /\ cmdPc' = "pop"
    BY <1>6 DEF Clear, AsCurrent
  <2> QED BY <2>1
<1>7. CASE WaitDone /\ ~Relay
  <2>1. /\ UNCHANGED <<current, cmd>> /\ cmdResult' = current.result /\ cmdPc' = "send"
        /\ ~Relaying
    BY <1>7 DEF WaitDone, listVars, MutexFree, Relaying
  <2>2. current.client = cmd.client /\ current.id = cmd.id
    BY <1>7 DEF WaitDone, HandInv
  <2>3. ASSUME current.client # NoClient, current.result = "OK",
               conn'[current.client] \in {"open", "eof"}
        PROVE  \E k \in DOMAIN out'[current.client] : out'[current.client][k].id = current.id
    BY <1>c, <2>1, <2>3
  <2> QED BY <2>1, <2>2, <2>3
<1>8. CASE Finish /\ ~Relay
  <2>1. UNCHANGED <<current, cmd>> /\ cmdPc' = "clear" /\ cmdPc = "send"
        /\ (cmd.client = NoClient \/ cmdResult = "OK")
    BY <1>8 DEF Finish, Over, Unanswered, listVars
  <2> QED BY <1>1, <1>2, <1>8, <2>1
<1>12. CASE Tell /\ ~Relay
  <2>1. UNCHANGED <<current, cmd, conn>> /\ cmdPc' = "clear" /\ cmd.client # NoClient
    BY <1>12 DEF Tell, Over, Unanswered, HandInv, listVars, clientVars
  <2> DEFINE m == Answer("timeout", cmd.id)
  <2>2. m \in Message /\ m.id = cmd.id
    BY <1>0, AnswerType DEF Answer, Command
  <2>3. cmd.client \in Client /\ out' = Write(cmd.client, m)
    BY <1>0, <1>12, <2>1 DEF Tell
  <2> HIDE DEF m
  <2>4. ASSUME conn[cmd.client] \in {"open", "eof"}
        PROVE  \E k \in DOMAIN out'[cmd.client] : out'[cmd.client][k].id = cmd.id
    <3>1. out'[cmd.client] = Append(out[cmd.client], m)
      BY <1>0, <2>3, <2>4 DEF Write
    <3>2. Len(out[cmd.client]) + 1 \in DOMAIN out'[cmd.client]
          /\ out'[cmd.client][Len(out[cmd.client]) + 1] = m
      BY <1>0, <2>2, <2>3, <3>1, GrowFacts
    <3> QED BY <2>2, <3>2
  <2> QED BY <1>1, <1>12, <2>1, <2>4
<1>9. CASE Mark
  <2>1. current'.result = "DISCONNECT" /\ UNCHANGED <<cmd, cmdPc, cmdResult>>
    BY <1>0, <1>9 DEF Mark, cmdVars, Current
  <2> QED BY <1>2, <2>1
<1>13. CASE Deliver
  <2>1. /\ UNCHANGED <<cmd, cmdPc, cmdResult>> /\ Relaying'
    BY <1>13 DEF Deliver, cmdVars, Relaying
  <2> QED BY <1>2, <2>1
<1>10. CASE Relay
  <2>1. UNCHANGED <<current, cmd, cmdPc, cmdResult, conn>>
    BY <1>10 DEF Relay, listVars, cmdVars, clientVars
  <2>2. ASSUME current.client # NoClient, Writable(current.client)
        PROVE  \E k \in DOMAIN out'[current.client] : out'[current.client][k].id = current.id
    <3>1. current.client \in Client /\ current.id \in Nat /\ frame.id \in Nat
      BY <1>0, <2>2 DEF TypeOK, Current, Frame
    <3>2. PICK f \in SUBSET Flags :
            out' = Write(current.client, [kind |-> "relay", id |-> current.id,
                                          rid |-> frame.id, flags |-> f])
      BY <1>10, <2>2, <3>1 DEF Relay, TypeOK
    <3> DEFINE m == [kind |-> "relay", id |-> current.id, rid |-> frame.id, flags |-> f]
    <3>3. m \in Message /\ m.id = current.id /\ out' = Write(current.client, m)
      BY <3>1, <3>2 DEF Message
    <3> HIDE DEF m
    <3>4. out'[current.client] = Append(out[current.client], m)
      BY <1>0, <2>2, <3>1, <3>3 DEF Write
    <3>5. Len(out[current.client]) + 1 \in DOMAIN out'[current.client]
          /\ out'[current.client][Len(out[current.client]) + 1] = m
      BY <1>0, <3>1, <3>3, <3>4, GrowFacts
    <3> QED BY <3>3, <3>5
  <2>3. \A c : Writable(c)' => Writable(c)
    BY <2>1 DEF Writable
  <2> QED BY <1>2, <2>1, <2>2, <2>3
<1>11. CASE /\ ~Mark /\ ~PopSubscribe /\ ~PopForward /\ ~CmdUnion /\ ~CmdStore /\ ~Rewrite
            /\ ~Build /\ ~Publish /\ ~WaitDone /\ ~Finish /\ ~Undo /\ ~Unset /\ ~Tell
            /\ ~Clear /\ ~CmdExit /\ ~Deliver /\ ~Relay
  <2>1. UNCHANGED <<current, cmd, cmdPc, cmdResult>>
    BY <1>11, HandStepUntouched
  <2> QED BY <1>1, <1>2, <1>11, <2>1
<1> QED BY <1>3, <1>4, <1>5, <1>6, <1>7, <1>8, <1>9, <1>10, <1>11, <1>12, <1>13

\* The command loop never leaves a client that can still be written to without a
\* response, whatever timeouts, read errors and late answers do to
\* m_currentCommand.result.
THEOREM AnsweredBeforeMovingOn == Spec => []AnsweredBeforeCleared
<1>1. Spec => []TypeOK
  BY TypeCorrect
<1>2. Spec => []HandInv
  BY HandAlways
<1>3. Spec => []AnswerInv
  BY <1>1, <1>2, InitAnswer, NextAnswer, PTL DEF Spec
<1>4. AnswerInv => AnsweredBeforeCleared
  BY DEF AnswerInv
<1> QED BY <1>3, <1>4, PTL

-----------------------------------------------------------------------------
(* Where responses go and what they leave behind: subscription transactions *)
(* are closed, an undisturbed epoch routes every response to its command,   *)
(* and mux and Manager then agree on the filter                             *)

\* The frames between sendCommand and the end of commandComplete, and their
\* number.
Handling == picPc \in {"validate", "deliver", "check", "relay", "commit"}

InFlight == {toMgr[i] : i \in DOMAIN toMgr} \cup {fromMgr[i] : i \in DOMAIN fromMgr}
              \cup (IF Handling THEN {frame} ELSE {})

Flying == Len(toMgr) + Len(fromMgr) + (IF Handling THEN 1 ELSE 0)

\* m_currentCommand is empty until the command in hand is ready to be sent; what
\* is in flight answers a command that was taken from the queue, and the type of
\* the response is the type of that command.
FlightInv ==
    /\ cmdPc \in {"pop", "union", "store", "rewrite", "done"} => current.client = NoClient
    /\ \A f \in InFlight :
         /\ f.id # 0 /\ f.id < nextId
         /\ cmd.id # 0 => f.id <= cmd.id
         /\ f.id = cmd.id => /\ f.type = cmd.type
                             /\ cmdPc \notin {"union", "store", "rewrite"}
         /\ \A k \in DOMAIN queue : f.id < queue[k].id

\* A transaction that a response committed or a timeout undid, or that was never
\* opened; and the only one that may be open.
Closed(c) == ~inTxn[c] /\ newParams[c] = params[c]

Working(c) ==
    /\ cmdPc \in {"union", "store", "rewrite", "send", "publish", "wait", "unset"}
    /\ cmd.client = c /\ cmd.type = "SUBSCRIBE"

\* CLIENT_OK, in m_currentCommand and in the copy commandLoop decides on, means
\* that the transaction was committed; in m_currentCommand commandComplete may
\* still be about to commit it.
TxnInv ==
    "misrouted" \notin trouble =>
        /\ \A c \in Client : Working(c) \/ Closed(c)
        /\ cmdPc \in {"send", "publish", "wait"} /\ cmd.client # NoClient
             /\ current.result = "OK" /\ MutexFree => Closed(cmd.client)
        /\ cmdPc = "send" /\ cmd.client # NoClient /\ cmdResult = "OK" => Closed(cmd.client)

\* Nothing has made commandLoop leave a command whose response may still come.
Clean == trouble \cap {"timeout", "disconnect"} = {}

\* Then one frame at most is in flight, the one commandLoop waits for; it is none
\* once CLIENT_OK is set.
RouteInv ==
    Clean =>
        /\ Flying <= 1
        /\ cmdPc # "wait" \/ (current.result = "OK" /\ MutexFree) => Flying = 0
        /\ ~MutexFree => current.result = "OK"
        /\ \A f \in InFlight : f.id = cmd.id
        /\ current.result # "DISCONNECT"
        /\ cmdPc \in {"pop", "union", "store", "rewrite", "publish", "unset", "tell"} =>
             current.result = "TIMEOUT"
        /\ cmdPc = "send" => cmdResult = current.result
        /\ "misrouted" \notin trouble

\* A command in hand whose result is not CLIENT_OK has not been answered, and none
\* was answered twice.
UnansweredYet ==
    \A c \in Client : \A k \in DOMAIN out[c] : out[c][k].id # cmd.id

AnsweredOnce ==
    \A c \in Client : \A j, k \in DOMAIN out[c] :
        j # k /\ out[c][j].id = out[c][k].id => out[c][j].id = 0

OnceInv ==
    Clean =>
        /\ cmdPc \in {"union", "store", "rewrite", "send", "publish", "wait", "unset", "tell"}
             /\ (current.result # "OK" \/ Relaying) => UnansweredYet
        /\ AnsweredOnce

\* Nothing went wrong and no reset has begun.
Calm == trouble = {} /\ ~ioStopped /\ \A t \in ResetThreads : reset[t] = "none"

\* The filters in force, and the ones that will be once the command in hand is over.
Committed == UNION {params[c] : c \in clients}
Wanted    == UNION {newParams[c] : c \in clients}

\* A client that has not connected has no filter.  In a calm epoch nobody was
\* removed, so no command is without a client.
CalmInv ==
    /\ \A c \in Client : conn[c] = "free" => newParams[c] = {} /\ params[c] = {}
    /\ cmdPc \in {"union", "store", "rewrite"} => cmd.type = "SUBSCRIBE"
    /\ Calm =>
         /\ \A k \in DOMAIN queue : queue[k].client # NoClient
         /\ cmdPc \notin {"pop", "done"} => cmd.client # NoClient
         /\ ioPc \notin {"store", "push"}

\* The refusal of a subscribe between the two halves of commandComplete: the union
\* is back at its old value, and the response not yet delivered.
Refusing == picPc = "deliver" /\ frame.type = "SUBSCRIBE" /\ ~frame.ok

\* The Manager has accepted the request of the command in hand.
Accepted == \/ current.result = "OK"
            \/ Handling /\ frame.ok
            \/ \E i \in DOMAIN fromMgr : fromMgr[i].ok

\* m_filterUnion is the union of the filters in force until recomputeSubscribeFilter
\* stores the one with the new filter, which the request then carries; the Manager
\* has it once it has accepted.
UnionInv ==
    Calm =>
        /\ cmdPc \in {"pop", "union", "store", "clear", "done"} => filterUnion = Committed
        /\ cmdPc = "store" => cmdUnion = Wanted
        /\ cmdPc \in {"rewrite", "send", "publish", "wait"} /\ ~Refusing =>
             filterUnion = Wanted
        /\ cmdPc \in {"pop", "clear", "done"} =>
             mgrFilter \cap Notif = Committed \cap Notif
        /\ cmdPc \in {"send", "publish", "wait"} =>
             /\ cmd.type # "SUBSCRIBE" \/ Accepted =>
                  mgrFilter \cap Notif = Wanted \cap Notif
             /\ cmd.type = "SUBSCRIBE" => cmd.data \cap Notif = Wanted \cap Notif
             /\ \A i \in DOMAIN toMgr : toMgr[i].type = cmd.type /\ toMgr[i].data = cmd.data

-----------------------------------------------------------------------------
(* Frames in flight *)

\* Cutting the head off a sequence, and appending to it, in terms of its members.
LEMMA TailMembers ==
    ASSUME NEW S, NEW s \in Seq(S), s # <<>>
    PROVE  /\ {Tail(s)[i] : i \in DOMAIN Tail(s)} \subseteq {s[i] : i \in DOMAIN s}
           /\ Head(s) \in {s[i] : i \in DOMAIN s}
           /\ Len(Tail(s)) = Len(s) - 1 /\ Len(s) \in Nat /\ Len(s) > 0
<1>1. /\ \A i \in DOMAIN Tail(s) : i + 1 \in DOMAIN s /\ Tail(s)[i] = s[i + 1]
      /\ 1 \in DOMAIN s /\ Head(s) = s[1]
  BY TailFacts
<1>2. Len(Tail(s)) = Len(s) - 1 /\ Len(s) \in Nat /\ Len(s) > 0
  OBVIOUS
<1> QED BY <1>1, <1>2

LEMMA AppendMembers ==
    ASSUME NEW S, NEW s \in Seq(S), NEW e \in S
    PROVE  /\ {Append(s, e)[i] : i \in DOMAIN Append(s, e)}
                \subseteq {s[i] : i \in DOMAIN s} \cup {e}
           /\ Len(Append(s, e)) = Len(s) + 1 /\ Len(s) \in Nat
<1>1. /\ \A i \in DOMAIN s : i \in DOMAIN Append(s, e) /\ Append(s, e)[i] = s[i]
      /\ \A i \in DOMAIN Append(s, e) : i \in DOMAIN s \/ i = Len(s) + 1
      /\ Append(s, e)[Len(s) + 1] = e
  BY AppendFacts
<1>2. Len(Append(s, e)) = Len(s) + 1 /\ Len(s) \in Nat
  OBVIOUS
<1> QED BY <1>1, <1>2

LEMMA FlyingType ==
    ASSUME TypeOK
    PROVE  /\ Flying \in Nat /\ InFlight \subseteq Frame
           /\ Flying = 0 => toMgr = <<>> /\ fromMgr = <<>> /\ ~Handling /\ InFlight = {}
           /\ Handling => Flying # 0
<1>1. toMgr \in Seq(Frame) /\ fromMgr \in Seq(Frame) /\ frame \in Frame
  BY DEF TypeOK
<1>2. /\ Len(toMgr) \in Nat /\ Len(fromMgr) \in Nat
      /\ Len(toMgr) = 0 => toMgr = <<>> /\ {toMgr[i] : i \in DOMAIN toMgr} = {}
      /\ Len(fromMgr) = 0 => fromMgr = <<>> /\ {fromMgr[i] : i \in DOMAIN fromMgr} = {}
  BY <1>1
<1>3. {toMgr[i] : i \in DOMAIN toMgr} \subseteq Frame
      /\ {fromMgr[i] : i \in DOMAIN fromMgr} \subseteq Frame
  BY <1>1
<1>4. Flying \in Nat /\ (Flying = 0 => Len(toMgr) = 0 /\ Len(fromMgr) = 0 /\ ~Handling)
      /\ (Handling => Flying # 0)
  BY <1>2 DEF Flying
<1> QED BY <1>1, <1>2, <1>3, <1>4 DEF InFlight

LEMMA FlyingNext ==
    ASSUME TypeOK'
    PROVE  Flying' = 0 => ~Handling'
<1>1. Len(toMgr') \in Nat /\ Len(fromMgr') \in Nat
  BY DEF TypeOK
<1> QED BY <1>1 DEF Flying

LEMMA LinkUntouched ==
    ASSUME [Next]_vars, ~Publish, ~Recv, ~Validate, ~Deliver, ~FindClient, ~Relay,
           ~Commit, ~(\E ok \in BOOLEAN : MgrAnswer(ok)), ~Lose
    PROVE  UNCHANGED <<toMgr, fromMgr, frame, mgrFilter>>
           /\ (picPc' = picPc \/ (picPc = "read" /\ picPc' = "done"))
<1>1. CASE PicExit
  BY <1>1 DEF PicExit, Reading, mgrVars
<1>2. CASE ~PicExit
  <2>1. UNCHANGED <<toMgr, fromMgr, mgrFilter>>
    BY <1>2 DEF Next, CmdStep, PicStep, FindClient, IoStep, MainStep, EnvStep, ResetStep,
       PopNothing, Terminated, vars, linkVars, mgrVars, AddClient, HandleCommand, ReadError,
       Mark, Erase, IoStore, IoPush, PopGone, PopLocal, PopSubscribe, PopForward, CmdUnion,
       CmdStore, Rewrite, Build, WaitDone, Finish, Undo, Unset, Tell, Clear, CmdExit, ResetStop,
       ResetClose, ResetEmpty, ResetIo, HandleNotif, PicardReset, MainStop, MainJoinCmd,
       MainJoinListen, MainJoinPic, ListenStep, ListenAtOnce, ListenLate, SpuriousWake
  <2>2. UNCHANGED <<picPc, frame>>
    BY <1>2 DEF Next, CmdStep, PicStep, FindClient, IoStep, MainStep, EnvStep, ResetStep,
       PopNothing, Terminated, vars, linkVars, picVars, AddClient, HandleCommand, ReadError,
       Mark, Erase, IoStore, IoPush, PopGone, PopLocal, PopSubscribe, PopForward, CmdUnion,
       CmdStore, Rewrite, Build, WaitDone, Finish, Undo, Unset, Tell, Clear, CmdExit, ResetStop,
       ResetClose, ResetEmpty, ResetIo, HandleNotif, PicardReset, MainStop, MainJoinCmd,
       MainJoinListen, MainJoinPic, ListenStep, ListenAtOnce, ListenLate, SpuriousWake
  <2> QED BY <2>1, <2>2
<1> QED BY <1>1, <1>2

\* Only sendCommand brings a new frame into flight; on the way nothing is copied,
\* and the number and the type of a command stay with its frames.
LEMMA FlightStep ==
    ASSUME TypeOK, [Next]_vars, ~Publish
    PROVE  /\ Flying' \in Nat /\ Flying' <= Flying
           /\ (FindClient \/ Relay \/ Commit) /\ picPc' = "read" => Flying' = Flying - 1
           /\ \A f \in InFlight' : \E g \in InFlight : f.id = g.id /\ f.type = g.type
<1>0. toMgr \in Seq(Frame) /\ fromMgr \in Seq(Frame) /\ frame \in Frame
  BY DEF TypeOK
<1>1. Len(toMgr) \in Nat /\ Len(fromMgr) \in Nat
  BY <1>0
<1>r. (FindClient \/ Relay \/ Commit) => Handling /\ UNCHANGED <<toMgr, fromMgr>>
  BY DEF FindClient, Relay, Commit, Handling, mgrVars
<1> DEFINE T == {toMgr[i] : i \in DOMAIN toMgr}
           F == {fromMgr[i] : i \in DOMAIN fromMgr}
           T1 == {toMgr'[i] : i \in DOMAIN toMgr'}
           F1 == {fromMgr'[i] : i \in DOMAIN fromMgr'}
<1>a. InFlight = T \cup F \cup (IF Handling THEN {frame} ELSE {})
  BY DEF InFlight
<1>b. InFlight' = T1 \cup F1 \cup (IF Handling' THEN {frame'} ELSE {})
  BY DEF InFlight
<1>2. CASE Recv
  <2>1. /\ fromMgr # <<>> /\ fromMgr' = Tail(fromMgr) /\ toMgr' = toMgr /\ ~Handling
        /\ Handling' => frame' = Head(fromMgr)
    BY <1>2 DEF Recv, Reading, Handling, picVars
  <2>2. /\ F1 \subseteq F /\ T1 = T /\ Head(fromMgr) \in F
        /\ Len(fromMgr') = Len(fromMgr) - 1 /\ Len(fromMgr) > 0
    BY <1>0, <2>1, TailMembers
  <2>3. Flying' \in Nat /\ Flying' <= Flying
    BY <1>1, <2>1, <2>2 DEF Flying
  <2>4. InFlight' \subseteq InFlight
    BY <1>a, <1>b, <2>1, <2>2
  <2>5. ~(FindClient \/ Relay \/ Commit)
    BY <1>r, <2>1
  <2> QED BY <2>3, <2>4, <2>5
<1>3. CASE Validate \/ Deliver \/ FindClient \/ Relay \/ Commit
  <2>1. UNCHANGED <<toMgr, fromMgr>> /\ Handling /\ (Handling' => frame' = frame)
    BY <1>3 DEF Validate, Deliver, FindClient, Relay, Commit, Handling, mgrVars
  <2>2. /\ Flying' \in Nat /\ Flying' <= Flying
        /\ picPc' = "read" => Flying' = Flying - 1
    BY <1>1, <2>1 DEF Flying, Handling
  <2>3. InFlight' \subseteq InFlight
    BY <1>a, <1>b, <2>1
  <2> QED BY <2>2, <2>3
<1>4. ASSUME NEW ok \in BOOLEAN, MgrAnswer(ok)
      PROVE  /\ Flying' \in Nat /\ Flying' <= Flying /\ ~(FindClient \/ Relay \/ Commit)
             /\ \A f \in InFlight' : \E g \in InFlight : f.id = g.id /\ f.type = g.type
  <2> DEFINE r == Head(toMgr)
             a == [r EXCEPT !.ok = ok]
  <2>1. /\ toMgr # <<>> /\ fromMgr' = Append(fromMgr, a) /\ toMgr' = Tail(toMgr)
        /\ UNCHANGED <<picPc, frame>>
    BY <1>4 DEF MgrAnswer, picVars
  <2>2. r \in Frame
    BY <1>0, <2>1, HeadTail
  <2>3. a \in Frame /\ a.id = r.id /\ a.type = r.type
    BY <2>2 DEF Frame
  <2> HIDE DEF a
  <2>4. T1 \subseteq T /\ r \in T /\ Len(toMgr') = Len(toMgr) - 1
    BY <1>0, <2>1, TailMembers
  <2>5. F1 \subseteq F \cup {a} /\ Len(fromMgr') = Len(fromMgr) + 1
    BY <1>0, <2>1, <2>3, AppendMembers
  <2>6. Flying' = Flying /\ Flying \in Nat
    BY <1>1, <2>1, <2>4, <2>5 DEF Flying, Handling
  <2>7. InFlight' \subseteq InFlight \cup {a} /\ r \in InFlight
    BY <1>a, <1>b, <2>1, <2>4, <2>5 DEF Handling
  <2>8. ~(FindClient \/ Relay \/ Commit)
    <3>1. toMgr' # toMgr
      BY <1>1, <2>4
    <3> QED BY <1>r, <3>1
  <2> QED BY <2>3, <2>6, <2>7, <2>8
<1>5. CASE Lose
  <2>1. /\ UNCHANGED <<picPc, frame>>
        /\ \/ toMgr # <<>> /\ toMgr' = Tail(toMgr) /\ UNCHANGED fromMgr
           \/ fromMgr # <<>> /\ fromMgr' = Tail(fromMgr) /\ UNCHANGED toMgr
    BY <1>5 DEF Lose, picVars
  <2>2. /\ T1 \subseteq T /\ F1 \subseteq F
        /\ Len(toMgr') \in Nat /\ Len(toMgr') <= Len(toMgr)
        /\ Len(fromMgr') \in Nat /\ Len(fromMgr') <= Len(fromMgr)
    <3>1. CASE toMgr # <<>> /\ toMgr' = Tail(toMgr) /\ UNCHANGED fromMgr
      <4>1. T1 \subseteq T /\ Len(toMgr') = Len(toMgr) - 1 /\ Len(toMgr) > 0
        BY <1>0, <3>1, TailMembers
      <4> QED BY <1>1, <3>1, <4>1
    <3>2. CASE fromMgr # <<>> /\ fromMgr' = Tail(fromMgr) /\ UNCHANGED toMgr
      <4>1. F1 \subseteq F /\ Len(fromMgr') = Len(fromMgr) - 1 /\ Len(fromMgr) > 0
        BY <1>0, <3>2, TailMembers
      <4> QED BY <1>1, <3>2, <4>1
    <3> QED BY <2>1, <3>1, <3>2
  <2>3. Flying' \in Nat /\ Flying' <= Flying
    BY <1>1, <2>1, <2>2 DEF Flying, Handling
  <2>4. InFlight' \subseteq InFlight
    BY <1>a, <1>b, <2>1, <2>2 DEF Handling
  <2>5. ~(FindClient \/ Relay \/ Commit)
    <3>1. Len(toMgr') # Len(toMgr) \/ Len(fromMgr') # Len(fromMgr)
      BY <1>0, <2>1, TailMembers
    <3> QED BY <1>r, <3>1
  <2> QED BY <2>3, <2>4, <2>5
<1>6. CASE /\ ~Recv /\ ~Validate /\ ~Deliver /\ ~FindClient /\ ~Relay /\ ~Commit
           /\ ~(\E ok \in BOOLEAN : MgrAnswer(ok)) /\ ~Lose
  <2>1. UNCHANGED <<toMgr, fromMgr, frame>> /\ (Handling' = Handling)
    BY <1>6, LinkUntouched DEF Handling
  <2>2. Flying' = Flying /\ Flying \in Nat
    BY <1>1, <2>1 DEF Flying
  <2>3. InFlight' = InFlight
    BY <1>a, <1>b, <2>1
  <2> QED BY <1>6, <2>2, <2>3
<1> QED BY <1>2, <1>3, <1>4, <1>5, <1>6

\* sendCommand adds one frame, with the number and the type of the command in hand.
LEMMA FlightPublish ==
    ASSUME TypeOK, Publish
    PROVE  /\ Flying' = Flying + 1
           /\ \A f \in InFlight' : f \in InFlight \/ (f.id = cmd.id /\ f.type = cmd.type)
<1> DEFINE f == [type |-> cmd.type, data |-> cmd.data, seq |-> built, ok |-> FALSE,
                 id |-> cmd.id]
<1>0. toMgr \in Seq(Frame) /\ fromMgr \in Seq(Frame)
  BY DEF TypeOK
<1>1. f \in Frame /\ f.id = cmd.id /\ f.type = cmd.type
  BY DEF TypeOK, Command, Frame
<1>2. toMgr' = Append(toMgr, f) /\ UNCHANGED <<fromMgr, picPc, frame>>
  BY DEF Publish, picVars
<1> HIDE DEF f
<1>3. /\ {toMgr'[i] : i \in DOMAIN toMgr'} \subseteq {toMgr[i] : i \in DOMAIN toMgr} \cup {f}
      /\ Len(toMgr') = Len(toMgr) + 1 /\ Len(toMgr) \in Nat
  BY <1>0, <1>1, <1>2, AppendMembers
<1>4. Flying' = Flying + 1
  BY <1>0, <1>2, <1>3 DEF Flying, Handling
<1>5. InFlight' \subseteq InFlight \cup {f}
  BY <1>2, <1>3 DEF InFlight, Handling
<1> QED BY <1>1, <1>4, <1>5

LEMMA QueueUntouched ==
    ASSUME [Next]_vars, ~(\E c \in Client, r \in Request : HandleCommand(c, r)), ~IoPush,
           ~PopGone, ~PopLocal, ~PopSubscribe, ~PopForward, ~MainStop
    PROVE  UNCHANGED <<queue, nextId>>
BY DEF Next, CmdStep, PicStep, FindClient, IoStep, MainStep, EnvStep, ResetStep, PopNothing,
   Terminated, vars, listVars, pushVars, AddClient, ReadError, Mark, Erase, IoStore, CmdUnion,
   CmdStore, Rewrite, Build, Publish, WaitDone, Finish, Undo, Unset, Tell, Clear, CmdExit,
   ResetStop, ResetClose, ResetEmpty, ResetIo, Recv, Validate, Deliver, Relay, Commit,
   HandleNotif, PicardReset, PicExit, MainJoinCmd, MainJoinListen, MainJoinPic, ListenStep,
   ListenAtOnce, ListenLate, SpuriousWake, MgrAnswer, Lose

\* What is queued after a step was queued before it or is the command just pushed,
\* for no client only by removeClient; what leaves the queue leaves it at the head.
LEMMA QueueStep ==
    ASSUME TypeOK, [Next]_vars
    PROVE  /\ nextId' \in Nat /\ nextId' >= nextId
           /\ \A k \in DOMAIN queue' :
                \/ \E j \in DOMAIN queue : queue'[k] = queue[j]
                \/ queue'[k].id = nextId /\ (queue'[k].client = NoClient => IoPush)
<1>0. queue \in Seq(Command) /\ nextId \in Nat
  BY DEF TypeOK
<1>1. ASSUME NEW e \in Command, e.id = nextId, e.client = NoClient => IoPush,
             queue' = Append(queue, e), nextId' = nextId + 1
      PROVE  /\ nextId' \in Nat /\ nextId' >= nextId
             /\ \A k \in DOMAIN queue' :
                  \/ \E j \in DOMAIN queue : queue'[k] = queue[j]
                  \/ queue'[k].id = nextId /\ (queue'[k].client = NoClient => IoPush)
  <2>1. {queue'[k] : k \in DOMAIN queue'} \subseteq {queue[k] : k \in DOMAIN queue} \cup {e}
    BY <1>0, <1>1, AppendMembers
  <2>2. nextId' \in Nat /\ nextId' >= nextId
    BY <1>0, <1>1
  <2> QED BY <1>1, <2>1, <2>2
<1>2. ASSUME NEW c \in Client, NEW r \in Request, HandleCommand(c, r)
      PROVE  \E e \in Command : /\ e.id = nextId /\ (e.client = NoClient => IoPush)
                                /\ queue' = Append(queue, e) /\ nextId' = nextId + 1
  <2> DEFINE e == [client |-> c, type |-> r.type, data |-> r.data, short |-> r.short,
                   id |-> nextId]
  <2>1. e \in Command /\ e.id = nextId /\ e.client # NoClient
    BY <1>0, RequestAssumption, ClientAssumption DEF Command, ClientOrNull
  <2>2. queue' = Append(queue, e) /\ nextId' = nextId + 1
    BY <1>2 DEF HandleCommand
  <2> QED BY <2>1, <2>2
<1>3. ASSUME IoPush
      PROVE  \E e \in Command : /\ e.id = nextId /\ (e.client = NoClient => IoPush)
                                /\ queue' = Append(queue, e) /\ nextId' = nextId + 1
  <2> DEFINE e == [client |-> NoClient, type |-> "SUBSCRIBE", data |-> filterUnion,
                   short |-> FALSE, id |-> nextId]
  <2>1. e \in Command /\ e.id = nextId
    BY <1>0 DEF Command, ClientOrNull, Types, TypeOK
  <2>2. queue' = Append(queue, e) /\ nextId' = nextId + 1
    BY <1>3 DEF IoPush
  <2> QED BY <1>3, <2>1, <2>2
<1>4. CASE PopGone \/ PopLocal \/ PopSubscribe \/ PopForward
  <2>1. queue # <<>> /\ queue' = Tail(queue) /\ nextId' = nextId
    BY <1>4 DEF PopGone, PopLocal, PopSubscribe, PopForward
  <2>2. {queue'[k] : k \in DOMAIN queue'} \subseteq {queue[k] : k \in DOMAIN queue}
    BY <1>0, <2>1, TailMembers
  <2> QED BY <1>0, <2>1, <2>2
<1>5. CASE MainStop
  <2>1. queue' = <<>> /\ nextId' = nextId
    BY <1>5 DEF MainStop
  <2> QED BY <1>0, <2>1
<1>6. CASE /\ ~(\E c \in Client, r \in Request : HandleCommand(c, r)) /\ ~IoPush
           /\ ~PopGone /\ ~PopLocal /\ ~PopSubscribe /\ ~PopForward /\ ~MainStop
  <2>1. UNCHANGED <<queue, nextId>>
    BY <1>6, QueueUntouched
  <2> QED BY <1>0, <2>1
<1> QED BY <1>1, <1>2, <1>3, <1>4, <1>5, <1>6

\* The command in hand is taken from the head of the queue, keeps its number, its
\* client and its type, and is dropped at the end of the loop.
LEMMA CmdStepOf ==
    ASSUME TypeOK, [Next]_vars
    PROVE  \/ cmd'.id = cmd.id /\ cmd'.type = cmd.type /\ cmd'.client = cmd.client
           \/ /\ PopSubscribe \/ PopForward
              /\ 1 \in DOMAIN queue /\ cmd' = queue[1]
           \/ Clear /\ cmd' = NullCommand
<1>0. cmd \in Command /\ queue \in Seq(Command)
  BY DEF TypeOK
<1>1. CASE PopSubscribe \/ PopForward
  <2>1. queue # <<>> /\ cmd' = Head(queue)
    BY <1>1 DEF PopSubscribe, PopForward
  <2> QED BY <1>0, <1>1, <2>1, TailFacts
<1>2. CASE Clear
  BY <1>2 DEF Clear
<1>3. CASE Rewrite
  BY <1>0, <1>3 DEF Rewrite, Command
<1>4. CASE CmdUnion \/ CmdStore \/ Build \/ Publish \/ WaitDone \/ Finish \/ Undo \/ Unset
           \/ Tell \/ CmdExit \/ Mark \/ Deliver
  BY <1>4 DEF CmdUnion, CmdStore, Build, Publish, WaitDone, Finish, Undo, Unset, Tell,
              CmdExit, Mark, Deliver, cmdVars
<1>5. CASE /\ ~Mark /\ ~PopSubscribe /\ ~PopForward /\ ~CmdUnion /\ ~CmdStore /\ ~Rewrite
           /\ ~Build /\ ~Publish /\ ~WaitDone /\ ~Finish /\ ~Undo /\ ~Unset /\ ~Tell
           /\ ~Clear /\ ~CmdExit /\ ~Deliver
  BY <1>5, HandStepUntouched
<1> QED BY <1>1, <1>2, <1>3, <1>4, <1>5

\* Only setSubscription starts recomputeSubscribeFilter.
LEMMA PcFrom ==
    ASSUME [Next]_vars, ~PopSubscribe, cmdPc' \in {"union", "store", "rewrite"}
    PROVE  cmdPc \in {"union", "store"} \/ cmdPc' = cmdPc
<1>1. CASE CmdUnion \/ CmdStore
  BY <1>1 DEF CmdUnion, CmdStore
<1>2. CASE PopForward \/ Rewrite \/ Build \/ Publish \/ WaitDone \/ Finish \/ Undo \/ Unset
           \/ Tell \/ Clear \/ CmdExit
  BY <1>2 DEF PopForward, Rewrite, Build, Publish, WaitDone, Finish, Undo, Unset, Tell, Clear,
              CmdExit
<1>3. CASE Mark \/ Deliver
  BY <1>3 DEF Mark, Deliver, cmdVars
<1>4. CASE /\ ~Mark /\ ~PopSubscribe /\ ~PopForward /\ ~CmdUnion /\ ~CmdStore /\ ~Rewrite
           /\ ~Build /\ ~Publish /\ ~WaitDone /\ ~Finish /\ ~Undo /\ ~Unset /\ ~Tell
           /\ ~Clear /\ ~CmdExit /\ ~Deliver
  BY <1>4, HandStepUntouched
<1> QED BY <1>1, <1>2, <1>3, <1>4

LEMMA InitFlight == Init => FlightInv
BY DEF Init, FlightInv, InFlight, Handling, AsCurrent, NullCommand

LEMMA NextFlight == TypeOK /\ HandInv /\ OrderInv /\ FlightInv /\ [Next]_vars => FlightInv'
<1> SUFFICES ASSUME TypeOK, HandInv, OrderInv, FlightInv, [Next]_vars PROVE FlightInv'
  OBVIOUS
<1>0. /\ current \in Current /\ cmd.id \in Nat /\ nextId \in Nat
      /\ \A k \in DOMAIN queue : queue[k].id \in Nat
      /\ \A f \in InFlight : f.id \in Nat
  <2>1. /\ current \in Current /\ cmd \in Command /\ nextId \in Nat
        /\ \A k \in DOMAIN queue : queue[k] \in Command
    BY DEF TypeOK
  <2>2. InFlight \subseteq Frame
    BY FlyingType
  <2> QED BY <2>1, <2>2 DEF Command, Frame
<1>1. (cmdPc \in {"pop", "union", "store", "rewrite", "done"} => current.client = NoClient)'
  <2>1. CASE PopSubscribe \/ CmdUnion \/ CmdStore \/ CmdExit
    <3>1. /\ cmdPc \in {"pop", "union", "store"} /\ UNCHANGED current
      BY <2>1 DEF PopSubscribe, CmdUnion, CmdStore, CmdExit, listVars
    <3> QED BY <3>1 DEF FlightInv
  <2>2. CASE PopForward \/ Rewrite \/ Build \/ Publish \/ WaitDone \/ Finish \/ Undo
             \/ Unset \/ Tell
    BY <2>2 DEF PopForward, Rewrite, Build, Publish, WaitDone, Finish, Undo, Unset, Tell
  <2>3. CASE Clear
    BY <2>3 DEF Clear, AsCurrent, NullCommand
  <2>4. CASE Mark \/ Deliver
    <3>1. current'.client = current.client /\ UNCHANGED cmdPc
      BY <1>0, <2>4 DEF Mark, Deliver, cmdVars, Current
    <3> QED BY <3>1 DEF FlightInv
  <2>5. CASE /\ ~Mark /\ ~PopSubscribe /\ ~PopForward /\ ~CmdUnion /\ ~CmdStore /\ ~Rewrite
             /\ ~Build /\ ~Publish /\ ~WaitDone /\ ~Finish /\ ~Undo /\ ~Unset /\ ~Tell
             /\ ~Clear /\ ~CmdExit /\ ~Deliver
    BY <2>5, HandStepUntouched DEF FlightInv
  <2> QED BY <2>1, <2>2, <2>3, <2>4, <2>5
<1>2. \A f \in InFlight' :
        \/ \E g \in InFlight : f.id = g.id /\ f.type = g.type
        \/ Publish /\ f.id = cmd.id /\ f.type = cmd.type
  BY FlightStep, FlightPublish
<1>3. /\ nextId' \in Nat /\ nextId' >= nextId
      /\ \A k \in DOMAIN queue' :
            (\E j \in DOMAIN queue : queue'[k] = queue[j]) \/ queue'[k].id = nextId
  BY QueueStep
<1>4. Publish => cmd.id # 0 /\ cmd'.id = cmd.id /\ cmd'.type = cmd.type
  BY DEF Publish, OrderInv
<1>5. ASSUME NEW f \in InFlight'
      PROVE  /\ f.id # 0 /\ f.id < nextId' /\ f.id \in Nat
             /\ \A k \in DOMAIN queue' : f.id < queue'[k].id
  <2>1. CASE \E g \in InFlight : f.id = g.id /\ f.type = g.type
    <3>1. PICK g \in InFlight : f.id = g.id /\ f.type = g.type
      BY <2>1
    <3>2. f.id \in Nat /\ f.id # 0 /\ f.id < nextId /\ \A k \in DOMAIN queue : f.id < queue[k].id
      BY <1>0, <3>1 DEF FlightInv
    <3> QED BY <1>0, <1>3, <3>2
  <2>2. CASE Publish /\ f.id = cmd.id /\ f.type = cmd.type
    <3>1. f.id \in Nat /\ f.id # 0 /\ f.id < nextId /\ \A k \in DOMAIN queue : f.id < queue[k].id
      BY <1>0, <1>4, <2>2 DEF OrderInv
    <3> QED BY <1>0, <1>3, <3>1
  <2> QED BY <1>2, <2>1, <2>2
<1>6. ASSUME NEW f \in InFlight'
      PROVE  /\ cmd'.id # 0 => f.id <= cmd'.id
             /\ f.id = cmd'.id => /\ f.type = cmd'.type
                                  /\ cmdPc' \notin {"union", "store", "rewrite"}
  <2>1. CASE cmd'.id = cmd.id /\ cmd'.type = cmd.type /\ ~PopSubscribe
    <3>1. cmdPc' \in {"union", "store", "rewrite"} => cmdPc \in {"union", "store"} \/ cmdPc' = cmdPc
      BY <2>1, PcFrom
    <3>2. Publish => cmdPc' = "wait"
      BY DEF Publish
    <3> QED BY <1>0, <1>2, <2>1, <3>1, <3>2 DEF FlightInv
  <2>2. CASE (PopSubscribe \/ PopForward) /\ 1 \in DOMAIN queue /\ cmd' = queue[1]
    <3>1. ~Publish
      BY <2>2 DEF PopSubscribe, PopForward, Publish
    <3>2. PICK g \in InFlight : f.id = g.id
      BY <1>2, <3>1
    <3>3. g.id < queue[1].id /\ g.id \in Nat /\ queue[1].id \in Nat
      BY <1>0, <2>2 DEF FlightInv
    <3> QED BY <2>2, <3>2, <3>3
  <2>3. CASE cmd' = NullCommand
    BY <1>5, <2>3 DEF NullCommand
  <2>4. PopSubscribe => 1 \in DOMAIN queue /\ cmd' = queue[1]
    <3>1. queue \in Seq(Command)
      BY DEF TypeOK
    <3> QED BY <3>1, TailFacts DEF PopSubscribe
  <2> QED BY <2>1, <2>2, <2>3, <2>4, CmdStepOf
<1> QED BY <1>1, <1>5, <1>6 DEF FlightInv

LEMMA FlightAlways == Spec => []FlightInv
<1>1. Spec => []TypeOK
  BY TypeCorrect
<1>2. Spec => []HandInv
  BY HandAlways
<1>3. Spec => []OrderInv
  BY OrderAlways
<1> QED BY <1>1, <1>2, <1>3, InitFlight, NextFlight, PTL DEF Spec

-----------------------------------------------------------------------------
(* Notifications wait for the reply *)

\* The client can be written to only after a reply with each flag of fs.
Announced(c, fs) ==
    Writable(c) => \A n \in fs : \E j \in DOMAIN out[c] :
                      out[c][j].kind = "relay" /\ n \in out[c][j].flags

\* A committed filter was announced by a reply, and so was the one that
\* commandComplete is about to commit; a client that has not connected has none.
NotifInv ==
    /\ "misrouted" \notin trouble =>
         /\ \A c \in Client : Announced(c, params[c])
         /\ picPc = "commit" /\ current.client # NoClient /\ current.id = frame.id
              => Announced(current.client, newParams[current.client])
    /\ \A c \in Client : conn[c] = "free" => params[c] = {}
    /\ NotifAfterReply

\* What went wrong is not forgotten.
LEMMA TroubleStays ==
    ASSUME [Next]_vars
    PROVE  trouble \subseteq trouble'
BY DEF Next, CmdStep, PicStep, FindClient, IoStep, MainStep, EnvStep, ResetStep, PopNothing,
   Terminated, vars, logVars, AddClient, HandleCommand, ReadError, Mark, Erase, IoStore, IoPush,
   PopGone, PopLocal, PopSubscribe, PopForward, CmdUnion, CmdStore, Rewrite, Build, Publish,
   WaitDone, Finish, Undo, Unset, Tell, Clear, CmdExit, ResetStop, ResetClose, ResetEmpty,
   ResetIo, Recv, Reading, Validate, Deliver, Relay, Commit, HandleNotif, PicardReset, PicExit,
   MainStop, MainJoinCmd, MainJoinListen, MainJoinPic, ListenStep, ListenAtOnce, ListenLate,
   SpuriousWake, MgrAnswer, Lose

LEMMA CurrentUntouched ==
    ASSUME [Next]_vars, ~PopForward, ~Rewrite, ~Clear, ~Publish, ~Mark, ~Deliver
    PROVE  UNCHANGED current
BY DEF Next, CmdStep, PicStep, FindClient, IoStep, MainStep, EnvStep, ResetStep, PopNothing,
   Terminated, vars, listVars, AddClient, HandleCommand, ReadError, Erase, IoStore, IoPush,
   PopGone, PopLocal, PopSubscribe, CmdUnion, CmdStore, Build, WaitDone, Finish, Undo, Unset,
   Tell, CmdExit, ResetStop, ResetClose, ResetEmpty, ResetIo, Recv, Reading, Validate, Relay,
   Commit, HandleNotif, PicardReset, PicExit, MainStop, MainJoinCmd, MainJoinListen,
   MainJoinPic, ListenStep, ListenAtOnce, ListenLate, SpuriousWake, MgrAnswer, Lose

LEMMA NewParamsUntouched ==
    ASSUME [Next]_vars, ~PopSubscribe, ~Unset
    PROVE  UNCHANGED newParams
BY DEF Next, CmdStep, PicStep, FindClient, IoStep, MainStep, EnvStep, ResetStep, PopNothing,
   Terminated, vars, listVars, subVars, AddClient, HandleCommand, ReadError, Mark, Erase,
   IoStore, IoPush, PopGone, PopLocal, PopForward, CmdUnion, CmdStore, Rewrite, Build, Publish,
   WaitDone, Finish, Undo, Tell, Clear, CmdExit, ResetStop, ResetClose, ResetEmpty, ResetIo,
   Recv, Reading, Validate, Deliver, Relay, Commit, HandleNotif, PicardReset, PicExit, MainStop,
   MainJoinCmd, MainJoinListen, MainJoinPic, ListenStep, ListenAtOnce, ListenLate, SpuriousWake,
   MgrAnswer, Lose

\* commitFilter comes after the relay, and handles the same frame.
LEMMA CommitFrom ==
    ASSUME [Next]_vars, ~Relay, picPc' = "commit"
    PROVE  picPc = "commit" /\ frame' = frame /\ ~Deliver
BY DEF Next, CmdStep, PicStep, FindClient, IoStep, MainStep, EnvStep, ResetStep, PopNothing,
   Terminated, vars, linkVars, picVars, AddClient, HandleCommand, ReadError, Mark, Erase,
   IoStore, IoPush, PopGone, PopLocal, PopSubscribe, PopForward, CmdUnion, CmdStore, Rewrite,
   Build, Publish, WaitDone, Finish, Undo, Unset, Tell, Clear, CmdExit, ResetStop, ResetClose,
   ResetEmpty, ResetIo, Recv, Reading, Validate, Deliver, Commit, HandleNotif, PicardReset,
   PicExit, MainStop, MainJoinCmd, MainJoinListen, MainJoinPic, ListenStep, ListenAtOnce,
   ListenLate, SpuriousWake, MgrAnswer, Lose

LEMMA InitNotif == Init => NotifInv
BY DEF Init, NotifInv, NotifAfterReply, Announced, Writable

LEMMA ParamsUntouched ==
    ASSUME [Next]_vars, ~Commit
    PROVE  UNCHANGED params
BY DEF Next, CmdStep, PicStep, FindClient, IoStep, MainStep, EnvStep, ResetStep, PopNothing,
   Terminated, vars, listVars, subVars, AddClient, HandleCommand, ReadError, Mark, Erase,
   IoStore, IoPush, PopGone, PopLocal, PopSubscribe, PopForward, CmdUnion, CmdStore, Rewrite,
   Build, Publish, WaitDone, Finish, Undo, Unset, Tell, Clear, CmdExit, ResetStop, ResetClose,
   ResetEmpty, ResetIo, Recv, Validate, Deliver, Relay, HandleNotif, PicardReset, PicExit,
   MainStop, MainJoinCmd, MainJoinListen, MainJoinPic, ListenStep, ListenAtOnce, ListenLate,
   SpuriousWake, MgrAnswer, Lose

\* A connection object is used once: none becomes free again.
LEMMA FreeOnce ==
    ASSUME TypeOK, [Next]_vars, NEW c \in Client, conn'[c] = "free"
    PROVE  conn[c] = "free"
<1>1. conn \in [Client -> ConnStates]
  BY DEF TypeOK
<1> QED
  BY <1>1
  DEF Next, CmdStep, PicStep, FindClient, IoStep, MainStep, EnvStep, ResetStep, PopNothing,
      Terminated, vars, listVars, clientVars, AddClient, HandleCommand, ReadError, Mark, Erase,
      IoStore, IoPush, PopGone, PopLocal, PopSubscribe, PopForward, CmdUnion, CmdStore, Rewrite,
      Build, Publish, WaitDone, Finish, Undo, Unset, Tell, Clear, CmdExit, ResetStop,
      ResetClose, ResetEmpty, ResetIo, Recv, Validate, Deliver, Relay, Commit, HandleNotif,
      PicardReset, PicExit, MainStop, MainJoinCmd, MainJoinListen, MainJoinPic, ListenStep,
      ListenAtOnce, ListenLate, SpuriousWake, MgrAnswer, Lose

\* What a client was told it stays told.
LEMMA AnnouncedStays ==
    ASSUME TypeOK, HandInv, [Next]_vars, NEW d \in Client, conn[d] # "free", NEW fs,
           Announced(d, fs)
    PROVE  conn'[d] \in {"open", "eof"} =>
             \A n \in fs : \E j \in DOMAIN out'[d] :
                out'[d][j].kind = "relay" /\ n \in out'[d][j].flags
<1>1. \A k \in DOMAIN out[d] : k \in DOMAIN out'[d] /\ out'[d][k] = out[d][k]
  BY OutGrows
<1>2. conn'[d] \in {"open", "eof"} => Writable(d)
  BY WritableShrinks DEF Writable
<1> QED BY <1>1, <1>2 DEF Announced

\* Of the client commandComplete is about to commit: its filter stays the one that
\* was announced, or falls back to the one in force.
LEMMA NextCommitting ==
    ASSUME TypeOK, HandInv, OrderInv, FlightInv, NotifInv, [Next]_vars,
           "misrouted" \notin trouble',
           picPc' = "commit", current'.client # NoClient, current'.id = frame'.id
    PROVE  conn'[current'.client] \in {"open", "eof"} =>
             \A n \in newParams'[current'.client] :
                \E j \in DOMAIN out'[current'.client] :
                   /\ out'[current'.client][j].kind = "relay"
                   /\ n \in out'[current'.client][j].flags
<1>0. /\ out \in [Client -> Seq(Message)] /\ params \in [Client -> SUBSET Flags]
      /\ newParams \in [Client -> SUBSET Flags] /\ current \in Current
      /\ frame \in Frame /\ cmd \in Command /\ queue \in Seq(Command)
      /\ current.client # NoClient => current.client \in Client
  BY DEF TypeOK, Current, ClientOrNull
<1>a. "misrouted" \notin trouble
  BY TroubleStays
<1>1. CASE Relay
  <2>1. /\ UNCHANGED <<current, newParams, conn>> /\ frame.type = "SUBSCRIBE"
        /\ frame' = frame
    BY <1>1 DEF Relay, listVars, clientVars, subVars
  <2> DEFINE c == current.client
             m == [kind |-> "relay", id |-> current.id, rid |-> frame.id,
                   flags |-> newParams[c]]
  <2>2. c # NoClient /\ c \in Client
    BY <1>0, <2>1
  <2>3. /\ m \in Message /\ m.kind = "relay" /\ m.flags = newParams[c]
    BY <1>0, <2>2 DEF Message, Current, Frame
  <2>4. out' = Write(c, m)
    BY <1>1, <2>1, <2>2 DEF Relay
  <2> HIDE DEF m
  <2>5. ASSUME conn[c] \in {"open", "eof"}
        PROVE  \E j \in DOMAIN out'[c] : out'[c][j] = m
    <3>1. out'[c] = Append(out[c], m)
      BY <1>0, <2>2, <2>4, <2>5 DEF Write, Writable
    <3>2. Len(out[c]) + 1 \in DOMAIN out'[c] /\ out'[c][Len(out[c]) + 1] = m
      BY <1>0, <2>2, <2>3, <3>1, GrowFacts
    <3> QED BY <3>2
  <2> QED BY <2>1, <2>3, <2>5
<1>2. CASE ~Relay
  <2>1. picPc = "commit" /\ frame' = frame /\ ~Deliver
    BY <1>2, CommitFrom
  <2>2. frame \in InFlight
    BY <2>1 DEF InFlight, Handling
\* The command in hand is still the one that was answered.
  <2>3. current'.client = current.client /\ current'.id = current.id
    <3>1. CASE PopForward
      <4>1. current'.id = queue[1].id /\ 1 \in DOMAIN queue
        BY <1>0, <3>1, TailFacts DEF PopForward, AsCurrent
      <4>2. frame.id < queue[1].id /\ frame.id \in Nat /\ queue[1].id \in Nat
        <5>1. queue[1] \in Command
          BY <1>0, <4>1
        <5>2. frame.id \in Nat /\ queue[1].id \in Nat
          BY <1>0, <5>1 DEF Frame, Command
        <5> QED BY <2>2, <4>1, <5>2 DEF FlightInv
      <4> QED BY <2>1, <4>1, <4>2
    <3>2. CASE Rewrite
      <4>1. current'.id = cmd.id /\ cmdPc = "rewrite"
        BY <3>2 DEF Rewrite, AsCurrent
      <4> QED BY <2>1, <2>2, <4>1 DEF FlightInv
    <3>3. CASE Clear
      BY <3>3 DEF Clear, AsCurrent, NullCommand
    <3>4. CASE Publish \/ Mark
      BY <1>0, <3>4 DEF Publish, Mark, Current
    <3>5. CASE ~PopForward /\ ~Rewrite /\ ~Clear /\ ~Publish /\ ~Mark
      BY <2>1, <3>5, CurrentUntouched
    <3> QED BY <3>1, <3>2, <3>3, <3>4, <3>5
  <2>4. Announced(current.client, newParams[current.client]) /\ current.client \in Client
    BY <1>0, <1>a, <2>1, <2>3 DEF NotifInv
  <2>5. conn[current.client] # "free"
    BY <2>3 DEF HandInv
  <2>6. CASE newParams'[current.client] = newParams[current.client]
    BY <2>3, <2>4, <2>5, <2>6, AnnouncedStays
  <2>7. CASE Unset
    <3>1. newParams'[current.client] \in {newParams[current.client], params[current.client]}
      BY <1>0, <2>4, <2>7 DEF Unset, ResetFilter
    <3>2. Announced(current.client, params[current.client])
      BY <1>a, <2>4 DEF NotifInv
    <3> QED BY <2>3, <2>4, <2>5, <3>1, <3>2, AnnouncedStays
  <2>8. CASE PopSubscribe
    BY <2>3, <2>8 DEF PopSubscribe, FlightInv
  <2>9. CASE ~Unset /\ ~PopSubscribe
    BY <2>6, <2>9, NewParamsUntouched
  <2> QED BY <2>7, <2>8, <2>9
<1> QED BY <1>1, <1>2

LEMMA NextNotif ==
    TypeOK /\ HandInv /\ OrderInv /\ FlightInv /\ NotifInv /\ [Next]_vars => NotifInv'
<1> SUFFICES ASSUME TypeOK, HandInv, OrderInv, FlightInv, NotifInv, [Next]_vars
             PROVE  NotifInv'
  OBVIOUS
<1>0. /\ out \in [Client -> Seq(Message)] /\ params \in [Client -> SUBSET Flags]
      /\ newParams \in [Client -> SUBSET Flags] /\ conn \in [Client -> ConnStates]
      /\ current.client \in ClientOrNull
  BY DEF TypeOK, Current
<1>1. \A d \in Client : \A k \in DOMAIN out[d] : k \in DOMAIN out'[d] /\ out'[d][k] = out[d][k]
  BY OutGrows
<1>2. \A d \in Client : conn'[d] = "free" => params'[d] = {}
  <2> SUFFICES ASSUME NEW d \in Client, conn'[d] = "free" PROVE params'[d] = {}
    OBVIOUS
  <2>1. conn[d] = "free"
    BY FreeOnce
  <2>2. CASE Commit
    <3>1. current.client # d
      BY <2>1, ClientAssumption DEF HandInv
    <3>2. params'[d] = params[d]
      BY <1>0, <2>2, <3>1 DEF Commit
    <3> QED BY <2>1, <3>2 DEF NotifInv
  <2>3. CASE ~Commit
    BY <2>1, <2>3, ParamsUntouched DEF NotifInv
  <2> QED BY <2>2, <2>3
<1>3. ASSUME "misrouted" \notin trouble', NEW d \in Client
      PROVE  conn'[d] \in {"open", "eof"} =>
               \A n \in params'[d] : \E j \in DOMAIN out'[d] :
                  out'[d][j].kind = "relay" /\ n \in out'[d][j].flags
  <2>0. "misrouted" \notin trouble
    BY <1>3, TroubleStays
  <2>1. CASE params'[d] = params[d]
    <3>1. CASE conn[d] = "free"
      BY <2>1, <3>1 DEF NotifInv
    <3>2. CASE conn[d] # "free"
      BY <1>3, <2>0, <2>1, <3>2, AnnouncedStays DEF NotifInv
    <3> QED BY <3>1, <3>2
  <2>2. CASE params'[d] # params[d]
    <3>1. Commit
      BY <2>2, ParamsUntouched
    <3>2. d = current.client /\ d # NoClient /\ params'[d] = newParams[d] /\ picPc = "commit"
      BY <1>0, <2>2, <3>1 DEF Commit
    <3>3. current.id = cmd.id /\ conn[d] # "free" /\ cmd.client = d
      BY <3>2 DEF HandInv
    <3>4. cmd.id # 0
      BY <3>2, <3>3 DEF OrderInv, HandInv, NullCommand
    <3>5. current.id = frame.id
      BY <1>3, <3>1, <3>2, <3>3, <3>4 DEF Commit, Misrouted
    <3>6. Announced(d, newParams[d])
      BY <2>0, <3>2, <3>5 DEF NotifInv
    <3> QED BY <3>2, <3>3, <3>6, AnnouncedStays
  <2> QED BY <2>1, <2>2
<1>4. NotifAfterReply'
  <2> SUFFICES ASSUME NEW d \in Client, NEW k \in DOMAIN out'[d], out'[d][k].kind = "notif",
                      "misrouted" \notin trouble'
               PROVE  \E j \in 1 .. k - 1 : /\ out'[d][j].kind = "relay"
                                            /\ out'[d][k].flags \subseteq out'[d][j].flags
    BY DEF NotifAfterReply
  <2>0. "misrouted" \notin trouble
    BY TroubleStays
  <2>1. out[d] \in Seq(Message)
    BY <1>0
  <2>2. CASE k \in DOMAIN out[d]
    <3>1. PICK j \in 1 .. k - 1 : /\ out[d][j].kind = "relay"
                                  /\ out[d][k].flags \subseteq out[d][j].flags
      BY <1>1, <2>0, <2>2 DEF NotifInv, NotifAfterReply
    <3>2. j \in DOMAIN out[d]
      BY <2>1, <2>2
    <3> QED BY <1>1, <2>2, <3>1, <3>2
  <2>3. CASE k \notin DOMAIN out[d]
    <3>1. PICK m \in Message :
            /\ out'[d] = Append(out[d], m)
            /\ m.kind = "notif" => Writable(d) /\ \E n \in params[d] : m.flags = {n}
      BY <2>3, OutStep
    <3>2. k = Len(out[d]) + 1 /\ out'[d][k] = m
      BY <1>0, <2>3, <3>1, GrowFacts
    <3>3. PICK n \in params[d] : m.flags = {n}
      BY <3>1, <3>2
    <3>4. PICK j \in DOMAIN out[d] : out[d][j].kind = "relay" /\ n \in out[d][j].flags
      BY <2>0, <3>1, <3>2 DEF NotifInv, Announced
    <3>5. j \in 1 .. k - 1
      BY <2>1, <3>2
    <3> QED BY <1>1, <3>2, <3>3, <3>4, <3>5
  <2> QED BY <2>2, <2>3
<1>5. ASSUME "misrouted" \notin trouble', picPc' = "commit", current'.client # NoClient,
             current'.id = frame'.id
      PROVE  conn'[current'.client] \in {"open", "eof"} =>
               \A n \in newParams'[current'.client] :
                  \E j \in DOMAIN out'[current'.client] :
                     /\ out'[current'.client][j].kind = "relay"
                     /\ n \in out'[current'.client][j].flags
  BY <1>5, NextCommitting
<1> QED BY <1>2, <1>3, <1>4, <1>5 DEF NotifInv, Announced, Writable

\* Unless commandComplete met another command than the one answered, no client ever
\* gets a notification of a type it was not first told it is subscribed to, however
\* commits, refusals, timeouts and departures interleave.
THEOREM NotificationsWaitForReply == Spec => []NotifAfterReply
<1>1. Spec => []TypeOK
  BY TypeCorrect
<1>2. Spec => []HandInv
  BY HandAlways
<1>3. Spec => []NotifInv
  BY <1>1, <1>2, OrderAlways, FlightAlways, InitNotif, NextNotif, PTL DEF Spec
<1>4. NotifInv => NotifAfterReply
  BY DEF NotifInv
<1> QED BY <1>3, <1>4, PTL

-----------------------------------------------------------------------------
(* Transactions *)

LEMMA SubsUntouched ==
    ASSUME [Next]_vars, ~PopSubscribe, ~Unset, ~Commit
    PROVE  UNCHANGED <<params, newParams, inTxn>>
BY DEF Next, CmdStep, PicStep, FindClient, IoStep, MainStep, EnvStep, ResetStep, PopNothing,
   Terminated, vars, listVars, subVars, AddClient, HandleCommand, ReadError, Mark, Erase,
   IoStore, IoPush, PopGone, PopLocal, PopForward, CmdUnion, CmdStore, Rewrite, Build, Publish,
   WaitDone, Finish, Undo, Tell, Clear, CmdExit, ResetStop, ResetClose, ResetEmpty, ResetIo,
   Recv, Validate, Deliver, Relay, HandleNotif, PicardReset, PicExit, MainStop, MainJoinCmd,
   MainJoinListen, MainJoinPic, ListenStep, ListenAtOnce, ListenLate, SpuriousWake, MgrAnswer,
   Lose

\* The mutex of commandComplete is left at its end only.
LEMMA MutexKept ==
    ASSUME [Next]_vars, ~FindClient, ~Relay, ~Commit, MutexFree'
    PROVE  MutexFree
BY DEF MutexFree, Next, CmdStep, PicStep, FindClient, IoStep, MainStep, EnvStep, ResetStep,
   PopNothing, Terminated, vars, linkVars, picVars, AddClient, HandleCommand, ReadError, Mark,
   Erase, IoStore, IoPush, PopGone, PopLocal, PopSubscribe, PopForward, CmdUnion, CmdStore,
   Rewrite, Build, Publish, WaitDone, Finish, Undo, Unset, Tell, Clear, CmdExit, ResetStop,
   ResetClose, ResetEmpty, ResetIo, Recv, Reading, Validate, Deliver, HandleNotif, PicardReset,
   PicExit, MainStop, MainJoinCmd, MainJoinListen, MainJoinPic, ListenStep, ListenAtOnce,
   ListenLate, SpuriousWake, MgrAnswer, Lose

LEMMA InitTxn == Init => TxnInv
BY DEF Init, TxnInv, Closed

LEMMA NextTxn ==
    TypeOK /\ HandInv /\ OrderInv /\ FlightInv /\ TxnInv /\ [Next]_vars => TxnInv'
<1> SUFFICES ASSUME TypeOK, HandInv, OrderInv, FlightInv, TxnInv, [Next]_vars,
                    "misrouted" \notin trouble'
             PROVE  TxnInv'
  BY DEF TxnInv
<1>a. "misrouted" \notin trouble
  BY TroubleStays
<1>b. /\ \A c \in Client : Working(c) \/ Closed(c)
      /\ cmdPc \in {"send", "publish", "wait"} /\ cmd.client # NoClient
           /\ current.result = "OK" /\ MutexFree => Closed(cmd.client)
      /\ cmdPc = "send" /\ cmd.client # NoClient /\ cmdResult = "OK" => Closed(cmd.client)
  BY <1>a DEF TxnInv
<1>c. /\ params \in [Client -> SUBSET Flags] /\ newParams \in [Client -> SUBSET Flags]
      /\ current \in Current /\ cmd.client \in ClientOrNull
  BY DEF TypeOK, Command
<1>d. inTxn \in [Client -> BOOLEAN]
  BY DEF TypeOK
\* The transactions are left alone: what is to be shown of the command in hand.
<1>e. ASSUME UNCHANGED <<params, newParams, inTxn>>,
             \A c \in Client : Working(c) /\ ~Closed(c) => Working(c)',
             cmdPc' \in {"send", "publish", "wait"} /\ cmd'.client # NoClient
               /\ current'.result = "OK" /\ MutexFree' => Closed(cmd'.client),
             cmdPc' = "send" /\ cmd'.client # NoClient /\ cmdResult' = "OK"
               => Closed(cmd'.client)
      PROVE  TxnInv'
  <2>1. \A c : Closed(c)' = Closed(c)
    BY <1>e DEF Closed
  <2>2. \A c \in Client : Working(c)' \/ Closed(c)'
    BY <1>b, <1>e, <2>1
  <2> QED BY <1>e, <2>2 DEF TxnInv, Closed
<1>1. CASE PopSubscribe
  <2>1. PICK h \in Command :
          /\ newParams' = [newParams EXCEPT ![h.client] = h.data]
          /\ inTxn' = [inTxn EXCEPT ![h.client] = TRUE] /\ params' = params
          /\ cmd' = h /\ h.type = "SUBSCRIBE" /\ cmdPc = "pop" /\ cmdPc' = "union"
    BY <1>1, HeadTail DEF PopSubscribe, TypeOK
  <2>2. \A c \in Client : Closed(c)
    BY <1>b, <2>1 DEF Working
  <2>3. Working(h.client)'
    BY <2>1 DEF Working
  <2>4. \A c \in Client : c # h.client => Closed(c)'
    BY <1>c, <1>d, <2>1, <2>2 DEF Closed
  <2> QED BY <2>1, <2>3, <2>4 DEF TxnInv
<1>2. CASE Unset
  <2>1. /\ cmdPc' = "tell" /\ UNCHANGED <<cmd, params>>
        /\ newParams' = [newParams EXCEPT ![cmd.client] = params[cmd.client]]
        /\ inTxn' = [inTxn EXCEPT ![cmd.client] = FALSE]
    BY <1>2 DEF Unset, ResetFilter
  <2>2. \A c \in Client : c # cmd.client => Closed(c)
    BY <1>b DEF Working
  <2>3. \A c \in Client : Closed(c)'
    BY <1>c, <1>d, <2>1, <2>2 DEF Closed
  <2> QED BY <2>1, <2>3 DEF TxnInv
<1>3. CASE Commit
  <2>1. UNCHANGED <<newParams, current, cmd, cmdPc, cmdResult>>
    BY <1>3 DEF Commit, cmdVars
  <2>2. CASE current.client = NoClient
    <3>1. UNCHANGED <<params, newParams, inTxn>>
      BY <1>3, <2>1, <2>2 DEF Commit
    <3>2. cmdPc \in {"send", "publish", "wait"} => cmd.client = NoClient
      BY <2>2 DEF HandInv
    <3>3. \A c : Working(c)' = Working(c)
      BY <2>1 DEF Working
    <3> QED BY <1>b, <1>e, <2>1, <3>1, <3>2, <3>3
  <2>3. CASE current.client # NoClient
    <3>1. current.client = cmd.client /\ cmd.client \in Client
      BY <1>c, <2>3 DEF HandInv, ClientOrNull
    <3>2. /\ params' = [params EXCEPT ![cmd.client] = newParams[cmd.client]]
          /\ inTxn' = [inTxn EXCEPT ![cmd.client] = FALSE]
      BY <1>3, <2>3, <3>1 DEF Commit
    <3>3. Closed(cmd.client)'
      BY <1>c, <1>d, <2>1, <3>1, <3>2 DEF Closed
    <3>4. \A c \in Client : c # cmd.client => Closed(c)'
      BY <1>b, <1>c, <1>d, <2>1, <3>1, <3>2 DEF Closed, Working
    <3> QED BY <2>1, <3>3, <3>4 DEF TxnInv, Closed
  <2> QED BY <2>2, <2>3
<1>5. CASE Relay
  <2>1. UNCHANGED <<params, newParams, inTxn, current, cmd, cmdPc, cmdResult>>
    BY <1>5 DEF Relay, listVars, subVars, cmdVars
  <2>2. ASSUME cmdPc \in {"send", "publish", "wait"}, cmd.client # NoClient, MutexFree'
        PROVE  Closed(cmd.client)
    <3>1. current.client = cmd.client /\ current.id = cmd.id /\ cmd.id # 0
      BY <2>2 DEF HandInv, OrderInv
    <3>2. frame.type # "SUBSCRIBE" /\ current.id = frame.id
      BY <1>5, <2>2, <3>1 DEF Relay, MutexFree, Misrouted
    <3>3. frame \in InFlight
      BY <1>5 DEF Relay, InFlight, Handling
    <3>4. cmd.type # "SUBSCRIBE"
      BY <3>1, <3>2, <3>3 DEF FlightInv
    <3> QED BY <1>b, <1>c, <2>2, <3>4 DEF Working, ClientOrNull
  <2>3. \A c : Working(c)' = Working(c)
    BY <2>1 DEF Working
  <2> QED BY <1>b, <1>e, <2>1, <2>2, <2>3
<1>6. CASE FindClient
  <2>1. UNCHANGED <<params, newParams, inTxn, current, cmd, cmdPc, cmdResult>>
        /\ (MutexFree' => current.client = NoClient)
    BY <1>6 DEF FindClient, listVars, subVars, cmdVars, MutexFree
  <2>2. cmdPc \in {"send", "publish", "wait"} /\ MutexFree' => cmd.client = NoClient
    BY <2>1 DEF HandInv
  <2>3. \A c : Working(c)' = Working(c)
    BY <2>1 DEF Working
  <2> QED BY <1>b, <1>e, <2>1, <2>2, <2>3
<1>4. CASE ~PopSubscribe /\ ~Unset /\ ~Commit /\ ~Relay /\ ~FindClient
  <2>0. UNCHANGED <<params, newParams, inTxn>> /\ (MutexFree' => MutexFree)
    BY <1>4, SubsUntouched, MutexKept
  <2>9. CASE Finish
    <3>1. cmdPc = "send" /\ cmdPc' = "clear" /\ ~Unanswered
      BY <2>9 DEF Finish, Over
    <3>2. \A c \in Client : Closed(c)
      <4> SUFFICES ASSUME NEW c \in Client, Working(c) PROVE Closed(c)
        BY <1>b
      <4>1. cmd.client = c /\ c # NoClient
        BY ClientAssumption DEF Working
      <4>2. cmdResult = "OK"
        BY <3>1, <4>1 DEF Unanswered
      <4> QED BY <1>b, <3>1, <4>1, <4>2
    <3> QED BY <1>e, <2>0, <3>1, <3>2
  <2>10. CASE Undo
    <3>1. cmdPc' = "unset" /\ cmd' = cmd
      BY <2>10 DEF Undo
    <3>2. \A c \in Client : Working(c) => Working(c)'
      BY <3>1 DEF Working
    <3> QED BY <1>e, <2>0, <3>1, <3>2
  <2>11. CASE Tell
    <3>1. cmdPc' = "clear" /\ (cmdPc = "tell" \/ cmd.type # "SUBSCRIBE")
      BY <2>11 DEF Tell
    <3>2. \A c : ~Working(c)
      BY <3>1 DEF Working
    <3> QED BY <1>e, <2>0, <3>1, <3>2
  <2>12. CASE Deliver
    <3>1. UNCHANGED <<cmd, cmdPc, cmdResult>> /\ ~MutexFree'
      BY <2>12 DEF Deliver, cmdVars, MutexFree
    <3>2. \A c : Working(c)' = Working(c)
      BY <3>1 DEF Working
    <3> QED BY <1>b, <1>e, <2>0, <3>1, <3>2
  <2>1. CASE CmdUnion \/ CmdStore
    <3>1. /\ cmdPc \in {"union", "store"} /\ cmdPc' \in {"store", "rewrite"} /\ UNCHANGED cmd
      BY <2>1 DEF CmdUnion, CmdStore
    <3>2. \A c \in Client : Working(c) => Working(c)'
      BY <3>1 DEF Working
    <3> QED BY <1>e, <2>0, <3>1, <3>2
  <2>2. CASE Rewrite
    <3>1. cmd'.client = cmd.client /\ cmd'.type = cmd.type
      BY <2>2 DEF Rewrite, TypeOK, Command
    <3>2. /\ cmdPc' = "send" /\ current'.result = "TIMEOUT" /\ cmdResult' = "TIMEOUT"
      BY <2>2 DEF Rewrite, AsCurrent
    <3>3. \A c \in Client : Working(c) => Working(c)'
      BY <3>1, <3>2 DEF Working
    <3> QED BY <1>e, <2>0, <3>2, <3>3
  <2>3. CASE PopForward
    <3>1. /\ cmdPc = "pop" /\ current'.result = "TIMEOUT" /\ cmdResult' = "TIMEOUT"
      BY <2>3 DEF PopForward, AsCurrent
    <3>2. \A c : ~Working(c)
      BY <3>1 DEF Working
    <3> QED BY <1>e, <2>0, <3>1, <3>2
  <2>4. CASE Build \/ Publish
    <3>1. /\ cmdPc \in {"send", "publish"} /\ cmdPc' \in {"publish", "wait"} /\ UNCHANGED cmd
          /\ current'.result = current.result
      BY <1>c, <2>4 DEF Build, Publish, listVars, Current
    <3>2. \A c \in Client : Working(c) => Working(c)'
      BY <3>1 DEF Working
    <3> QED BY <1>b, <1>e, <2>0, <3>1, <3>2
  <2>5. CASE WaitDone
    <3>1. /\ cmdPc = "wait" /\ cmdPc' = "send" /\ UNCHANGED <<cmd, current>>
          /\ cmdResult' = current.result /\ MutexFree
      BY <2>5 DEF WaitDone, listVars
    <3>2. \A c \in Client : Working(c) => Working(c)'
      BY <3>1 DEF Working
    <3> QED BY <1>b, <1>e, <2>0, <3>1, <3>2
  <2>6. CASE Clear \/ CmdExit
    <3>1. cmdPc \in {"clear", "pop"} /\ cmdPc' \in {"pop", "done"}
      BY <2>6 DEF Clear, CmdExit
    <3>2. \A c : ~Working(c)
      BY <3>1 DEF Working
    <3> QED BY <1>e, <2>0, <3>1, <3>2
  <2>7. CASE Mark
    <3>1. current'.result = "DISCONNECT" /\ UNCHANGED <<cmd, cmdPc, cmdResult>>
      BY <1>c, <2>7 DEF Mark, cmdVars, Current
    <3>2. \A c : Working(c)' = Working(c)
      BY <3>1 DEF Working
    <3> QED BY <1>b, <1>e, <2>0, <3>1, <3>2
  <2>8. CASE /\ ~Mark /\ ~PopSubscribe /\ ~PopForward /\ ~CmdUnion /\ ~CmdStore /\ ~Rewrite
             /\ ~Build /\ ~Publish /\ ~WaitDone /\ ~Finish /\ ~Undo /\ ~Unset /\ ~Tell
             /\ ~Clear /\ ~CmdExit /\ ~Deliver
    <3>1. UNCHANGED <<current, cmd, cmdPc, cmdResult>>
      BY <2>8, HandStepUntouched
    <3>2. \A c : Working(c)' = Working(c)
      BY <3>1 DEF Working
    <3> QED BY <1>b, <1>e, <2>0, <3>1, <3>2
  <2> QED
    BY <1>4, <2>1, <2>2, <2>3, <2>4, <2>5, <2>6, <2>7, <2>8, <2>9, <2>10, <2>11, <2>12
<1> QED BY <1>1, <1>2, <1>3, <1>4, <1>5, <1>6

LEMMA TxnAlways == Spec => []TxnInv
<1>1. Spec => []TypeOK
  BY TypeCorrect
<1>2. Spec => []HandInv
  BY HandAlways
<1>3. Spec => []FlightInv
  BY FlightAlways
<1> QED BY <1>1, <1>2, <1>3, OrderAlways, InitTxn, NextTxn, PTL DEF Spec

\* For every set of clients and every number of retries: unless a response was
\* relayed for another command, no client keeps a transaction open, or a new filter
\* that is not in force, once commandLoop is done with its subscribe.
THEOREM TransactionsAreClosed == Spec => []TransactionsClosed
<1>1. Spec => []TxnInv
  BY TxnAlways
<1>2. TxnInv => TransactionsClosed
  BY DEF TxnInv, TransactionsClosed, Working, Closed
<1> QED BY <1>1, <1>2, PTL

-----------------------------------------------------------------------------
(* Responses and their commands *)

LEMMA TroubleFrom ==
    ASSUME [Next]_vars, ~Deliver, ~Relay, ~Commit
    PROVE  trouble' \subseteq trouble \cup {"timeout", "disconnect", "removed"}
BY DEF Next, CmdStep, PicStep, FindClient, IoStep, MainStep, EnvStep, ResetStep, PopNothing,
   Terminated, vars, logVars, AddClient, HandleCommand, ReadError, Mark, Erase, IoStore, IoPush,
   PopGone, PopLocal, PopSubscribe, PopForward, CmdUnion, CmdStore, Rewrite, Build, Publish,
   WaitDone, Finish, Undo, Unset, Tell, Clear, CmdExit, ResetStop, ResetClose, ResetEmpty,
   ResetIo, Recv, Validate, HandleNotif, PicardReset, PicExit, MainStop, MainJoinCmd,
   MainJoinListen, MainJoinPic, ListenStep, ListenAtOnce, ListenLate, SpuriousWake, MgrAnswer,
   Lose

LEMMA InitRoute == Init => RouteInv
BY DEF Init, RouteInv, MutexFree, InFlight, Flying, Handling, AsCurrent, NullCommand

\* The mutex of commandComplete is taken when CLIENT_OK is set.
LEMMA RelayFrom ==
    ASSUME [Next]_vars, ~Deliver, MutexFree
    PROVE  MutexFree'
BY DEF MutexFree, Next, CmdStep, PicStep, FindClient, IoStep, MainStep, EnvStep, ResetStep,
   PopNothing, Terminated, vars, linkVars, picVars, AddClient, HandleCommand, ReadError, Mark,
   Erase, IoStore, IoPush, PopGone, PopLocal, PopSubscribe, PopForward, CmdUnion, CmdStore,
   Rewrite, Build, Publish, WaitDone, Finish, Undo, Unset, Tell, Clear, CmdExit, ResetStop,
   ResetClose, ResetEmpty, ResetIo, Recv, Validate, Relay, Commit, HandleNotif, PicardReset,
   PicExit, MainStop, MainJoinCmd, MainJoinListen, MainJoinPic, ListenStep, ListenAtOnce,
   ListenLate, SpuriousWake, MgrAnswer, Lose

LEMMA NextRoute == TypeOK /\ HandInv /\ RouteInv /\ [Next]_vars => RouteInv'
<1> SUFFICES ASSUME TypeOK, HandInv, RouteInv, [Next]_vars, Clean' PROVE RouteInv'
  BY DEF RouteInv
<1>a. Clean
  BY TroubleStays DEF Clean
<1>b. /\ Flying <= 1
      /\ cmdPc # "wait" \/ (current.result = "OK" /\ MutexFree) => Flying = 0
      /\ ~MutexFree => current.result = "OK"
      /\ \A f \in InFlight : f.id = cmd.id
      /\ current.result # "DISCONNECT"
      /\ cmdPc \in {"pop", "union", "store", "rewrite", "publish", "unset", "tell"} =>
           current.result = "TIMEOUT"
      /\ cmdPc = "send" => cmdResult = current.result
      /\ "misrouted" \notin trouble
  BY <1>a DEF RouteInv
<1>c. current \in Current /\ current.result \in Results
  BY DEF TypeOK, Current
<1>d. /\ Flying \in Nat /\ (Flying = 0 => InFlight = {}) /\ (Handling => Flying # 0)
  BY FlyingType
<1>e. "misrouted" \notin trouble'
  <2>1. CASE Deliver \/ Relay \/ Commit
    <3>1. Handling /\ frame \in InFlight
      BY <2>1 DEF Deliver, Relay, Commit, Handling, InFlight
    <3>2. frame.id = cmd.id /\ cmdPc = "wait"
      BY <1>b, <1>d, <3>1
    <3>3. current.id = cmd.id
      BY <3>2 DEF HandInv
    <3>4. Misrouted(current.id) = {}
      BY <3>2, <3>3 DEF Misrouted
    <3> QED BY <1>b, <2>1, <3>4 DEF Deliver, Relay, Commit
  <2>2. CASE ~Deliver /\ ~Relay /\ ~Commit
    BY <1>b, <2>2, TroubleFrom
  <2> QED BY <2>1, <2>2
\* The mutex is held only while a response is handled.
<1>g. ASSUME Flying' = 0 PROVE MutexFree'
  BY <1>g, NextType, FlyingNext DEF MutexFree, Handling
\* Nothing is in flight, and nothing is sent: that remains so.
<1>f. ASSUME Flying = 0, ~Publish PROVE Flying' = 0 /\ \A f \in InFlight' : f.id = cmd'.id
  <2>1. Flying' \in Nat /\ Flying' <= Flying
        /\ \A f \in InFlight' : \E g \in InFlight : f.id = g.id /\ f.type = g.type
    BY <1>f, FlightStep
  <2>2. InFlight = {}
    BY <1>d, <1>f
  <2> QED BY <1>f, <2>1, <2>2
<1>1. CASE PopSubscribe \/ CmdUnion \/ CmdStore \/ CmdExit
  <2>1. /\ cmdPc \in {"pop", "union", "store"} /\ UNCHANGED current
        /\ cmdPc' \in {"union", "store", "rewrite", "done"} /\ ~Publish
    BY <1>1 DEF PopSubscribe, CmdUnion, CmdStore, CmdExit, listVars, Publish
  <2>2. Flying' = 0 /\ \A f \in InFlight' : f.id = cmd'.id
    BY <1>b, <1>f, <2>1
  <2> QED BY <1>b, <1>e, <1>g, <2>1, <2>2 DEF RouteInv
<1>2. CASE PopForward \/ Rewrite \/ Clear
  <2>1. /\ cmdPc \in {"pop", "rewrite", "clear"} /\ current'.result = "TIMEOUT"
        /\ cmdResult' = "TIMEOUT" /\ cmdPc' \in {"send", "pop"} /\ ~Publish
    BY <1>2 DEF PopForward, Rewrite, Clear, AsCurrent, Publish
  <2>2. Flying' = 0 /\ \A f \in InFlight' : f.id = cmd'.id
    BY <1>b, <1>f, <2>1
  <2> QED BY <1>e, <1>g, <2>1, <2>2 DEF RouteInv
<1>3. CASE Build \/ Finish \/ Undo \/ Unset \/ Tell
  <2>1. /\ cmdPc \in {"send", "unset", "tell"} /\ UNCHANGED current /\ ~Publish
        /\ \/ cmdPc' = "publish" /\ cmdPc = "send" /\ cmdResult = "TIMEOUT"
           \/ cmdPc' = "unset" /\ cmdPc = "send" /\ cmdResult # "OK"
           \/ cmdPc' = "tell" /\ cmdPc = "unset"
           \/ cmdPc' = "clear"
    BY <1>3 DEF Build, Finish, Undo, Unset, Tell, Over, Unanswered, TriesLeft, listVars, Publish
  <2>2. Flying' = 0 /\ \A f \in InFlight' : f.id = cmd'.id
    BY <1>b, <1>f, <2>1
  <2>3. cmdPc' \in {"publish", "unset", "tell"} => current'.result = "TIMEOUT"
    BY <1>b, <1>c, <2>1 DEF Results
  <2>4. current'.result # "DISCONNECT" /\ cmdPc' \notin {"pop", "union", "store", "rewrite", "send"}
    BY <1>b, <2>1
  <2> QED BY <1>e, <1>g, <2>2, <2>3, <2>4 DEF RouteInv
<1>4. CASE Publish
  <2>1. /\ cmdPc = "publish" /\ cmdPc' = "wait" /\ UNCHANGED cmd
        /\ current'.result = current.result
    BY <1>4, <1>c DEF Publish, Current
  <2>2. /\ Flying' = 1
        /\ \A f \in InFlight' : f.id = cmd'.id
    BY <1>b, <1>4, <2>1, FlightPublish
  <2>3. MutexFree' = MutexFree /\ current.result = "TIMEOUT"
    BY <1>b, <1>4, <2>1 DEF Publish, MutexFree, picVars
  <2> QED BY <1>b, <1>e, <2>1, <2>2, <2>3 DEF RouteInv
<1>5. CASE WaitDone
  <2>1. /\ cmdPc = "wait" /\ cmdPc' = "send" /\ UNCHANGED <<cmd, current>>
        /\ cmdResult' = current.result /\ ~Publish /\ MutexFree
        /\ current.result = "TIMEOUT" => "timeout" \in trouble'
    BY <1>5 DEF WaitDone, listVars, Publish
  <2>2. current.result = "OK"
    BY <1>b, <1>c, <2>1 DEF Clean, Results
  <2>3. Flying' = 0 /\ \A f \in InFlight' : f.id = cmd'.id
    BY <1>b, <1>f, <2>1, <2>2
  <2> QED BY <1>b, <1>e, <1>g, <2>1, <2>2, <2>3 DEF RouteInv
<1>6. CASE Mark
  <2>1. "disconnect" \in trouble'
    BY <1>6 DEF Mark
  <2> QED BY <2>1 DEF Clean
<1>7. CASE Deliver
  <2>1. /\ UNCHANGED <<cmd, cmdPc, cmdResult>> /\ current'.result = "OK" /\ Handling /\ ~Publish
        /\ ~MutexFree'
    BY <1>7, <1>c DEF Deliver, cmdVars, Current, Handling, Publish, MutexFree
  <2>2. cmdPc = "wait" /\ Flying = 1
    BY <1>b, <1>d, <2>1
  <2>3. /\ Flying' \in Nat /\ Flying' <= Flying
        /\ \A f \in InFlight' : \E g \in InFlight : f.id = g.id /\ f.type = g.type
    BY <1>7, <2>1, FlightStep
  <2> QED BY <1>b, <1>e, <2>1, <2>2, <2>3 DEF RouteInv
<1>9. CASE FindClient \/ Relay \/ Commit
  <2>1. /\ UNCHANGED <<current, cmd, cmdPc, cmdResult>> /\ Handling /\ ~Publish
        /\ ~MutexFree /\ (MutexFree' => picPc' = "read")
    BY <1>9 DEF FindClient, Relay, Commit, listVars, cmdVars, Handling, Publish, MutexFree
  <2>2. cmdPc = "wait" /\ Flying = 1 /\ current.result = "OK"
    BY <1>b, <1>d, <2>1
  <2>3. /\ Flying' \in Nat /\ Flying' <= Flying /\ (MutexFree' => Flying' = 0)
        /\ \A f \in InFlight' : \E g \in InFlight : f.id = g.id /\ f.type = g.type
    BY <1>9, <2>1, <2>2, FlightStep
  <2> QED BY <1>b, <1>e, <2>1, <2>2, <2>3 DEF RouteInv
<1>8. CASE /\ ~Mark /\ ~PopSubscribe /\ ~PopForward /\ ~CmdUnion /\ ~CmdStore /\ ~Rewrite
           /\ ~Build /\ ~Publish /\ ~WaitDone /\ ~Finish /\ ~Undo /\ ~Unset /\ ~Tell
           /\ ~Clear /\ ~CmdExit /\ ~Deliver /\ ~FindClient /\ ~Relay /\ ~Commit
  <2>1. UNCHANGED <<current, cmd, cmdPc, cmdResult>>
    BY <1>8, HandStepUntouched
  <2>2. /\ Flying' \in Nat /\ Flying' <= Flying
        /\ \A f \in InFlight' : \E g \in InFlight : f.id = g.id /\ f.type = g.type
    BY <1>8, FlightStep
  <2>3. Flying' <= 1 /\ (Flying = 0 => Flying' = 0)
    BY <1>b, <1>d, <2>2
  <2>4. \A f \in InFlight' : f.id = cmd'.id
    BY <1>b, <2>1, <2>2
  <2>5. MutexFree' <=> MutexFree
    BY <1>8, RelayFrom, MutexKept
  <2> QED BY <1>b, <1>e, <2>1, <2>3, <2>4, <2>5 DEF RouteInv
<1> QED BY <1>1, <1>2, <1>3, <1>4, <1>5, <1>6, <1>7, <1>8, <1>9

LEMMA RouteAlways == Spec => []RouteInv
<1>1. Spec => []TypeOK
  BY TypeCorrect
<1>2. Spec => []HandInv
  BY HandAlways
<1> QED BY <1>1, <1>2, InitRoute, NextRoute, PTL DEF Spec

\* What a step writes: to each client one message at most, all with the number of
\* one command, or 0 in a notification.
LEMMA OutIds ==
    ASSUME TypeOK, HandInv, [Next]_vars
    PROVE  \E i \in Nat :
             /\ \A d \in Client : \/ out'[d] = out[d]
                  \/ \E m \in Message : m.id = i /\ out'[d] = Append(out[d], m)
             /\ \/ i = 0 \/ UNCHANGED out
                \/ PopLocal /\ 1 \in DOMAIN queue /\ i = queue[1].id
                \/ Tell /\ i = cmd.id
                \/ Relay /\ current.client # NoClient /\ i = current.id
<1>0. out \in [Client -> Seq(Message)] /\ queue \in Seq(Command) /\ cmd.id \in Nat
  BY DEF TypeOK, Command
<1>1. CASE PopLocal
  <2>1. Head(queue) \in Command /\ Head(queue).client \in Client
        /\ 1 \in DOMAIN queue /\ Head(queue) = queue[1]
    BY <1>0, <1>1, HeadTail, TailFacts DEF PopLocal, TypeOK
  <2> DEFINE m == Answer("local", Head(queue).id)
  <2>2. m \in Message /\ m.id = Head(queue).id /\ Head(queue).id \in Nat
    BY <2>1, AnswerType DEF Command, Answer
  <2>3. out' = Write(Head(queue).client, m)
    BY <1>1 DEF PopLocal
  <2> HIDE DEF m
  <2>4. \A d \in Client : out'[d] = out[d] \/ out'[d] = Append(out[d], m)
    BY <1>0, <2>1, <2>2, <2>3, WriteFacts
  <2> QED BY <1>1, <2>1, <2>2, <2>4
<1>2. CASE Tell
  <2> DEFINE m == Answer("timeout", cmd.id)
  <2>1. m \in Message /\ m.id = cmd.id
    BY <1>0, AnswerType DEF Answer
  <2>2. cmd.client \in Client /\ out' = Write(cmd.client, m)
    BY <1>2 DEF Tell, Over, Unanswered, HandInv, TypeOK, Command, ClientOrNull
  <2> HIDE DEF m
  <2>3. \A d \in Client : out'[d] = out[d] \/ out'[d] = Append(out[d], m)
    BY <1>0, <2>1, <2>2, WriteFacts
  <2> QED BY <1>0, <1>2, <2>1, <2>3
<1>3. CASE Relay
  <2>1. CASE current.client = NoClient
    BY <1>3, <2>1 DEF Relay
  <2>2. CASE current.client # NoClient
    <3>1. current.client \in Client /\ current.id \in Nat /\ frame.id \in Nat
      BY <2>2 DEF TypeOK, Current, ClientOrNull, Frame
    <3>2. PICK f \in SUBSET Flags :
            out' = Write(current.client, [kind |-> "relay", id |-> current.id,
                                          rid |-> frame.id, flags |-> f])
      BY <1>3, <2>2, <3>1 DEF Relay, TypeOK
    <3> DEFINE m == [kind |-> "relay", id |-> current.id, rid |-> frame.id, flags |-> f]
    <3>3. m \in Message /\ m.id = current.id /\ out' = Write(current.client, m)
      BY <3>1, <3>2 DEF Message
    <3> HIDE DEF m
    <3>4. \A d \in Client : out'[d] = out[d] \/ out'[d] = Append(out[d], m)
      BY <1>0, <3>1, <3>3, WriteFacts
    <3> QED BY <1>3, <2>2, <3>1, <3>3, <3>4
  <2> QED BY <2>1, <2>2
<1>4. ASSUME NEW n \in Notif, HandleNotif(n)
      PROVE  \A d \in Client : \/ out'[d] = out[d]
               \/ \E m \in Message : m.id = 0 /\ out'[d] = Append(out[d], m)
  <2> DEFINE m == [kind |-> "notif", id |-> 0, rid |-> 0, flags |-> {n}]
  <2>1. m \in Message /\ m.id = 0
    BY DEF Message, Flags
  <2>2. \A d \in Client : out'[d] = out[d] \/ out'[d] = Append(out[d], m)
    BY <1>4 DEF HandleNotif
  <2> HIDE DEF m
  <2> QED BY <2>1, <2>2
<1>5. CASE ~PopLocal /\ ~Tell /\ ~Relay /\ ~(\E n \in Notif : HandleNotif(n))
  BY <1>5, OutUntouched
<1> QED BY <1>1, <1>2, <1>3, <1>4, <1>5

\* Writing one more message with a number that was not used, or with none.
LEMMA OnceGrows ==
    ASSUME TypeOK, AnsweredOnce, NEW i \in Nat,
           i = 0 \/ \A d \in Client : \A k \in DOMAIN out[d] : out[d][k].id # i,
           \A d \in Client : \/ out'[d] = out[d]
                             \/ \E m \in Message : m.id = i /\ out'[d] = Append(out[d], m)
    PROVE  /\ AnsweredOnce'
           /\ \A d \in Client : \A k \in DOMAIN out'[d] :
                out'[d][k].id = i \/ \E j \in DOMAIN out[d] : out'[d][k].id = out[d][j].id
<1>0. out \in [Client -> Seq(Message)]
  BY DEF TypeOK
<1> SUFFICES ASSUME NEW d \in Client
             PROVE  /\ \A j, k \in DOMAIN out'[d] :
                         j # k /\ out'[d][j].id = out'[d][k].id => out'[d][j].id = 0
                    /\ \A k \in DOMAIN out'[d] : out'[d][k].id = i
                         \/ \E j \in DOMAIN out[d] : out'[d][k].id = out[d][j].id
  BY DEF AnsweredOnce
<1>1. CASE out'[d] = out[d]
  BY <1>1 DEF AnsweredOnce
<1>2. CASE \E m \in Message : m.id = i /\ out'[d] = Append(out[d], m)
  <2>1. PICK m \in Message : m.id = i /\ out'[d] = Append(out[d], m)
    BY <1>2
  <2>2. \A k \in DOMAIN out'[d] :
                \/ k \in DOMAIN out[d] /\ out'[d][k] = out[d][k]
                \/ k = Len(out[d]) + 1 /\ out'[d][k] = m
    BY <1>0, <2>1, GrowFacts
  <2>3. ASSUME NEW j \in DOMAIN out'[d], NEW k \in DOMAIN out'[d],
               j # k, out'[d][j].id = out'[d][k].id, i # 0
        PROVE  out'[d][j].id = 0
    <3>1. \A x \in DOMAIN out[d] : out[d][x].id # i
      BY <2>3
    <3>2. (j \in DOMAIN out[d] /\ out'[d][j] = out[d][j])
          /\ (k \in DOMAIN out[d] /\ out'[d][k] = out[d][k])
      BY <2>1, <2>2, <2>3, <3>1
    <3> QED BY <2>3, <3>2 DEF AnsweredOnce
  <2>4. ASSUME NEW j \in DOMAIN out'[d], NEW k \in DOMAIN out'[d],
               j # k, out'[d][j].id = out'[d][k].id, i = 0
        PROVE  out'[d][j].id = 0
    <3>1. CASE (j \in DOMAIN out[d] /\ out'[d][j] = out[d][j])
               /\ (k \in DOMAIN out[d] /\ out'[d][k] = out[d][k])
      BY <2>4, <3>1 DEF AnsweredOnce
    <3>2. CASE out'[d][j] = m \/ out'[d][k] = m
      BY <2>1, <2>4, <3>2
    <3> QED BY <2>2, <3>1, <3>2
  <2> QED BY <2>1, <2>2, <2>3, <2>4
<1> QED BY <1>1, <1>2

LEMMA InitOnce == Init => OnceInv
BY DEF Init, OnceInv, AnsweredOnce

LEMMA RelayStarts ==
    ASSUME [Next]_vars, ~Deliver, Relaying'
    PROVE  Relaying
BY DEF Relaying, Next, CmdStep, PicStep, FindClient, IoStep, MainStep, EnvStep, ResetStep,
   PopNothing, Terminated, vars, linkVars, picVars, AddClient, HandleCommand, ReadError, Mark,
   Erase, IoStore, IoPush, PopGone, PopLocal, PopSubscribe, PopForward, CmdUnion, CmdStore,
   Rewrite, Build, Publish, WaitDone, Finish, Undo, Unset, Tell, Clear, CmdExit, ResetStop,
   ResetClose, ResetEmpty, ResetIo, Recv, Validate, Relay, Commit, HandleNotif, PicardReset,
   PicExit, MainStop, MainJoinCmd, MainJoinListen, MainJoinPic, ListenStep, ListenAtOnce,
   ListenLate, SpuriousWake, MgrAnswer, Lose

LEMMA NextOnce ==
    TypeOK /\ HandInv /\ OrderInv /\ RouteInv /\ OnceInv /\ [Next]_vars => OnceInv'
<1> SUFFICES ASSUME TypeOK, HandInv, OrderInv, RouteInv, OnceInv, [Next]_vars, Clean'
             PROVE  OnceInv'
  BY DEF OnceInv
<1> DEFINE InHand == {"union", "store", "rewrite", "send", "publish", "wait", "unset", "tell"}
<1>a. Clean
  BY TroubleStays DEF Clean
<1>b. /\ AnsweredOnce
      /\ cmdPc \in InHand /\ (current.result # "OK" \/ Relaying) => UnansweredYet
  BY <1>a DEF OnceInv
<1>c. /\ cmdPc # "wait" \/ (current.result = "OK" /\ MutexFree) => Flying = 0
      /\ ~MutexFree => current.result = "OK"
      /\ cmdPc \in {"pop", "union", "store", "rewrite", "publish", "unset", "tell"} =>
           current.result = "TIMEOUT"
      /\ cmdPc = "send" => cmdResult = current.result
  BY <1>a DEF RouteInv
<1>d. /\ \A k \in DOMAIN queue : queue[k].id \in Nat
      /\ \A c \in Client : \A k \in DOMAIN out[c] : out[c][k].id \in Nat
      /\ current \in Current
  <2>1. /\ \A k \in DOMAIN queue : queue[k] \in Command
        /\ \A c \in Client : \A k \in DOMAIN out[c] : out[c][k] \in Message
        /\ current \in Current
    BY DEF TypeOK
  <2> QED BY <2>1 DEF Command, Message
<1>e. /\ cmdPc \notin {"pop", "done"} => cmd.id # 0
      /\ \A c \in Client : \A k \in DOMAIN out[c] : \A j \in DOMAIN queue :
           out[c][k].id < queue[j].id
  BY DEF OrderInv
<1>f. PICK i \in Nat :
        /\ \A d \in Client : \/ out'[d] = out[d]
             \/ \E m \in Message : m.id = i /\ out'[d] = Append(out[d], m)
        /\ \/ i = 0 \/ UNCHANGED out
           \/ PopLocal /\ 1 \in DOMAIN queue /\ i = queue[1].id
           \/ Tell /\ i = cmd.id
           \/ Relay /\ current.client # NoClient /\ i = current.id
  BY OutIds
<1>1. CASE UNCHANGED out
  <2>1. AnsweredOnce'
    BY <1>b, <1>1 DEF AnsweredOnce
  <2>2. ASSUME cmdPc' \in InHand, current'.result # "OK" \/ Relaying'
        PROVE  UnansweredYet'
    <3>1. CASE cmd'.id = cmd.id /\ cmdPc \in InHand /\ (current.result # "OK" \/ Relaying)
      BY <1>b, <1>1, <3>1 DEF UnansweredYet
    <3>2. CASE PopSubscribe \/ PopForward
      <4>1. 1 \in DOMAIN queue /\ cmd' = queue[1]
        <5>1. queue # <<>> /\ cmd' = Head(queue) /\ queue \in Seq(Command)
          BY <3>2 DEF PopSubscribe, PopForward, TypeOK
        <5> QED BY <5>1, TailFacts
      <4> QED BY <1>d, <1>e, <1>1, <4>1 DEF UnansweredYet
    <3>3. CASE CmdUnion \/ CmdStore \/ Rewrite
      <4>1. cmdPc \in {"union", "store", "rewrite"} /\ cmd'.id = cmd.id
        BY <3>3 DEF CmdUnion, CmdStore, Rewrite, TypeOK, Command
      <4> QED BY <1>c, <3>1, <4>1
    <3>4. CASE Build \/ Publish \/ WaitDone \/ Undo \/ Unset
      <4>1. /\ cmdPc \in {"send", "publish", "wait", "unset"} /\ cmd' = cmd
            /\ current'.result = current.result /\ ~Deliver
        BY <1>d, <3>4 DEF Build, Publish, WaitDone, Undo, Unset, Over, listVars, Current, Deliver,
                          linkVars, picVars
      <4>2. Relaying' => Relaying
        BY <4>1, RelayStarts
      <4> QED BY <2>2, <3>1, <4>1, <4>2
    <3>5. CASE Finish \/ Tell \/ Clear \/ CmdExit
      BY <2>2, <3>5 DEF Finish, Tell, Clear, CmdExit
    <3>6. CASE Mark
      BY <3>6 DEF Mark, Clean
    <3>7. CASE Deliver
      <4>1. /\ UNCHANGED <<cmd, cmdPc>> /\ Handling /\ MutexFree
        BY <3>7 DEF Deliver, cmdVars, Handling, MutexFree
      <4>2. cmdPc = "wait" /\ current.result # "OK"
        BY <1>c, <4>1, FlyingType
      <4> QED BY <3>1, <4>1, <4>2
    <3>9. CASE Relay
      <4>1. UNCHANGED current /\ ~MutexFree /\ ~Relaying'
        BY <3>9 DEF Relay, listVars, MutexFree, Relaying
      <4> QED BY <1>c, <2>2, <4>1
    <3>8. CASE /\ ~Mark /\ ~PopSubscribe /\ ~PopForward /\ ~CmdUnion /\ ~CmdStore /\ ~Rewrite
               /\ ~Build /\ ~Publish /\ ~WaitDone /\ ~Finish /\ ~Undo /\ ~Unset /\ ~Tell
               /\ ~Clear /\ ~CmdExit /\ ~Deliver /\ ~Relay
      <4>1. UNCHANGED <<current, cmd, cmdPc, cmdResult>>
        BY <3>8, HandStepUntouched
      <4>2. Relaying' => Relaying
        BY <3>8, RelayStarts
      <4> QED BY <2>2, <3>1, <4>1, <4>2
    <3> QED BY <3>2, <3>3, <3>4, <3>5, <3>6, <3>7, <3>8, <3>9
  <2> QED BY <2>1, <2>2 DEF OnceInv
<1>2. CASE /\ ~UNCHANGED out
           /\ ~(PopLocal \/ Tell \/ Relay)
  <2>1. i = 0
    BY <1>f, <1>2
  <2>2. AnsweredOnce'
        /\ \A d \in Client : \A k \in DOMAIN out'[d] :
             out'[d][k].id = 0 \/ \E j \in DOMAIN out[d] : out'[d][k].id = out[d][j].id
    BY <1>b, <1>f, <2>1, OnceGrows
  <2>3. \E n \in Notif : HandleNotif(n)
    BY <1>2, OutUntouched
  <2>4. UNCHANGED <<current, cmd, cmdPc, picPc>>
    BY <2>3 DEF HandleNotif, listVars, cmdVars, picVars
  <2>5. ASSUME cmdPc \in InHand, current.result # "OK" \/ Relaying PROVE UnansweredYet'
    <3>1. cmd.id # 0 /\ UnansweredYet
      BY <1>b, <1>e, <2>5
    <3> QED BY <2>2, <2>4, <3>1 DEF UnansweredYet
  <2>6. Relaying' <=> Relaying
    BY <2>4 DEF Relaying
  <2> QED BY <2>2, <2>4, <2>5, <2>6 DEF OnceInv
<1>3. CASE ~UNCHANGED out /\ (PopLocal \/ Tell \/ Relay)
  <2>1. i = 0 \/ \A d \in Client : \A k \in DOMAIN out[d] : out[d][k].id # i
    <3>1. CASE PopLocal /\ 1 \in DOMAIN queue /\ i = queue[1].id
      BY <1>d, <1>e, <3>1
    <3>2. CASE Tell /\ i = cmd.id
      <4>1. cmdPc = "tell" \/ (cmdPc = "send" /\ cmdResult # "OK")
        BY <3>2 DEF Tell, Over, Unanswered
      <4> QED BY <1>b, <1>c, <3>2, <4>1 DEF UnansweredYet
    <3>3. CASE Relay /\ current.client # NoClient /\ i = current.id
      <4>1. Handling /\ Relaying
        BY <3>3 DEF Relay, Handling, Relaying
      <4>2. Flying # 0
        BY <4>1, FlyingType
      <4>3. cmdPc = "wait" /\ current.id = cmd.id
        BY <1>c, <4>2 DEF HandInv
      <4> QED BY <1>b, <3>3, <4>1, <4>3 DEF UnansweredYet
    <3> QED BY <1>f, <1>3, <3>1, <3>2, <3>3
  <2>2. AnsweredOnce'
    BY <1>b, <1>f, <2>1, OnceGrows
  <2>3. ~(cmdPc' \in InHand /\ (current'.result # "OK" \/ Relaying'))
    <3>1. CASE PopLocal
      BY <3>1 DEF PopLocal, cmdVars
    <3>2. CASE Tell
      BY <3>2 DEF Tell
    <3>3. CASE Relay
      BY <1>c, <3>3 DEF Relay, listVars, MutexFree, Relaying
    <3> QED BY <1>3, <3>1, <3>2, <3>3
  <2> QED BY <2>2, <2>3 DEF OnceInv
<1> QED BY <1>1, <1>2, <1>3

LEMMA OnceAlways == Spec => []OnceInv
<1>1. Spec => []TypeOK
  BY TypeCorrect
<1>2. Spec => []HandInv
  BY HandAlways
<1>3. Spec => []RouteInv
  BY RouteAlways
<1> QED BY <1>1, <1>2, <1>3, OrderAlways, InitOnce, NextOnce, PTL DEF Spec

\* For every number of clients, commands and retries: until a wait times out or a
\* read error marks the command in progress, each response is relayed for the
\* command it answers and no command is answered twice, although commandComplete
\* validates a response and delivers it in several steps.
THEOREM ResponsesRoutedClean == Spec => []CleanRouting
<1>1. Spec => []RouteInv
  BY RouteAlways
<1>2. Spec => []OnceInv
  BY OnceAlways
<1>3. RouteInv /\ OnceInv => CleanRouting
  BY DEF RouteInv, OnceInv, CleanRouting, Clean, AnsweredOnce
<1> QED BY <1>1, <1>2, <1>3, PTL

-----------------------------------------------------------------------------
(* The filter of the Manager *)

\* An epoch that is calm was calm before: nothing that disturbs it is undone.
LEMMA CalmBefore ==
    ASSUME TypeOK, [Next]_vars, Calm'
    PROVE  /\ Calm /\ ~Mark /\ ~PicardReset /\ ~Tell
           /\ \A t \in ResetThreads : ~ResetStop(t) /\ ~ResetClose(t) /\ ~ResetEmpty(t)
                                     /\ ~ResetIo(t)
<1>0. reset \in [ResetThreads -> {"none", "stop", "close", "empty", "io"}]
  BY DEF TypeOK
<1>1. trouble = {} /\ trouble' = {} /\ ~ioStopped' /\ \A t \in ResetThreads : reset'[t] = "none"
  BY TroubleStays DEF Calm
<1>2. ~Mark
  BY <1>1 DEF Mark
<1>3. ~PicardReset /\ ~Tell
  BY <1>0, <1>1 DEF PicardReset, Tell, StartReset, ResetThreads
<1>4. \A t \in ResetThreads : ~ResetStop(t) /\ ~ResetClose(t) /\ ~ResetEmpty(t) /\ ~ResetIo(t)
  BY <1>0, <1>1 DEF ResetStop, ResetClose, ResetEmpty, ResetIo
<1>5. UNCHANGED <<reset, ioStopped>>
  BY <1>3, <1>4
  DEF Next, CmdStep, PicStep, FindClient, IoStep, MainStep, EnvStep, ResetStep, PopNothing,
      Terminated, vars, ctlVars, stopVars, AddClient, HandleCommand, ReadError, Mark, Erase,
      IoStore, IoPush, PopGone, PopLocal, PopSubscribe, PopForward, CmdUnion, CmdStore, Rewrite,
      Build, Publish, WaitDone, Finish, Undo, Unset, Clear, CmdExit, Recv, Validate, Deliver,
      Relay, Commit, HandleNotif, PicExit, MainStop, MainJoinCmd, MainJoinListen, MainJoinPic,
      ListenStep, ListenAtOnce, ListenLate, SpuriousWake, MgrAnswer, Lose
<1> QED BY <1>1, <1>2, <1>3, <1>4, <1>5 DEF Calm

LEMMA InitCalm == Init => CalmInv
BY DEF Init, CalmInv

LEMMA NextCalm == TypeOK /\ HandInv /\ CalmInv /\ [Next]_vars => CalmInv'
<1> SUFFICES ASSUME TypeOK, HandInv, CalmInv, [Next]_vars PROVE CalmInv'
  OBVIOUS
<1>0. /\ params \in [Client -> SUBSET Flags] /\ newParams \in [Client -> SUBSET Flags]
      /\ cmd.client \in ClientOrNull /\ current.client \in ClientOrNull
      /\ clients \subseteq Client
  BY DEF TypeOK, Command, Current
<1>1. (\A c \in Client : conn[c] = "free" => newParams[c] = {} /\ params[c] = {})'
  <2> SUFFICES ASSUME NEW c \in Client, conn'[c] = "free"
               PROVE  newParams'[c] = {} /\ params'[c] = {}
    OBVIOUS
  <2>1. conn[c] = "free" /\ newParams[c] = {} /\ params[c] = {}
    BY FreeOnce DEF CalmInv
  <2>2. CASE PopSubscribe
    <3>1. c # Head(queue).client
      BY <2>1, <2>2 DEF PopSubscribe, HandInv
    <3> QED BY <1>0, <2>1, <2>2, <3>1 DEF PopSubscribe
  <2>3. CASE Unset
    <3>1. c # cmd.client
      BY <2>1, <1>0, ClientAssumption DEF HandInv
    <3>2. newParams'[c] = newParams[c] /\ params' = params
      BY <1>0, <2>3, <3>1 DEF Unset, ResetFilter
    <3> QED BY <2>1, <3>2
  <2>4. CASE Commit
    <3>1. c # current.client
      BY <2>1, <1>0, ClientAssumption DEF HandInv
    <3>2. params'[c] = params[c] /\ newParams' = newParams
      BY <1>0, <2>4, <3>1 DEF Commit
    <3> QED BY <2>1, <3>2
  <2>5. CASE ~PopSubscribe /\ ~Unset /\ ~Commit
    BY <2>1, <2>5, SubsUntouched
  <2> QED BY <2>2, <2>3, <2>4, <2>5
<1>2. (cmdPc \in {"union", "store", "rewrite"} => cmd.type = "SUBSCRIBE")'
      /\ (cmdPc' \notin {"pop", "done"} =>
            \/ PopSubscribe \/ PopForward
            \/ cmdPc \notin {"pop", "done"} /\ cmd'.client = cmd.client)
  <2>1. CASE PopSubscribe
    BY <2>1 DEF PopSubscribe
  <2>2. CASE PopForward \/ Clear \/ CmdExit
    BY <2>2 DEF PopForward, Clear, CmdExit
  <2>3. CASE CmdUnion \/ CmdStore
    BY <2>3 DEF CmdUnion, CmdStore, CalmInv
  <2>4. CASE Rewrite
    BY <2>4 DEF Rewrite, TypeOK, Command
  <2>5. CASE Build \/ Publish \/ WaitDone \/ Finish \/ Undo
    BY <2>5 DEF Build, Publish, WaitDone, Finish, Undo, Over
  <2>8. CASE Unset \/ Tell
    BY <2>8 DEF Unset, Tell, Over
  <2>6. CASE Mark \/ Deliver
    <3>1. UNCHANGED <<cmd, cmdPc>>
      BY <2>6 DEF Mark, Deliver, cmdVars
    <3> QED BY <3>1 DEF CalmInv
  <2>7. CASE /\ ~Mark /\ ~PopSubscribe /\ ~PopForward /\ ~CmdUnion /\ ~CmdStore /\ ~Rewrite
             /\ ~Build /\ ~Publish /\ ~WaitDone /\ ~Finish /\ ~Undo /\ ~Unset /\ ~Tell
             /\ ~Clear /\ ~CmdExit /\ ~Deliver
    <3>1. UNCHANGED <<cmd, cmdPc>>
      BY <2>7, HandStepUntouched
    <3> QED BY <3>1 DEF CalmInv
  <2> QED BY <2>1, <2>2, <2>3, <2>4, <2>5, <2>6, <2>7, <2>8
<1>3. ASSUME Calm'
      PROVE  /\ \A k \in DOMAIN queue' : queue'[k].client # NoClient
             /\ cmdPc' \notin {"pop", "done"} => cmd'.client # NoClient
             /\ ioPc' \notin {"store", "push"}
  <2>1. Calm /\ trouble' = {}
    BY <1>3, CalmBefore DEF Calm
  <2>2. /\ \A k \in DOMAIN queue : queue[k].client # NoClient
        /\ cmdPc \notin {"pop", "done"} => cmd.client # NoClient
        /\ ioPc \notin {"store", "push"}
    BY <2>1 DEF CalmInv
  <2>3. ~IoPush
    BY <2>2 DEF IoPush
  <2>4. \A k \in DOMAIN queue' : queue'[k].client # NoClient
    BY <2>2, <2>3, QueueStep
  <2>5. PopSubscribe \/ PopForward => cmd'.client # NoClient
    <3>1. ASSUME PopSubscribe \/ PopForward PROVE 1 \in DOMAIN queue /\ cmd' = queue[1]
      <4>1. queue # <<>> /\ cmd' = Head(queue) /\ queue \in Seq(Command)
        BY <3>1 DEF PopSubscribe, PopForward, TypeOK
      <4> QED BY <4>1, TailFacts
    <3> QED BY <2>2, <3>1
  <2>6. ioPc' \notin {"store", "push"}
    <3>1. CASE \E c \in Client : ReadError(c)
      BY <3>1 DEF ReadError
    <3>2. CASE Mark \/ IoPush
      BY <3>2 DEF Mark, IoPush
    <3>3. CASE Erase
      BY <2>1, <3>3 DEF Erase
    <3>4. CASE IoStore
      BY <2>2, <3>4 DEF IoStore
    <3>5. CASE ~(\E c \in Client : ReadError(c)) /\ ~Mark /\ ~IoPush /\ ~Erase /\ ~IoStore
      <4>1. UNCHANGED ioPc
        BY <3>5
        DEF Next, CmdStep, PicStep, FindClient, IoStep, MainStep, EnvStep, ResetStep,
            PopNothing, Terminated, vars, ioVars, AddClient, HandleCommand, PopGone, PopLocal,
            PopSubscribe, PopForward, CmdUnion, CmdStore, Rewrite, Build, Publish, WaitDone,
            Finish, Undo, Unset, Tell, Clear, CmdExit, ResetStop, ResetClose, ResetEmpty,
            ResetIo, Recv, Validate, Deliver, Relay, Commit, HandleNotif, PicardReset, PicExit,
            MainStop, MainJoinCmd, MainJoinListen, MainJoinPic, ListenStep, ListenAtOnce,
            ListenLate, SpuriousWake, MgrAnswer, Lose
      <4> QED BY <2>2, <4>1
    <3> QED BY <3>1, <3>2, <3>3, <3>4, <3>5
  <2> QED BY <1>2, <2>2, <2>4, <2>5, <2>6
<1> QED BY <1>1, <1>2, <1>3 DEF CalmInv

\* A step of a calm epoch changes the client list only by a client without a filter.
LEMMA FiltersKept ==
    ASSUME TypeOK, HandInv, CalmInv, [Next]_vars, Calm'
    PROVE  /\ ~Commit => Committed' = Committed
           /\ ~PopSubscribe /\ ~Unset => Wanted' = Wanted
<1>0. params \in [Client -> SUBSET Flags] /\ newParams \in [Client -> SUBSET Flags]
  BY DEF TypeOK
<1>1. ASSUME NEW c \in Client, AddClient(c)
      PROVE  Committed' = Committed /\ Wanted' = Wanted
  <2>1. clients' = clients \cup {c} /\ UNCHANGED <<params, newParams>> /\ conn[c] = "free"
    BY <1>1 DEF AddClient, subVars
  <2>2. newParams[c] = {} /\ params[c] = {}
    BY <2>1 DEF CalmInv
  <2> QED BY <2>1, <2>2 DEF Committed, Wanted
<1>2. CASE ~(\E c \in Client : AddClient(c))
  <2>1. Calm /\ trouble' = {} /\ ~Mark /\ ~PicardReset
        /\ \A t \in ResetThreads : ~ResetStop(t) /\ ~ResetClose(t) /\ ~ResetEmpty(t) /\ ~ResetIo(t)
    BY CalmBefore DEF Calm
  <2>2. UNCHANGED clients
    <3>1. CASE Erase
      BY <2>1, <3>1 DEF Erase
    <3>2. CASE ~Erase
      BY <1>2, <2>1, <3>2
      DEF Next, CmdStep, PicStep, FindClient, IoStep, MainStep, EnvStep, ResetStep, PopNothing,
          Terminated, vars, listVars, clientVars, HandleCommand, ReadError, IoStore, IoPush,
          PopGone, PopLocal, PopSubscribe, PopForward, CmdUnion, CmdStore, Rewrite, Build,
          Publish, WaitDone, Finish, Undo, Unset, Tell, Clear, CmdExit, Recv, Validate, Deliver,
          Relay, Commit, HandleNotif, PicExit, MainStop, MainJoinCmd, MainJoinListen,
          MainJoinPic, ListenStep, ListenAtOnce, ListenLate, SpuriousWake, MgrAnswer, Lose
    <3> QED BY <3>1, <3>2
  <2>3. ~Commit => UNCHANGED params
    BY ParamsUntouched
  <2>4. ~PopSubscribe /\ ~Unset => UNCHANGED newParams
    BY NewParamsUntouched
  <2>5. ~Commit => Committed' = Committed
    BY <2>2, <2>3 DEF Committed
  <2>6. ~PopSubscribe /\ ~Unset => Wanted' = Wanted
    BY <2>2, <2>4 DEF Wanted
  <2> QED BY <2>5, <2>6
<1>3. CASE \E c \in Client : AddClient(c)
  BY <1>1, <1>3
<1> QED BY <1>2, <1>3

LEMMA UnionUntouched ==
    ASSUME [Next]_vars, ~IoStore, ~CmdUnion, ~CmdStore, ~Undo, ~Validate
    PROVE  UNCHANGED <<filterUnion, cmdUnion>>
BY DEF Next, CmdStep, PicStep, FindClient, IoStep, MainStep, EnvStep, ResetStep, PopNothing,
   Terminated, vars, listVars, filterVars, cmdVars, AddClient, HandleCommand, ReadError, Mark,
   Erase, IoPush, PopGone, PopLocal, PopSubscribe, PopForward, Rewrite, Build, Publish,
   WaitDone, Finish, Unset, Tell, Clear, CmdExit, ResetStop, ResetClose, ResetEmpty, ResetIo,
   Recv, Deliver, Relay, Commit, HandleNotif, PicardReset, PicExit, MainStop, MainJoinCmd,
   MainJoinListen, MainJoinPic, ListenStep, ListenAtOnce, ListenLate, SpuriousWake, MgrAnswer,
   Lose

\* Where no transaction is open, the filters in force are the wanted ones.
LEMMA ClosedFilters ==
    ASSUME TypeOK, \A c \in Client : Closed(c)
    PROVE  Committed = Wanted
<1>1. clients \subseteq Client
  BY DEF TypeOK
<1> QED BY <1>1 DEF Committed, Wanted, Closed

LEMMA InitUnion == Init => UnionInv
BY DEF Init, UnionInv, Committed

LEMMA NextUnion ==
    /\ TypeOK /\ HandInv /\ FlightInv /\ TxnInv /\ RouteInv /\ CalmInv /\ UnionInv
    /\ [Next]_vars
    => UnionInv'
<1> SUFFICES ASSUME TypeOK, HandInv, FlightInv, TxnInv, RouteInv, CalmInv, UnionInv,
                    [Next]_vars, Calm'
             PROVE  UnionInv'
  BY DEF UnionInv
<1>a. /\ Calm /\ trouble = {} /\ trouble' = {} /\ ~Mark /\ ~Tell
  BY CalmBefore DEF Calm
<1>b. /\ cmdPc \in {"pop", "union", "store", "clear", "done"} => filterUnion = Committed
      /\ cmdPc = "store" => cmdUnion = Wanted
      /\ cmdPc \in {"rewrite", "send", "publish", "wait"} /\ ~Refusing => filterUnion = Wanted
      /\ cmdPc \in {"pop", "clear", "done"} => mgrFilter \cap Notif = Committed \cap Notif
      /\ cmdPc \in {"send", "publish", "wait"} =>
           /\ cmd.type # "SUBSCRIBE" \/ Accepted => mgrFilter \cap Notif = Wanted \cap Notif
           /\ cmd.type = "SUBSCRIBE" => cmd.data \cap Notif = Wanted \cap Notif
           /\ \A i \in DOMAIN toMgr : toMgr[i].type = cmd.type /\ toMgr[i].data = cmd.data
  BY <1>a DEF UnionInv
<1>c. /\ cmdPc # "wait" \/ (current.result = "OK" /\ MutexFree) => Flying = 0
      /\ ~MutexFree => current.result = "OK"
      /\ \A f \in InFlight : f.id = cmd.id
      /\ cmdPc = "send" => cmdResult = current.result
  BY <1>a DEF RouteInv, Clean
<1>d. /\ Flying = 0 => toMgr = <<>> /\ fromMgr = <<>> /\ ~Handling
      /\ Handling => Flying # 0
  BY FlyingType
<1>e. /\ \A k \in DOMAIN queue : queue[k].client # NoClient
      /\ cmdPc \notin {"pop", "done"} => cmd.client # NoClient
      /\ ioPc \notin {"store", "push"}
      /\ cmdPc \in {"union", "store", "rewrite"} => cmd.type = "SUBSCRIBE"
  BY <1>a DEF CalmInv
<1>f. /\ \A c \in Client : Working(c) \/ Closed(c)
      /\ cmdPc = "send" /\ cmd.client # NoClient /\ cmdResult = "OK" => Closed(cmd.client)
  BY <1>a DEF TxnInv
<1>g. /\ ~Commit => Committed' = Committed
      /\ ~PopSubscribe /\ ~Unset => Wanted' = Wanted
  BY FiltersKept
<1>h. current \in Current /\ toMgr \in Seq(Frame) /\ fromMgr \in Seq(Frame) /\ cmd \in Command
      /\ queue \in Seq(Command)
  BY DEF TypeOK
<1>i. Refusing => Handling
  BY DEF Refusing, Handling
<1>1. CASE PopSubscribe
  <2>1. cmdPc = "pop" /\ cmdPc' = "union" /\ UNCHANGED filterUnion /\ ~Commit
    BY <1>1 DEF PopSubscribe, filterVars, subVars, Commit, cmdVars
  <2> QED BY <1>b, <1>g, <2>1 DEF UnionInv
<1>2. CASE PopForward
  <2>1. /\ cmdPc = "pop" /\ cmdPc' = "send" /\ UNCHANGED <<filterUnion, mgrFilter, toMgr>>
        /\ ~Commit /\ ~PopSubscribe /\ ~Unset
    BY <1>2 DEF PopForward, filterVars, linkVars, mgrVars, picVars, Commit, PopSubscribe, Unset
  <2>2. cmd'.type # "SUBSCRIBE"
    <3>1. queue # <<>> /\ (Head(queue).client = NoClient \/ cmd'.type = "COMMAND")
      BY <1>2 DEF PopForward
    <3>2. Head(queue).client # NoClient
      BY <1>e, <1>h, <3>1, TailFacts
    <3> QED BY <3>1, <3>2
  <2>3. Committed = Wanted
    BY <1>f, <2>1, ClosedFilters DEF Working
  <2>4. DOMAIN toMgr' = {}
    BY <1>c, <1>d, <2>1
  <2> QED BY <1>b, <1>g, <2>1, <2>2, <2>3, <2>4 DEF UnionInv
<1>3. CASE CmdUnion
  <2>1. /\ cmdPc = "union" /\ cmdPc' = "store" /\ UNCHANGED filterUnion
        /\ cmdUnion' = Wanted /\ ~Commit /\ ~PopSubscribe /\ ~Unset
    BY <1>3 DEF CmdUnion, listVars, filterVars, UnionOf, Wanted, linkVars, picVars, Commit,
                PopSubscribe, Unset
  <2> QED BY <1>b, <1>g, <2>1 DEF UnionInv
<1>4. CASE CmdStore
  <2>1. /\ cmdPc = "store" /\ cmdPc' = "rewrite" /\ filterUnion' = cmdUnion
        /\ ~PopSubscribe /\ ~Unset
    BY <1>4 DEF CmdStore, PopSubscribe, Unset
  <2> QED BY <1>b, <1>g, <2>1 DEF UnionInv
<1>5. CASE Rewrite
  <2>1. /\ cmdPc = "rewrite" /\ cmdPc' = "send" /\ UNCHANGED <<filterUnion, toMgr, fromMgr, picPc>>
        /\ cmd' = [cmd EXCEPT !.data = FilterToVector(filterUnion, cmd.short)]
        /\ current' = AsCurrent(cmd) /\ ~PopSubscribe /\ ~Unset
    BY <1>5 DEF Rewrite, filterVars, linkVars, picVars, mgrVars, PopSubscribe, Unset
  <2>2. Flying = 0 /\ cmd.type = "SUBSCRIBE"
    BY <1>c, <1>e, <2>1
  <2>3. filterUnion = Wanted
    BY <1>b, <1>d, <1>i, <2>1, <2>2
  <2>4. cmd'.type = "SUBSCRIBE" /\ cmd'.data = FilterToVector(filterUnion, cmd.short)
    BY <1>h, <2>1, <2>2 DEF Command
  <2>5. cmd'.data \cap Notif = Wanted \cap Notif
    BY <2>3, <2>4 DEF FilterToVector
  <2>6. DOMAIN toMgr' = {} /\ DOMAIN fromMgr' = {} /\ ~Handling'
    BY <1>d, <2>1, <2>2 DEF Handling
  <2>7. ~Accepted'
    BY <2>1, <2>6 DEF Accepted, AsCurrent
  <2> QED BY <1>g, <2>1, <2>3, <2>4, <2>5, <2>6, <2>7 DEF UnionInv
<1>6. CASE Build \/ WaitDone
  <2>1. /\ cmdPc \in {"send", "wait"} /\ cmdPc' \in {"publish", "send"}
        /\ UNCHANGED <<filterUnion, mgrFilter, toMgr, fromMgr, picPc, frame, cmd, current>>
        /\ ~PopSubscribe /\ ~Unset
    BY <1>6 DEF Build, WaitDone, listVars, filterVars, linkVars, picVars, mgrVars, PopSubscribe,
                Unset
  <2>2. Refusing' = Refusing /\ Accepted' = Accepted
    BY <2>1 DEF Refusing, Accepted, Handling
  <2> QED BY <1>b, <1>g, <2>1, <2>2 DEF UnionInv
<1>7. CASE Publish
  <2> DEFINE f == [type |-> cmd.type, data |-> cmd.data, seq |-> built, ok |-> FALSE,
                   id |-> cmd.id]
  <2>1. /\ cmdPc = "publish" /\ cmdPc' = "wait" /\ toMgr' = Append(toMgr, f)
        /\ UNCHANGED <<filterUnion, mgrFilter, fromMgr, picPc, frame, cmd>>
        /\ current'.result = current.result /\ ~PopSubscribe /\ ~Unset
    BY <1>7, <1>h DEF Publish, filterVars, picVars, Current, PopSubscribe, Unset
  <2>2. f \in Frame /\ f.type = cmd.type /\ f.data = cmd.data
    BY DEF TypeOK, Command, Frame
  <2> HIDE DEF f
  <2>3. Refusing' = Refusing /\ Accepted' = Accepted
    BY <2>1 DEF Refusing, Accepted, Handling
  <2>4. \A i \in DOMAIN toMgr' : toMgr'[i].type = cmd.type /\ toMgr'[i].data = cmd.data
    <3>1. {toMgr'[i] : i \in DOMAIN toMgr'} \subseteq {toMgr[i] : i \in DOMAIN toMgr} \cup {f}
      BY <1>h, <2>1, <2>2, AppendMembers
    <3> QED BY <1>b, <2>1, <2>2, <3>1
  <2> QED BY <1>b, <1>g, <2>1, <2>3, <2>4 DEF UnionInv
<1>8. CASE Finish
  <2>1. /\ cmdPc = "send" /\ cmdPc' = "clear" /\ ~Unanswered /\ ~Commit
        /\ ~PopSubscribe /\ ~Unset /\ UNCHANGED <<filterUnion, mgrFilter>>
    BY <1>8 DEF Finish, Over, listVars, filterVars, linkVars, mgrVars, Commit, PopSubscribe,
                Unset, cmdVars
  <2>2. cmd.client # NoClient /\ cmdResult = "OK" /\ current.result = "OK"
    BY <1>c, <1>e, <2>1 DEF Unanswered
  <2>3. \A c \in Client : Closed(c)
    BY <1>f, <2>1, <2>2 DEF Working
  <2>4. Committed = Wanted
    BY <2>3, ClosedFilters
  <2>5. filterUnion = Wanted
    BY <1>b, <1>c, <1>d, <1>i, <2>1, <2>2
  <2>6. mgrFilter \cap Notif = Wanted \cap Notif
    BY <1>b, <2>1, <2>2 DEF Accepted
  <2> QED BY <1>g, <2>1, <2>4, <2>5, <2>6 DEF UnionInv
<1>9. CASE Clear \/ CmdExit
  <2>1. /\ cmdPc \in {"clear", "pop"} /\ cmdPc' \in {"pop", "done"} /\ ~Commit
        /\ UNCHANGED <<filterUnion, mgrFilter>>
    BY <1>9 DEF Clear, CmdExit, listVars, filterVars, linkVars, mgrVars, cmdVars, Commit
  <2> QED BY <1>b, <1>g, <2>1 DEF UnionInv
<1>10. CASE Recv
  <2>1. /\ fromMgr # <<>> /\ fromMgr' = Tail(fromMgr) /\ ~Handling
        /\ Handling' => frame' = Head(fromMgr)
        /\ UNCHANGED <<filterUnion, cmdUnion, mgrFilter, toMgr, cmd, cmdPc, current>>
        /\ picPc' # "deliver" /\ ~Commit /\ ~PopSubscribe /\ ~Unset
    BY <1>10 DEF Recv, Reading, Handling, listVars, filterVars, cmdVars, picVars, Commit,
                 PopSubscribe, Unset
  <2>2. Accepted' => Accepted
    <3>1. {fromMgr'[i] : i \in DOMAIN fromMgr'} \subseteq {fromMgr[i] : i \in DOMAIN fromMgr}
          /\ Head(fromMgr) \in {fromMgr[i] : i \in DOMAIN fromMgr}
      BY <1>h, <2>1, TailMembers
    <3> QED BY <2>1, <3>1 DEF Accepted
  <2>3. ~Refusing
    BY <1>i, <2>1
  <2> QED BY <1>b, <1>g, <2>1, <2>2, <2>3 DEF UnionInv
<1>11. CASE Validate
  <2>1. /\ UNCHANGED <<cmdUnion, mgrFilter, toMgr, fromMgr, cmd, cmdPc, current>>
        /\ picPc = "validate" /\ (Handling' => frame' = frame)
        /\ Refusing' \/ filterUnion' = filterUnion
        /\ ~Commit /\ ~PopSubscribe /\ ~Unset
    BY <1>11 DEF Validate, Handling, Refusing, cmdVars, mgrVars, Commit, PopSubscribe, Unset
  <2>2. cmdPc = "wait" /\ Handling /\ ~Refusing
    BY <1>c, <1>d, <2>1 DEF Handling, Refusing
  <2>3. Accepted' => Accepted
    BY <2>1, <2>2 DEF Accepted
  <2> QED BY <1>b, <1>g, <2>1, <2>2, <2>3 DEF UnionInv
<1>12. CASE Deliver \/ FindClient \/ Relay \/ Commit
  <2>1. /\ UNCHANGED <<filterUnion, mgrFilter, toMgr, cmd, cmdPc>> /\ Handling
        /\ frame.type = "SUBSCRIBE" /\ Deliver => frame.ok
        /\ ~PopSubscribe /\ ~Unset /\ picPc' # "deliver"
        /\ Deliver \/ (~MutexFree /\ current.result = "OK")
    BY <1>a, <1>c, <1>12 DEF Deliver, FindClient, Relay, Commit, Handling, listVars, filterVars, cmdVars,
       linkVars, mgrVars, PopSubscribe, Unset, MutexFree
  <2>2. cmdPc = "wait" /\ ~Refusing
    <3>1. Flying # 0
      BY <1>d, <2>1
    <3>2. Deliver \/ picPc # "deliver"
      BY <1>12 DEF FindClient, Relay, Commit
    <3> QED BY <1>c, <2>1, <3>1, <3>2 DEF Refusing
  <2>3. mgrFilter \cap Notif = Wanted \cap Notif
    <3>1. frame \in InFlight
      BY <2>1 DEF InFlight
    <3>2. frame.type = cmd.type
      BY <1>c, <3>1 DEF FlightInv
    <3> QED BY <1>b, <2>1, <2>2, <3>2 DEF Accepted
  <2>4. ~Refusing'
    BY <2>1 DEF Refusing
  <2> QED BY <1>b, <1>g, <2>1, <2>2, <2>3, <2>4 DEF UnionInv
<1>13. ASSUME NEW ok \in BOOLEAN, MgrAnswer(ok) PROVE UnionInv'
  <2> DEFINE r == Head(toMgr)
             a == [r EXCEPT !.ok = ok]
  <2>1. /\ toMgr # <<>> /\ fromMgr' = Append(fromMgr, a) /\ toMgr' = Tail(toMgr)
        /\ mgrFilter' = IF ok /\ r.type = "SUBSCRIBE" THEN r.data ELSE mgrFilter
        /\ UNCHANGED <<filterUnion, picPc, frame, cmd, cmdPc, current>>
        /\ ~PopSubscribe /\ ~Unset
    BY <1>13 DEF MgrAnswer, listVars, filterVars, cmdVars, picVars, PopSubscribe, Unset
  <2>2. cmdPc = "wait"
    BY <1>c, <1>d, <2>1
  <2>3. r \in Frame
    BY <1>h, <2>1, HeadTail
  <2>4. a \in Frame /\ a.ok = ok
    BY <2>3 DEF Frame
  <2>5. r.type = cmd.type /\ r.data = cmd.data
    BY <1>b, <1>h, <2>1, <2>2, TailFacts
  <2>6. \A i \in DOMAIN toMgr' : toMgr'[i].type = cmd.type /\ toMgr'[i].data = cmd.data
    <3>1. {toMgr'[i] : i \in DOMAIN toMgr'} \subseteq {toMgr[i] : i \in DOMAIN toMgr}
      BY <1>h, <2>1, TailMembers
    <3> QED BY <1>b, <2>2, <3>1
  <2> HIDE DEF r, a
  <2>7. Accepted' => Accepted \/ ok
    <3>1. {fromMgr'[i] : i \in DOMAIN fromMgr'} \subseteq {fromMgr[i] : i \in DOMAIN fromMgr} \cup {a}
      BY <1>h, <2>1, <2>4, AppendMembers
    <3> QED BY <2>1, <2>4, <3>1 DEF Accepted, Handling
  <2>8. cmd.type # "SUBSCRIBE" \/ Accepted' => mgrFilter' \cap Notif = Wanted \cap Notif
    BY <1>b, <2>1, <2>2, <2>5, <2>7
  <2>9. Refusing' = Refusing
    BY <2>1 DEF Refusing
  <2> QED BY <1>b, <1>g, <2>1, <2>2, <2>6, <2>8, <2>9 DEF UnionInv
<1>14. CASE Lose
  <2>1. /\ UNCHANGED <<filterUnion, cmdUnion, mgrFilter, picPc, frame, cmd, cmdPc, current>>
        /\ \/ toMgr # <<>> /\ toMgr' = Tail(toMgr) /\ UNCHANGED fromMgr
           \/ fromMgr # <<>> /\ fromMgr' = Tail(fromMgr) /\ UNCHANGED toMgr
        /\ ~Commit /\ ~PopSubscribe /\ ~Unset
    BY <1>14 DEF Lose, listVars, filterVars, cmdVars, picVars, Commit, PopSubscribe, Unset
  <2>2. /\ {toMgr'[i] : i \in DOMAIN toMgr'} \subseteq {toMgr[i] : i \in DOMAIN toMgr}
        /\ {fromMgr'[i] : i \in DOMAIN fromMgr'} \subseteq {fromMgr[i] : i \in DOMAIN fromMgr}
    BY <1>h, <2>1, TailMembers
  <2>3. Accepted' => Accepted
    BY <2>1, <2>2 DEF Accepted, Handling
  <2>4. Refusing' = Refusing
    BY <2>1 DEF Refusing
  <2>5. cmdPc \in {"send", "publish", "wait"} =>
          \A i \in DOMAIN toMgr' : toMgr'[i].type = cmd.type /\ toMgr'[i].data = cmd.data
    BY <1>b, <2>2
  <2> QED BY <1>b, <1>g, <2>1, <2>3, <2>4, <2>5 DEF UnionInv
<1>16. CASE Undo \/ Unset
  <2>1. cmdPc' \in {"unset", "tell"}
    BY <1>16 DEF Undo, Unset
  <2> QED BY <2>1 DEF UnionInv
<1>15. CASE /\ ~Mark /\ ~PopSubscribe /\ ~PopForward /\ ~CmdUnion /\ ~CmdStore /\ ~Rewrite
            /\ ~Build /\ ~Publish /\ ~WaitDone /\ ~Finish /\ ~Undo /\ ~Unset /\ ~Tell
            /\ ~Clear /\ ~CmdExit /\ ~Deliver /\ ~FindClient /\ ~Relay /\ ~Commit
            /\ ~Recv /\ ~Validate /\ ~(\E ok \in BOOLEAN : MgrAnswer(ok)) /\ ~Lose
  <2>1. UNCHANGED <<current, cmd, cmdPc>>
    BY <1>15, HandStepUntouched
  <2>2. UNCHANGED <<toMgr, fromMgr, frame, mgrFilter>>
        /\ (picPc' = picPc \/ (picPc = "read" /\ picPc' = "done"))
    BY <1>15, LinkUntouched
  <2>3. ~IoStore
    BY <1>e DEF IoStore
  <2>4. UNCHANGED <<filterUnion, cmdUnion>>
    BY <1>15, <2>3, UnionUntouched
  <2>5. Refusing' = Refusing /\ Accepted' = Accepted
    BY <2>1, <2>2 DEF Refusing, Accepted, Handling
  <2>6. Committed' = Committed /\ Wanted' = Wanted
    BY <1>g, <1>15
  <2> QED BY <1>b, <2>1, <2>2, <2>4, <2>5, <2>6 DEF UnionInv
<1> QED
  BY <1>a, <1>1, <1>2, <1>3, <1>4, <1>5, <1>6, <1>7, <1>8, <1>9, <1>10, <1>11, <1>12, <1>13,
     <1>14, <1>15, <1>16

\* For every set of clients, filters and commands: whenever an undisturbed epoch comes
\* to rest, m_filterUnion is the union of the filters in force and the Manager's
\* notification filter is that union, although subscribes of all clients go
\* through the one m_filterUnion.
THEOREM FiltersAgreeAtRest == Spec => []FilterInSync
<1>1. Spec => []TypeOK
  BY TypeCorrect
<1>2. Spec => []HandInv
  BY HandAlways
<1>3. Spec => [](FlightInv /\ TxnInv /\ RouteInv)
  BY FlightAlways, TxnAlways, RouteAlways, PTL
<1>4. Spec => []CalmInv
  BY <1>1, <1>2, InitCalm, NextCalm, PTL DEF Spec
<1>5. Spec => []UnionInv
  BY <1>1, <1>2, <1>3, <1>4, InitUnion, NextUnion, PTL DEF Spec
<1>6. UnionInv => FilterInSync
  BY DEF UnionInv, FilterInSync, Quiescent, Calm, Committed
<1> QED BY <1>5, <1>6, PTL
=============================================================================
