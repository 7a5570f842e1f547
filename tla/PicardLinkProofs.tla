-------------------------- MODULE PicardLinkProofs --------------------------
(***************************************************************************)
(* Proofs about PicardLink, for every set of versions of the Manager, any  *)
(* KNOWN_API_PROTOCOL_VERSIONS, every size of the sequence number space    *)
(* above 1 and any number of frames, losses, restarts and notifications:   *)
(* the version both ends speak, the version clients are served with, and   *)
(* the movement of m_seqNo.                                                *)
(***************************************************************************)
EXTENDS PicardLink, TLAPS

KnownVersion == {Known[i] : i \in DOMAIN Known}

\* A hello asks for a version the mux knows.
ToFrame ==
    [kind : {"hello"}, version : KnownVersion, seq : Seqs] \cup
    [kind : {"ack", "cmd"}, seq : Seqs]

\* The Manager names its version v in everything it says about versions, and
\* accepts a hello only if the mux knows that version.
AnyFromFrame(v) ==
    [kind : {"helloRsp"}, ok : BOOLEAN, version : {v}, mgrSeq : Seqs, cliSeq : Seqs] \cup
    [kind : {"mgrHello"}, version : {v}] \cup
    [kind : {"rsp"}, seq : Seqs] \cup
    [kind : {"notif"}, seq : Seqs, n : Notifs, reliable : BOOLEAN]

FromFrame(v) == {f \in AnyFromFrame(v) : f.kind = "helloRsp" /\ f.ok => v \in KnownVersion}

LinkType ==
    /\ toMgr \in Seq(ToFrame) /\ fromMgr \in Seq(FromFrame(mgrVersion))
    /\ seqNo \in Seqs /\ mgrLastSeq \in Seqs
    /\ mgrNotif \in 0 .. MaxNotif /\ (mgrWait => mgrNotif \in Notifs)
    /\ mgrVersion \in Versions
    /\ reset \in [ResetThreads -> {"none", "stop"}]
    /\ picPc = "notif" => hand \in FromFrame(mgrVersion) /\ hand.kind = "notif"

\* The mux never records a version that is not the Manager's, or that it does not
\* know, and is connected only with a recorded one.
Recording ==
    /\ version \in {0, mgrVersion}
    /\ version # 0 => version \in KnownVersion
    /\ connected => version = mgrVersion

\* Nobody has called resetConnection, or woken the listen thread for no reason.
Undisturbed == ~ioStopped /\ ~spurious /\ \A t \in ResetThreads : reset[t] = "none"

\* The listen thread leaves its wait on a connected link, because of a reset or
\* for no reason, and takes the version there is then.
Listening ==
    /\ lisPc = "listening" => lisVersion \in {0, mgrVersion}
    /\ Undisturbed => /\ lisPc = "woken" => connected
                      /\ lisPc = "listening" => lisVersion = mgrVersion

\* The inductive invariant.
LinkInv == LinkType /\ Recording /\ Listening

-----------------------------------------------------------------------------
(* Frames and queues *)

LEMMA NextSeqType == \A s \in Seqs : NextSeq(s) \in Seqs
BY BoundAssumption DEF NextSeq, Seqs

LEMMA KnownFacts ==
    /\ \A v : CheckProtocol(v) <=> v \in KnownVersion
    /\ Known[1] \in KnownVersion /\ 0 \notin KnownVersion
<1>1. \A v : CheckProtocol(v) <=> v \in KnownVersion
  BY DEF CheckProtocol, KnownVersion
<1>2. 1 \in DOMAIN Known /\ \A i \in DOMAIN Known : Known[i] # 0
  BY VersionAssumption
<1> QED BY <1>1, <1>2 DEF KnownVersion

LEMMA ToFrames ==
    /\ \A v \in KnownVersion, s \in Seqs : Hello(v, s) \in ToFrame
    /\ \A s \in Seqs : Ack(s) \in ToFrame /\ Cmd(s) \in ToFrame
BY DEF Hello, Ack, Cmd, ToFrame

LEMMA ToFields ==
    \A f \in ToFrame :
        /\ f.kind \in {"hello", "ack", "cmd"} /\ f.seq \in Seqs
        /\ f.kind = "hello" => f.version \in KnownVersion
BY DEF ToFrame

LEMMA FromFrames ==
    ASSUME NEW v
    PROVE  /\ \A ok \in BOOLEAN, ms \in Seqs, cs \in Seqs :
                 (ok => v \in KnownVersion) => HelloRsp(ok, v, ms, cs) \in FromFrame(v)
           /\ MgrHello(v) \in FromFrame(v)
           /\ \A s \in Seqs : Rsp(s) \in FromFrame(v)
           /\ \A s \in Seqs, n \in Notifs, r \in BOOLEAN : Notify(s, n, r) \in FromFrame(v)
<1>1. \A ok \in BOOLEAN, ms \in Seqs, cs \in Seqs :
        (ok => v \in KnownVersion) => HelloRsp(ok, v, ms, cs) \in FromFrame(v)
  BY DEF HelloRsp, FromFrame, AnyFromFrame
<1>2. MgrHello(v) \in FromFrame(v)
  BY DEF MgrHello, FromFrame, AnyFromFrame
<1>3. \A s \in Seqs : Rsp(s) \in FromFrame(v)
  BY DEF Rsp, FromFrame, AnyFromFrame
<1>4. \A s \in Seqs, n \in Notifs, r \in BOOLEAN : Notify(s, n, r) \in FromFrame(v)
  BY DEF Notify, FromFrame, AnyFromFrame
<1> QED BY <1>1, <1>2, <1>3, <1>4

LEMMA FromFields ==
    ASSUME NEW v, NEW f \in FromFrame(v)
    PROVE  /\ f.kind \in {"helloRsp", "mgrHello", "rsp", "notif"}
           /\ f.kind = "helloRsp" => /\ f.ok \in BOOLEAN /\ f.version = v
                                     /\ f.mgrSeq \in Seqs /\ f.cliSeq \in Seqs
                                     /\ f.ok => v \in KnownVersion
           /\ f.kind = "mgrHello" => f.version = v
           /\ f.kind = "rsp" => f.seq \in Seqs
           /\ f.kind = "notif" => f.seq \in Seqs /\ f.n \in Notifs /\ f.reliable \in BOOLEAN
BY DEF FromFrame, AnyFromFrame

\* A non-empty queue has a head of its type, and a tail.
LEMMA HeadTail ==
    ASSUME NEW S, NEW s \in Seq(S), s # <<>>
    PROVE  Head(s) \in S /\ Tail(s) \in Seq(S)
OBVIOUS

LEMMA AppendType ==
    ASSUME NEW S, NEW s \in Seq(S), NEW e \in S
    PROVE  Append(s, e) \in Seq(S)
OBVIOUS

-----------------------------------------------------------------------------
(* The version *)

LEMMA InitLink == Init => LinkInv
<1> SUFFICES ASSUME Init PROVE LinkInv
  OBVIOUS
<1>1. LinkType
  BY BoundAssumption DEF Init, LinkType, Seqs
<1>2. Recording /\ Listening
  BY DEF Init, Recording, Listening
<1> QED BY <1>1, <1>2 DEF LinkInv

\* The head of a queue, as the receiver sees it.
LEMMA Received ==
    ASSUME LinkType, NEW k, Receives(k)
    PROVE  /\ Head(fromMgr) \in FromFrame(mgrVersion) /\ Head(fromMgr).kind = k
           /\ fromMgr' = Tail(fromMgr) /\ fromMgr' \in Seq(FromFrame(mgrVersion))
BY HeadTail DEF Receives, LinkType

LEMMA NextLink == LinkInv /\ [Next]_vars => LinkInv'
<1> SUFFICES ASSUME LinkInv, [Next]_vars PROVE LinkInv'
  OBVIOUS
<1>0. LinkType /\ Recording /\ Listening
  BY DEF LinkInv
<1> USE <1>0 DEF linkVars, lisVars, stopVars, notifVars, mgrVars, lineVars
<1>1. CASE SendHello
  <2>1. RequestedVersion \in KnownVersion
    BY KnownFacts DEF RequestedVersion, Recording
  <2>2. toMgr' \in Seq(ToFrame)
    BY <1>1, <2>1, ToFrames, AppendType DEF SendHello, LinkType
  <2>3. LinkType'
    BY <1>1, <2>2 DEF SendHello, LinkType
  <2> QED BY <1>1, <2>3 DEF SendHello, Recording, Listening, Undisturbed, LinkInv
<1>2. CASE RecvHelloRsp
  <2> DEFINE f == Head(fromMgr)
  <2>1. f \in FromFrame(mgrVersion) /\ f.kind = "helloRsp" /\ fromMgr' \in Seq(FromFrame(mgrVersion))
    BY <1>2, Received DEF RecvHelloRsp
  <2>2. /\ f.version = mgrVersion /\ f.cliSeq \in Seqs
        /\ f.ok => mgrVersion \in KnownVersion
    BY <2>1, FromFields
  <2>3. LinkType'
    BY <1>2, <2>1, <2>2, NextSeqType DEF RecvHelloRsp, LinkType
  <2>4. Recording'
    BY <1>2, <2>2, KnownFacts DEF RecvHelloRsp, Recorded, Recording
  <2>5. Listening'
    BY <1>2 DEF RecvHelloRsp, NotifyConnect, Listening, Undisturbed
  <2> QED BY <2>3, <2>4, <2>5 DEF LinkInv
<1>3. CASE RecvMgrHello
  <2> DEFINE f == Head(fromMgr)
  <2>1. f \in FromFrame(mgrVersion) /\ f.kind = "mgrHello" /\ fromMgr' \in Seq(FromFrame(mgrVersion))
    BY <1>3, Received DEF RecvMgrHello
  <2>2. f.version = mgrVersion
    BY <2>1, FromFields
  <2>3. LinkType'
    BY <1>3, <2>1 DEF RecvMgrHello, LinkType
  <2>4. Recording'
    BY <1>3, <2>2, KnownFacts DEF RecvMgrHello, Recorded, Recording
  <2>5. Listening'
    BY <1>3 DEF RecvMgrHello, NotifyConnect, LinkType, Listening, Undisturbed, ResetThreads
  <2> QED BY <2>3, <2>4, <2>5 DEF LinkInv
<1>4. CASE RecvNotif
  <2> DEFINE f == Head(fromMgr)
  <2>1. f \in FromFrame(mgrVersion) /\ f.kind = "notif" /\ fromMgr' \in Seq(FromFrame(mgrVersion))
    BY <1>4, Received DEF RecvNotif
  <2>2. Ack(f.seq) \in ToFrame
    BY <2>1, FromFields, ToFrames
  <2>3. toMgr' \in Seq(ToFrame)
    BY <1>4, <2>2, AppendType DEF RecvNotif, LinkType
  <2>4. LinkType'
    BY <1>4, <2>1, <2>3, FromFields, NextSeqType DEF RecvNotif, AckedSeq, LinkType
  <2> QED BY <1>4, <2>4 DEF RecvNotif, Recording, Listening, Undisturbed, LinkInv
<1>23. CASE HandOn
  <2>1. LinkType'
    BY <1>23 DEF HandOn, LinkType
  <2> QED BY <1>23, <2>1 DEF HandOn, Recording, Listening, Undisturbed, LinkInv
<1>24. CASE SpuriousWake
  BY <1>24 DEF SpuriousWake, LinkType, Recording, Listening, Undisturbed, LinkInv
<1>5. CASE RecvRsp
  <2>1. /\ Head(fromMgr).seq \in Seqs /\ fromMgr' \in Seq(FromFrame(mgrVersion))
    BY <1>5, Received, FromFields DEF RecvRsp
  <2>2. LinkType'
    BY <1>5, <2>1, NextSeqType DEF RecvRsp, LinkType
  <2> QED BY <1>5, <2>2 DEF RecvRsp, Recording, Listening, Undisturbed, LinkInv
<1>6. CASE SendCommand
  <2>1. toMgr' \in Seq(ToFrame)
    BY <1>6, ToFrames, AppendType DEF SendCommand, LinkType
  <2>2. LinkType'
    BY <1>6, <2>1 DEF SendCommand, LinkType
  <2> QED BY <1>6, <2>2 DEF SendCommand, Recording, Listening, Undisturbed, LinkInv
<1>7. CASE MgrTake
  <2> DEFINE f == Head(toMgr)
  <2>1. f \in ToFrame /\ toMgr' \in Seq(ToFrame)
    BY <1>7, HeadTail DEF MgrTake, LinkType
  <2>2. f.seq \in Seqs /\ (f.kind = "hello" => f.version \in KnownVersion)
    BY <2>1, ToFields
  <2>3. CASE f.kind = "hello" /\ fromMgr' = Append(fromMgr,
              HelloRsp(f.version = mgrVersion, mgrVersion, mgrLastSeq, f.seq))
    <3>1. HelloRsp(f.version = mgrVersion, mgrVersion, mgrLastSeq, f.seq) \in FromFrame(mgrVersion)
      BY <2>2, <2>3, FromFrames DEF LinkType
    <3> QED BY <1>7, <2>1, <2>3, <3>1, AppendType
            DEF MgrTake, LinkType, Recording, Listening, Undisturbed, LinkInv
  <2>4. CASE f.kind = "cmd" /\ fromMgr' = Append(fromMgr, Rsp(f.seq))
    <3>1. Rsp(f.seq) \in FromFrame(mgrVersion)
      BY <2>2, FromFrames
    <3> QED BY <1>7, <2>1, <2>4, <3>1, AppendType
            DEF MgrTake, LinkType, Recording, Listening, Undisturbed, LinkInv
  <2>5. CASE f.kind = "ack" /\ UNCHANGED fromMgr
    BY <1>7, <2>1, <2>5 DEF MgrTake, LinkType, Recording, Listening, Undisturbed, LinkInv
  <2> QED BY <1>7, <2>3, <2>4, <2>5 DEF MgrTake
<1>8. ASSUME NEW reliable \in BOOLEAN, MgrNotify(reliable) PROVE LinkInv'
  <2>1. mgrNotif + 1 \in Notifs /\ NextSeq(mgrLastSeq) \in Seqs
    BY <1>8, BoundAssumption, NextSeqType DEF MgrNotify, LinkType, Notifs
  <2>2. fromMgr' \in Seq(FromFrame(mgrVersion))
    BY <1>8, <2>1, FromFrames, AppendType DEF MgrNotify, LinkType
  <2>3. LinkType'
    BY <1>8, <2>1, <2>2 DEF MgrNotify, LinkType, Notifs
  <2> QED BY <1>8, <2>3 DEF MgrNotify, Recording, Listening, Undisturbed, LinkInv
<1>9. CASE MgrRepeat
  <2>1. Notify(mgrLastSeq, mgrNotif, TRUE) \in FromFrame(mgrVersion)
    BY <1>9, FromFrames DEF MgrRepeat, LinkType
  <2>2. fromMgr' \in Seq(FromFrame(mgrVersion))
    BY <1>9, <2>1, AppendType DEF MgrRepeat, LinkType
  <2>3. LinkType'
    BY <1>9, <2>2 DEF MgrRepeat, LinkType
  <2> QED BY <1>9, <2>3 DEF MgrRepeat, Recording, Listening, Undisturbed, LinkInv
<1>10. CASE MgrBoot
  <2>1. fromMgr' \in Seq(FromFrame(mgrVersion))
    BY <1>10, FromFrames, AppendType DEF MgrBoot, LinkType
  <2>2. LinkType'
    BY <1>10, <2>1 DEF MgrBoot, LinkType
  <2> QED BY <1>10, <2>2 DEF MgrBoot, Recording, Listening, Undisturbed, LinkInv
<1>11. CASE Lose
  <2>1. toMgr' \in Seq(ToFrame) /\ fromMgr' \in Seq(FromFrame(mgrVersion))
    BY <1>11, HeadTail DEF Lose, LinkType
  <2>2. LinkType'
    BY <1>11, <2>1 DEF Lose, LinkType
  <2> QED BY <1>11, <2>2 DEF Lose, Recording, Listening, Undisturbed, LinkInv
<1>12. CASE PicExit
  BY <1>12 DEF PicExit, LinkType, Recording, Listening, Undisturbed, LinkInv
<1>13. CASE WaitCheck
  BY <1>13 DEF WaitCheck, HelloSeen, LinkType, Recording, Listening, Undisturbed, LinkInv
<1>14. CASE WaitBegin
  BY <1>14 DEF WaitBegin, LinkType, Recording, Listening, Undisturbed, LinkInv
<1>15. CASE Listen
  BY <1>15 DEF Listen, LinkType, Recording, Listening, Undisturbed, LinkInv
<1>16. CASE MainStop
  BY <1>16 DEF MainStop, LinkType, Recording, Listening, Undisturbed, LinkInv
<1>17. CASE MainJoinListen
  BY <1>17 DEF MainJoinListen, LinkType, Recording, Listening, Undisturbed, LinkInv
<1>18. CASE MainJoinPic
  BY <1>18 DEF MainJoinPic, LinkType, Recording, Listening, Undisturbed, LinkInv
<1>19. CASE ResetNotify
  BY <1>19 DEF ResetNotify, NotifyConnect, ResetThreads, LinkType, Recording, Listening, Undisturbed, LinkInv
<1>20. CASE Terminated
  BY <1>20 DEF Terminated, vars, LinkType, Recording, Listening, Undisturbed, LinkInv
<1>21. CASE UNCHANGED vars
  BY <1>21 DEF vars, LinkType, Recording, Listening, Undisturbed, LinkInv
<1>22. ASSUME NEW t \in ResetThreads, ResetStop(t) PROVE LinkInv'
  BY <1>22 DEF ResetStop, LinkType, Recording, Listening, Undisturbed, LinkInv
<1> QED
  BY <1>1, <1>2, <1>3, <1>4, <1>5, <1>6, <1>7, <1>8, <1>9, <1>10, <1>11, <1>12, <1>13, <1>14, <1>15, <1>16, <1>17, <1>18, <1>19, <1>20, <1>21, <1>22, <1>23, <1>24
     DEF Next, FrameComplete, ListenStep, MainStep, MgrStep

\* Both ends speak the Manager's version on a connected link, whichever hellos and
\* answers were lost, late or refused, and however often the Manager restarted.
THEOREM VersionsAgree == Spec => []VersionAgreed
<1>1. LinkInv => VersionAgreed
  BY DEF LinkInv, Recording, VersionAgreed
<1> QED BY InitLink, NextLink, <1>1, PTL DEF Spec

\* Clients are served with the Manager's version or, after a reset or a spurious
\* wake-up of the wait, with none, for every interleaving of the listen thread's
\* wait with the frames of the Manager and every end of the wait, notified or not.
THEOREM ServedWithVersion == Spec => []ListensWithVersion
<1>1. LinkInv => ListensWithVersion
  BY DEF LinkInv, Listening, Undisturbed, ListensWithVersion
<1> QED BY InitLink, NextLink, <1>1, PTL DEF Spec

-----------------------------------------------------------------------------
(* The sequence number *)

\* Frames that carry a number of the mux, there or back.
Numbered(f) == f.kind \in {"hello", "cmd", "helloRsp", "rsp"}
CliSeq(f)   == IF f.kind = "helloRsp" THEN f.cliSeq ELSE f.seq

Fresh(f, x) == Numbered(f) /\ CliSeq(f) = x
Stale(f, x) == Numbered(f) /\ CliSeq(f) # x

Recent(q, x)  == \A i \in DOMAIN q : Stale(q[i], x) => NextSeq(CliSeq(q[i])) = x
InOrder(q, x) == \A i, j \in DOMAIN q : i < j /\ Fresh(q[i], x) => ~Stale(q[j], x)

\* Of two queues, from and to the Manager, with m_seqNo = x: every number in flight
\* is x or the one before it, and those before it come first.
TwoSeqs(from, to, x) ==
    /\ Recent(from, x) /\ Recent(to, x)
    /\ InOrder(from, x) /\ InOrder(to, x)
    /\ \A i \in DOMAIN from, j \in DOMAIN to : Fresh(from[i], x) => ~Stale(to[j], x)

LEMMA NextSeqDiffers == \A s \in Seqs : NextSeq(s) # s
<1> SUFFICES ASSUME NEW s \in Seqs PROVE NextSeq(s) # s
  OBVIOUS
<1>1. CASE s + 1 < SeqMod
  BY <1>1, BoundAssumption DEF NextSeq, Seqs
<1>2. CASE s + 1 = SeqMod
  BY <1>2, BoundAssumption DEF NextSeq, Seqs
<1> QED BY <1>1, <1>2, BoundAssumption DEF Seqs

LEMMA TailFacts ==
    ASSUME NEW S, NEW s \in Seq(S), s # <<>>
    PROVE  /\ Head(s) = s[1] /\ 1 \in DOMAIN s
           /\ \A i \in DOMAIN s : i = 1 \/ 1 < i
           /\ \A i \in DOMAIN Tail(s) : /\ i \in Nat /\ i + 1 \in DOMAIN s
                                        /\ Tail(s)[i] = s[i + 1]
OBVIOUS

LEMMA AppendFacts ==
    ASSUME NEW S, NEW s \in Seq(S), NEW e
    PROVE  /\ \A i \in DOMAIN Append(s, e) :
                 \/ i \in DOMAIN s /\ i \in Nat /\ i <= Len(s) /\ Append(s, e)[i] = s[i]
                 \/ i = Len(s) + 1 /\ i \notin DOMAIN s /\ Append(s, e)[i] = e
           /\ \A i \in DOMAIN s : i \in Nat /\ i <= Len(s)
           /\ Len(s) \in Nat
OBVIOUS

LEMMA AppendMore ==
    ASSUME NEW S, NEW s \in Seq(S), NEW e
    PROVE  /\ \A i \in DOMAIN s : i \in DOMAIN Append(s, e) /\ Append(s, e)[i] = s[i]
           /\ Len(s) + 1 \in DOMAIN Append(s, e) /\ Append(s, e)[Len(s) + 1] = e
OBVIOUS

\* A queue stays as it is when its head goes ...
LEMMA TailKeeps ==
    ASSUME NEW S, NEW s \in Seq(S), s # <<>>, NEW x, Recent(s, x), InOrder(s, x)
    PROVE  Recent(Tail(s), x) /\ InOrder(Tail(s), x)
<1>1. Recent(Tail(s), x)
  BY TailFacts DEF Recent
<1>2. InOrder(Tail(s), x)
  BY TailFacts DEF InOrder
<1> QED BY <1>1, <1>2

\* ... or a frame is added that is not out of place.
LEMMA AppendKeeps ==
    ASSUME NEW S, NEW s \in Seq(S), NEW e, NEW x, Recent(s, x), InOrder(s, x),
           Stale(e, x) => NextSeq(CliSeq(e)) = x /\ \A i \in DOMAIN s : ~Fresh(s[i], x)
    PROVE  Recent(Append(s, e), x) /\ InOrder(Append(s, e), x)
<1>1. Recent(Append(s, e), x)
  BY AppendFacts DEF Recent
<1>2. InOrder(Append(s, e), x)
  BY AppendFacts DEF InOrder
<1> QED BY <1>1, <1>2

\* The mux sends a frame, under m_seqNo if it has a number.
LEMMA SentInOrder ==
    ASSUME NEW A, NEW B, NEW from \in Seq(A), NEW to \in Seq(B), NEW x,
           TwoSeqs(from, to, x), NEW e, ~Stale(e, x)
    PROVE  TwoSeqs(from, Append(to, e), x)
BY AppendKeeps, AppendFacts DEF TwoSeqs

\* A frame without a number enters the queue from the Manager.
LEMMA ToldInOrder ==
    ASSUME NEW A, NEW B, NEW from \in Seq(A), NEW to \in Seq(B), NEW x,
           TwoSeqs(from, to, x), NEW e, ~Numbered(e)
    PROVE  TwoSeqs(Append(from, e), to, x)
BY AppendKeeps, AppendFacts DEF TwoSeqs, Fresh, Stale

\* The next frame of a direction is lost, or taken without an answer.
LEMMA LostInOrder ==
    ASSUME NEW A, NEW B, NEW from \in Seq(A), NEW to \in Seq(B), NEW x, TwoSeqs(from, to, x)
    PROVE  /\ from # <<>> => TwoSeqs(Tail(from), to, x)
           /\ to # <<>> => TwoSeqs(from, Tail(to), x)
<1>1. ASSUME from # <<>> PROVE TwoSeqs(Tail(from), to, x)
  BY <1>1, TailKeeps, TailFacts DEF TwoSeqs
<1>2. ASSUME to # <<>> PROVE TwoSeqs(from, Tail(to), x)
  BY <1>2, TailKeeps, TailFacts DEF TwoSeqs
<1> QED BY <1>1, <1>2

\* The Manager takes a frame and answers it under its number.
LEMMA AnsweredInOrder ==
    ASSUME NEW A, NEW B, NEW from \in Seq(A), NEW to \in Seq(B), NEW x, TwoSeqs(from, to, x),
           to # <<>>, NEW e, Numbered(e), Numbered(Head(to)), CliSeq(e) = CliSeq(Head(to))
    PROVE  TwoSeqs(Append(from, e), Tail(to), x)
<1>1. Stale(e, x) <=> Stale(to[1], x)
  BY TailFacts DEF Stale
<1>2. Fresh(e, x) <=> Fresh(to[1], x)
  BY TailFacts DEF Fresh
<1>3. Recent(Append(from, e), x) /\ InOrder(Append(from, e), x)
  <2>1. Stale(e, x) => NextSeq(CliSeq(e)) = x
    BY <1>1, TailFacts DEF TwoSeqs, Recent
  <2>2. Stale(e, x) => \A i \in DOMAIN from : ~Fresh(from[i], x)
    BY <1>1, TailFacts DEF TwoSeqs
  <2> QED BY <2>1, <2>2, AppendKeeps DEF TwoSeqs
<1>4. Recent(Tail(to), x) /\ InOrder(Tail(to), x)
  BY TailKeeps DEF TwoSeqs
<1>5. Fresh(e, x) => \A j \in DOMAIN Tail(to) : ~Stale(Tail(to)[j], x)
  BY <1>2, TailFacts DEF TwoSeqs, InOrder
<1>6. \A i \in DOMAIN from, j \in DOMAIN Tail(to) : Fresh(from[i], x) => ~Stale(Tail(to)[j], x)
  BY TailFacts DEF TwoSeqs
<1>7. \A i \in DOMAIN Append(from, e), j \in DOMAIN Tail(to) :
         Fresh(Append(from, e)[i], x) => ~Stale(Tail(to)[j], x)
  BY <1>5, <1>6, AppendFacts
<1> QED BY <1>3, <1>4, <1>7 DEF TwoSeqs

\* The mux receives an answer and moves m_seqNo to the number after it: to the next
\* one, or nowhere.
LEMMA MovedInOrder ==
    ASSUME NEW A, NEW B, NEW from \in Seq(A), NEW to \in Seq(B), NEW x \in Seqs,
           TwoSeqs(from, to, x), from # <<>>, Numbered(Head(from)), CliSeq(Head(from)) \in Seqs
    PROVE  /\ NextSeq(CliSeq(Head(from))) \in {x, NextSeq(x)}
           /\ TwoSeqs(Tail(from), to, NextSeq(CliSeq(Head(from))))
<1> DEFINE y == CliSeq(Head(from))
<1>0. Head(from) = from[1] /\ 1 \in DOMAIN from
  BY TailFacts
<1>1. CASE y = x
  <2>1. Fresh(from[1], x)
    BY <1>0, <1>1 DEF Fresh
  <2>2. \A i \in DOMAIN Tail(from) : ~Stale(Tail(from)[i], x)
    BY <2>1, TailFacts DEF TwoSeqs, InOrder
  <2>3. \A j \in DOMAIN to : ~Stale(to[j], x)
    BY <1>0, <2>1 DEF TwoSeqs
  <2>4. NextSeq(x) # x
    BY NextSeqDiffers
  <2>5. \A f : ~Stale(f, x) => /\ ~Fresh(f, NextSeq(x))
                               /\ Stale(f, NextSeq(x)) => NextSeq(CliSeq(f)) = NextSeq(x)
    BY <2>4 DEF Fresh, Stale
  <2>6. TwoSeqs(Tail(from), to, NextSeq(x))
    BY <2>2, <2>3, <2>5 DEF TwoSeqs, Recent, InOrder
  <2> QED BY <1>1, <2>6
<1>2. CASE y # x
  <2>1. NextSeq(y) = x
    BY <1>0, <1>2 DEF TwoSeqs, Recent, Stale
  <2> QED BY <2>1, LostInOrder
<1> QED BY <1>1, <1>2

\* The frames of the link, by their number.
LEMMA FrameNumbers ==
    /\ \A v, s : Numbered(Hello(v, s)) /\ CliSeq(Hello(v, s)) = s
    /\ \A s : Numbered(Cmd(s)) /\ CliSeq(Cmd(s)) = s
    /\ \A s : ~Numbered(Ack(s))
    /\ \A ok, v, ms, cs : Numbered(HelloRsp(ok, v, ms, cs)) /\ CliSeq(HelloRsp(ok, v, ms, cs)) = cs
    /\ \A s : Numbered(Rsp(s)) /\ CliSeq(Rsp(s)) = s
    /\ \A v : ~Numbered(MgrHello(v))
    /\ \A s, n, r : ~Numbered(Notify(s, n, r))
BY DEF Hello, Cmd, Ack, HelloRsp, Rsp, MgrHello, Notify, Numbered, CliSeq

SeqInv == TwoSeqs(fromMgr, toMgr, seqNo)

LEMMA InitSeq == Init => SeqInv
BY DEF Init, SeqInv, TwoSeqs, Recent, InOrder

\* The step of m_seqNo, and the queues after it.
LEMMA NextSeqInv ==
    ASSUME LinkType, SeqInv, [Next]_vars
    PROVE  SeqInv' /\ seqNo' \in {seqNo, NextSeq(seqNo)}
<1>0. fromMgr \in Seq(FromFrame(mgrVersion)) /\ toMgr \in Seq(ToFrame) /\ seqNo \in Seqs
  BY DEF LinkType
<1> USE <1>0 DEF SeqInv, linkVars, lisVars, stopVars, notifVars, mgrVars, lineVars
<1>1. CASE SendHello
  <2>1. ~Stale(Hello(RequestedVersion, seqNo), seqNo)
    BY FrameNumbers DEF Stale
  <2> QED BY <1>1, <2>1, SentInOrder DEF SendHello
<1>2. CASE SendCommand
  <2>1. ~Stale(Cmd(seqNo), seqNo)
    BY FrameNumbers DEF Stale
  <2> QED BY <1>2, <2>1, SentInOrder DEF SendCommand
<1>3. CASE RecvHelloRsp
  <2> DEFINE f == Head(fromMgr)
  <2>1. f \in FromFrame(mgrVersion) /\ f.kind = "helloRsp" /\ fromMgr # <<>> /\ fromMgr' = Tail(fromMgr)
    BY <1>3, Received DEF RecvHelloRsp, Receives
  <2>2. Numbered(f) /\ CliSeq(f) = f.cliSeq /\ CliSeq(f) \in Seqs
    BY <2>1, FromFields DEF Numbered, CliSeq
  <2>3. CASE f.ok
    <3>1. seqNo' = NextSeq(CliSeq(f)) /\ UNCHANGED toMgr
      BY <1>3, <2>2, <2>3 DEF RecvHelloRsp
    <3> QED BY <2>1, <2>2, <3>1, MovedInOrder
  <2>4. CASE ~f.ok
    BY <1>3, <2>1, <2>4, LostInOrder DEF RecvHelloRsp
  <2> QED BY <2>3, <2>4
<1>4. CASE RecvRsp
  <2> DEFINE f == Head(fromMgr)
  <2>1. f \in FromFrame(mgrVersion) /\ f.kind = "rsp" /\ fromMgr # <<>> /\ fromMgr' = Tail(fromMgr)
    BY <1>4, Received DEF RecvRsp, Receives
  <2>2. Numbered(f) /\ CliSeq(f) = f.seq /\ CliSeq(f) \in Seqs
    BY <2>1, FromFields DEF Numbered, CliSeq
  <2>3. seqNo' = NextSeq(CliSeq(f)) /\ UNCHANGED toMgr
    BY <1>4, <2>2 DEF RecvRsp
  <2> QED BY <2>1, <2>2, <2>3, MovedInOrder
<1>5. CASE RecvMgrHello
  BY <1>5, LostInOrder DEF RecvMgrHello, Receives
<1>6. CASE RecvNotif
  <2>1. fromMgr # <<>> /\ fromMgr' = Tail(fromMgr) /\ UNCHANGED seqNo
    BY <1>6 DEF RecvNotif, Receives
  <2>2. TwoSeqs(Tail(fromMgr), toMgr, seqNo) /\ Tail(fromMgr) \in Seq(FromFrame(mgrVersion))
    BY <2>1, LostInOrder, HeadTail
  <2>3. CASE UNCHANGED toMgr
    BY <2>1, <2>2, <2>3
  <2>4. CASE toMgr' = Append(toMgr, Ack(Head(fromMgr).seq))
    <3>1. ~Stale(Ack(Head(fromMgr).seq), seqNo)
      BY FrameNumbers DEF Stale
    <3> QED BY <2>1, <2>2, <2>4, <3>1, SentInOrder
  <2> QED BY <1>6, <2>3, <2>4 DEF RecvNotif
<1>7. CASE MgrTake
  <2> DEFINE f == Head(toMgr)
  <2>1. toMgr # <<>> /\ toMgr' = Tail(toMgr) /\ UNCHANGED seqNo /\ f \in ToFrame
    BY <1>7, HeadTail DEF MgrTake
  <2>2. CASE f.kind = "hello" /\ fromMgr' = Append(fromMgr,
              HelloRsp(f.version = mgrVersion, mgrVersion, mgrLastSeq, f.seq))
    <3>1. Numbered(f) /\ CliSeq(f) = f.seq
      BY <2>2 DEF Numbered, CliSeq
    <3> QED BY <2>1, <2>2, <3>1, FrameNumbers, AnsweredInOrder
  <2>3. CASE f.kind = "cmd" /\ fromMgr' = Append(fromMgr, Rsp(f.seq))
    <3>1. Numbered(f) /\ CliSeq(f) = f.seq
      BY <2>3 DEF Numbered, CliSeq
    <3> QED BY <2>1, <2>3, <3>1, FrameNumbers, AnsweredInOrder
  <2>4. CASE UNCHANGED fromMgr
    BY <2>1, <2>4, LostInOrder
  <2> QED BY <1>7, <2>2, <2>3, <2>4 DEF MgrTake
<1>8. ASSUME NEW reliable \in BOOLEAN, MgrNotify(reliable)
      PROVE  SeqInv' /\ seqNo' \in {seqNo, NextSeq(seqNo)}
  BY <1>8, FrameNumbers, ToldInOrder DEF MgrNotify
<1>9. CASE MgrRepeat
  BY <1>9, FrameNumbers, ToldInOrder DEF MgrRepeat
<1>10. CASE MgrBoot
  BY <1>10, FrameNumbers, ToldInOrder DEF MgrBoot
<1>11. CASE Lose
  BY <1>11, LostInOrder DEF Lose
<1>12. CASE UNCHANGED <<toMgr, fromMgr, seqNo>>
  BY <1>12
<1>13. HandOn \/ SpuriousWake \/ PicExit \/ ListenStep \/ MainStep \/ ResetNotify \/ (\E t \in ResetThreads : ResetStop(t))
         \/ Terminated \/ UNCHANGED vars => UNCHANGED <<toMgr, fromMgr, seqNo>>
  BY DEF HandOn, SpuriousWake, PicExit, ListenStep, WaitCheck, WaitBegin, Listen, MainStep, MainStop, MainJoinListen,
         MainJoinPic, ResetNotify, ResetStop, Terminated, vars
<1> QED
  BY <1>1, <1>2, <1>3, <1>4, <1>5, <1>6, <1>7, <1>8, <1>9, <1>10, <1>11, <1>12, <1>13
     DEF Next, FrameComplete, MgrStep

\* m_seqNo stays or moves to the next number, with any number of hellos, commands
\* and answers in flight at once.
THEOREM SeqOnlyIncrements == Spec => SeqIncrements
<1>1. LinkInv => LinkType
  BY DEF LinkInv
<1>2. LinkType /\ SeqInv /\ [Next]_vars => SeqInv'
  BY NextSeqInv
<1>3. LinkType /\ SeqInv /\ [Next]_vars => [seqNo' \in {seqNo, NextSeq(seqNo)}]_vars
  BY NextSeqInv
<1> QED BY InitLink, NextLink, InitSeq, <1>1, <1>2, <1>3, PTL DEF Spec, SeqIncrements

-----------------------------------------------------------------------------
(* Notifications and their acks *)

\* The number d notifications after the one numbered s, for less than a round.
Shift(s, d) == IF s + d < SeqMod THEN s + d ELSE (s + d) - SeqMod

LEMMA NextSeqIs == \A s \in Seqs : NextSeq(s) = IF s + 1 = SeqMod THEN 0 ELSE s + 1
<1> SUFFICES ASSUME NEW s \in Seqs PROVE NextSeq(s) = IF s + 1 = SeqMod THEN 0 ELSE s + 1
  OBVIOUS
<1>1. CASE s + 1 = SeqMod
  BY <1>1, BoundAssumption DEF NextSeq, Seqs
<1>2. CASE s + 1 < SeqMod
  BY <1>2, BoundAssumption DEF NextSeq, Seqs
<1> QED BY <1>1, <1>2, BoundAssumption DEF Seqs

LEMMA ShiftFacts ==
    ASSUME NEW s \in Seqs
    PROVE  /\ Shift(s, 0) = s
           /\ \A d \in Nat : d < SeqMod /\ Shift(s, d) = s => d = 0
           /\ \A d \in Nat : d + 1 < SeqMod => Shift(s, d + 1) = NextSeq(Shift(s, d))
<1>1. Shift(s, 0) = s
  BY BoundAssumption DEF Shift, Seqs
<1>2. \A d \in Nat : d < SeqMod /\ Shift(s, d) = s => d = 0
  BY BoundAssumption DEF Shift, Seqs
<1>3. ASSUME NEW d \in Nat, d + 1 < SeqMod PROVE Shift(s, d + 1) = NextSeq(Shift(s, d))
  <2>1. Shift(s, d) \in Seqs
    BY <1>3, BoundAssumption DEF Shift, Seqs
  <2>2. NextSeq(Shift(s, d)) = IF Shift(s, d) + 1 = SeqMod THEN 0 ELSE Shift(s, d) + 1
    BY <2>1, NextSeqIs
  <2> QED BY <1>3, <2>2, BoundAssumption DEF Shift, Seqs
<1> QED BY <1>1, <1>2, <1>3

IsNotif(f) == f.kind = "notif"

\* Notifications are delivered, on their way and yet to come in the order in which
\* the Manager made them.
NotifOrder ==
    /\ delivered \in Seq(Notifs)
    /\ \A i, j \in DOMAIN delivered : i < j => delivered[i] <= delivered[j]
    /\ \A i \in DOMAIN delivered : delivered[i] <= mgrNotif
    /\ \A i \in DOMAIN delivered, j \in DOMAIN fromMgr :
          IsNotif(fromMgr[j]) => delivered[i] <= fromMgr[j].n
    /\ \A i, j \in DOMAIN fromMgr :
          i < j /\ IsNotif(fromMgr[i]) /\ IsNotif(fromMgr[j]) => fromMgr[i].n <= fromMgr[j].n

\* The number of a notification that is on its way tells which one it is.
NotifNumbers ==
    \A j \in DOMAIN fromMgr : IsNotif(fromMgr[j]) =>
        fromMgr[j].n <= mgrNotif /\ Shift(fromMgr[j].seq, mgrNotif - fromMgr[j].n) = mgrLastSeq

\* The notification in hand comes after those handed on and before those on their
\* way, and the filter for duplicates will let it pass.
HandNotif ==
    picPc = "notif" =>
        /\ hand.n <= mgrNotif
        /\ \A i \in DOMAIN delivered : delivered[i] <= hand.n
        /\ \A j \in DOMAIN fromMgr : IsNotif(fromMgr[j]) => hand.n <= fromMgr[j].n
        /\ hand.reliable => mgrSeqNo # hand.seq

\* An ack is that of a notification that was handed on or is about to be, and its
\* number tells of which one.
Passed(n) == IsDelivered(n) \/ InHand(n)
AckOf(s, n) == Shift(s, mgrNotif - n) = mgrLastSeq /\ (callback => Passed(n))
AckNumbers ==
    \A j \in DOMAIN toMgr : toMgr[j].kind = "ack" => \E n \in 1 .. mgrNotif : AckOf(toMgr[j].seq, n)

AckedAre == callback => \A n \in acked : Passed(n)

\* The inductive invariant, if the Manager does not go once around its numbers.
NotifInv == NotifOrder /\ NotifNumbers /\ HandNotif /\ AckNumbers /\ AckedAre

\* Most steps leave the notification in hand alone.
SameHand ==
    /\ UNCHANGED hand
    /\ picPc' = "notif" <=> picPc = "notif"
    /\ picPc = "notif" => UNCHANGED mgrSeqNo

\* What becomes of a queue in most steps: nothing, its head goes, or a frame of
\* another kind is added.
Unaffected(q, r, k) ==
    \/ r = q
    \/ q # <<>> /\ r = Tail(q)
    \/ \E e : e.kind # k /\ r = Append(q, e)

LEMMA FromUnaffected ==
    ASSUME LinkType, NotifOrder, NotifNumbers, HandNotif, SameHand,
           Unaffected(fromMgr, fromMgr', "notif"), UNCHANGED <<delivered, mgrNotif, mgrLastSeq>>
    PROVE  NotifOrder' /\ NotifNumbers' /\ HandNotif'
<1>0. fromMgr \in Seq(FromFrame(mgrVersion))
  BY DEF LinkType
<1>1. CASE fromMgr' = fromMgr
  BY <1>1 DEF NotifOrder, NotifNumbers, HandNotif, SameHand
<1>2. CASE fromMgr # <<>> /\ fromMgr' = Tail(fromMgr)
  <2>1. \A j \in DOMAIN fromMgr' : /\ j \in Nat /\ j + 1 \in DOMAIN fromMgr
                                   /\ fromMgr'[j] = fromMgr[j + 1]
    BY <1>0, <1>2, TailFacts
  <2> QED BY <2>1 DEF NotifOrder, NotifNumbers, HandNotif, SameHand
<1>3. ASSUME NEW e, e.kind # "notif", fromMgr' = Append(fromMgr, e)
      PROVE  NotifOrder' /\ NotifNumbers' /\ HandNotif'
  <2>1. \A j \in DOMAIN fromMgr' : IsNotif(fromMgr'[j]) =>
           j \in DOMAIN fromMgr /\ fromMgr'[j] = fromMgr[j]
    BY <1>0, <1>3, AppendFacts DEF IsNotif
  <2> QED BY <2>1 DEF NotifOrder, NotifNumbers, HandNotif, SameHand
<1> QED BY <1>1, <1>2, <1>3 DEF Unaffected

LEMMA ToUnaffected ==
    ASSUME LinkType, AckNumbers, Unaffected(toMgr, toMgr', "ack"),
           UNCHANGED <<delivered, mgrNotif, mgrLastSeq>>, SameHand, callback' => callback
    PROVE  AckNumbers'
<1>0. toMgr \in Seq(ToFrame)
  BY DEF LinkType
<1>1. \A s, n : AckOf(s, n) => AckOf(s, n)'
  BY DEF AckOf, Passed, InHand, SameHand, IsDelivered
<1>2. CASE toMgr' = toMgr
  BY <1>1, <1>2 DEF AckNumbers
<1>3. CASE toMgr # <<>> /\ toMgr' = Tail(toMgr)
  BY <1>0, <1>1, <1>3, TailFacts DEF AckNumbers
<1>4. ASSUME NEW e, e.kind # "ack", toMgr' = Append(toMgr, e) PROVE AckNumbers'
  <2>1. \A j \in DOMAIN toMgr' : toMgr'[j].kind = "ack" =>
           j \in DOMAIN toMgr /\ toMgr'[j] = toMgr[j]
    BY <1>0, <1>4, AppendFacts
  <2> QED BY <1>1, <2>1 DEF AckNumbers
<1> QED BY <1>2, <1>3, <1>4 DEF Unaffected

\* The queues in the steps that neither make, hand on nor acknowledge a notification.
LEMMA OtherSteps ==
    ASSUME LinkType, [Next]_vars, ~RecvNotif, ~HandOn, ~MgrTake, ~MgrRepeat,
           \A r \in BOOLEAN : ~MgrNotify(r)
    PROVE  /\ Unaffected(fromMgr, fromMgr', "notif") /\ Unaffected(toMgr, toMgr', "ack")
           /\ UNCHANGED <<delivered, mgrNotif, mgrLastSeq, acked>> /\ SameHand /\ (callback' => callback)
<1> USE DEF SameHand, Reading, linkVars, lisVars, stopVars, notifVars, mgrVars, lineVars, Unaffected
<1>1. CASE SendHello
  <2>1. Hello(RequestedVersion, seqNo).kind # "ack"
    BY DEF Hello
  <2> QED BY <1>1, <2>1 DEF SendHello
<1>2. CASE SendCommand
  <2>1. Cmd(seqNo).kind # "ack"
    BY DEF Cmd
  <2> QED BY <1>2, <2>1 DEF SendCommand
<1>3. CASE RecvHelloRsp \/ RecvMgrHello \/ RecvRsp
  BY <1>3 DEF RecvHelloRsp, RecvMgrHello, RecvRsp, Receives
<1>4. CASE MgrBoot
  <2>1. MgrHello(mgrVersion).kind # "notif"
    BY DEF MgrHello
  <2> QED BY <1>4, <2>1 DEF MgrBoot
<1>5. CASE Lose
  BY <1>5 DEF Lose
<1>6. CASE PicExit \/ ListenStep \/ SpuriousWake \/ MainStep \/ ResetNotify
             \/ (\E t \in ResetThreads : ResetStop(t)) \/ Terminated \/ UNCHANGED vars
  BY <1>6 DEF PicExit, ListenStep, WaitCheck, WaitBegin, Listen, SpuriousWake, MainStep, MainStop,
              MainJoinListen, MainJoinPic, ResetNotify, ResetStop, Terminated, vars
<1> QED BY <1>1, <1>2, <1>3, <1>4, <1>5, <1>6 DEF Next, FrameComplete, MgrStep

LEMMA InitNotif == Init => NotifInv
BY DEF Init, NotifInv, NotifOrder, NotifNumbers, HandNotif, AckNumbers, AckedAre

LEMMA NextNotif ==
    ASSUME MaxNotif <= SeqMod, LinkType, NotifInv, [Next]_vars
    PROVE  NotifInv'
<1>0. /\ fromMgr \in Seq(FromFrame(mgrVersion)) /\ toMgr \in Seq(ToFrame)
      /\ mgrNotif \in 0 .. MaxNotif /\ mgrLastSeq \in Seqs
      /\ NotifOrder /\ NotifNumbers /\ HandNotif /\ AckNumbers /\ AckedAre
  BY DEF LinkType, NotifInv
<1> USE <1>0 DEF linkVars, lisVars, stopVars, notifVars, mgrVars, lineVars
<1>1. CASE RecvNotif
  <2> DEFINE f == Head(fromMgr)
  <2>1. /\ f \in FromFrame(mgrVersion) /\ f.kind = "notif"
        /\ fromMgr # <<>> /\ fromMgr' = Tail(fromMgr)
    BY <1>1, Received DEF RecvNotif, Receives
  <2>2. /\ f = fromMgr[1] /\ 1 \in DOMAIN fromMgr /\ IsNotif(f)
        /\ f.seq \in Seqs /\ f.n \in Notifs /\ f.reliable \in BOOLEAN
    BY <2>1, FromFields, TailFacts DEF IsNotif
  <2>3. /\ UNCHANGED <<mgrNotif, mgrLastSeq, callback, acked, delivered>>
        /\ picPc = "read" /\ picPc' = "notif" /\ hand' = f
    BY <1>1 DEF RecvNotif, Receives, Reading
  <2>4. f.reliable => mgrSeqNo' # f.seq
    BY <1>1, <2>2, NextSeqDiffers DEF RecvNotif, AckedSeq
  <2>5. \A j \in DOMAIN fromMgr' : /\ j \in Nat /\ j > 0 /\ j + 1 \in DOMAIN fromMgr
                                   /\ fromMgr'[j] = fromMgr[j + 1]
    BY <2>1, TailFacts
  <2>6. NotifNumbers'
    BY <2>3, <2>5 DEF NotifNumbers
  <2>7. ASSUME NEW i \in DOMAIN fromMgr', NEW j \in DOMAIN fromMgr', i < j,
                IsNotif(fromMgr'[i]), IsNotif(fromMgr'[j])
         PROVE  fromMgr'[i].n <= fromMgr'[j].n
    <3>1. /\ i + 1 \in DOMAIN fromMgr /\ j + 1 \in DOMAIN fromMgr /\ i + 1 < j + 1
          /\ fromMgr'[i] = fromMgr[i + 1] /\ fromMgr'[j] = fromMgr[j + 1]
      BY <2>5, <2>7
    <3> QED BY <2>7, <3>1 DEF NotifOrder
  <2>8. NotifOrder'
    <3>1. /\ delivered' \in Seq(Notifs)
          /\ \A i, j \in DOMAIN delivered' : i < j => delivered'[i] <= delivered'[j]
          /\ \A i \in DOMAIN delivered' : delivered'[i] <= mgrNotif'
      BY <2>3 DEF NotifOrder
    <3>2. \A i \in DOMAIN delivered', j \in DOMAIN fromMgr' :
             IsNotif(fromMgr'[j]) => delivered'[i] <= fromMgr'[j].n
      BY <2>3, <2>5 DEF NotifOrder
    <3>3. \A i, j \in DOMAIN fromMgr' :
             i < j /\ IsNotif(fromMgr'[i]) /\ IsNotif(fromMgr'[j]) => fromMgr'[i].n <= fromMgr'[j].n
      BY <2>7
    <3> QED BY <3>1, <3>2, <3>3 DEF NotifOrder, IsNotif
  <2>9. HandNotif'
    <3>1. f.n <= mgrNotif'
      BY <2>2, <2>3 DEF NotifNumbers
    <3>2. \A i \in DOMAIN delivered' : delivered'[i] <= f.n
      BY <2>2, <2>3 DEF NotifOrder
    <3>3. \A j \in DOMAIN fromMgr' : IsNotif(fromMgr'[j]) => f.n <= fromMgr'[j].n
      BY <2>2, <2>5 DEF NotifOrder
    <3> QED BY <2>3, <2>4, <3>1, <3>2, <3>3 DEF HandNotif, IsNotif
  <2>10. /\ \A n : Passed(n) => Passed(n)'
         /\ \A n : n = f.n => Passed(n)'
    BY <2>3 DEF Passed, IsDelivered, InHand
  <2>11. AckedAre'
    BY <2>3, <2>10 DEF AckedAre
  <2>12. AckNumbers'
    <3>1. \A s, n : AckOf(s, n) => AckOf(s, n)'
      BY <2>3, <2>10 DEF AckOf
    <3>2. CASE UNCHANGED toMgr
      BY <2>3, <3>1, <3>2 DEF AckNumbers
    <3>3. CASE f.reliable /\ toMgr' = Append(toMgr, Ack(f.seq))
      <4>1. PICK s, n : s = f.seq /\ n = f.n
        OBVIOUS
      <4>2. n \in 1 .. mgrNotif /\ Shift(s, mgrNotif - n) = mgrLastSeq
        BY <2>2, <4>1 DEF NotifNumbers, Notifs
      <4>3. Passed(n)'
        BY <2>10, <4>1
      <4>4. AckOf(s, n)'
        BY <2>3, <4>2, <4>3 DEF AckOf
      <4>5. Ack(s).seq = s
        BY DEF Ack
      <4>6. \A j \in DOMAIN toMgr' : \/ j \in DOMAIN toMgr /\ toMgr'[j] = toMgr[j]
                                     \/ toMgr'[j] = Ack(s)
        BY <3>3, <4>1, AppendFacts
      <4>7. ASSUME NEW j \in DOMAIN toMgr', toMgr'[j].kind = "ack"
            PROVE  (\E m \in 1 .. mgrNotif : AckOf(toMgr[j].seq, m))'
        <5>1. CASE j \in DOMAIN toMgr /\ toMgr'[j] = toMgr[j]
          <6>1. PICK m \in 1 .. mgrNotif : AckOf(toMgr[j].seq, m)
            BY <4>7, <5>1 DEF AckNumbers
          <6>2. PICK u : u = toMgr[j].seq
            OBVIOUS
          <6>3. AckOf(u, m)'
            BY <3>1, <6>1, <6>2
          <6> QED BY <2>3, <5>1, <6>2, <6>3 DEF AckOf
        <5>2. CASE toMgr'[j] = Ack(s)
          BY <2>3, <4>2, <4>4, <4>5, <5>2 DEF AckOf
        <5> QED BY <4>6, <5>1, <5>2
      <4> QED BY <4>7 DEF AckNumbers
    <3> QED BY <1>1, <2>2, <3>2, <3>3 DEF RecvNotif
  <2> QED BY <2>6, <2>8, <2>9, <2>11, <2>12 DEF NotifInv
<1>6. CASE HandOn
  <2>1. /\ UNCHANGED <<mgrNotif, mgrLastSeq, callback, acked, toMgr, fromMgr>>
        /\ picPc = "notif" /\ picPc' = "read"
    BY <1>6 DEF HandOn
  <2>2. hand \in FromFrame(mgrVersion) /\ hand.kind = "notif"
    BY <2>1 DEF LinkType
  <2>3. hand.n \in Notifs /\ hand.reliable \in BOOLEAN
    BY <2>2, FromFields
  <2>4. /\ delivered' = delivered \/ delivered' = Append(delivered, hand.n)
        /\ callback => delivered' = Append(delivered, hand.n)
    BY <1>6, <2>1, <2>3 DEF HandOn, HandNotif
  <2>5. /\ hand.n <= mgrNotif
        /\ \A i \in DOMAIN delivered : delivered[i] <= hand.n
        /\ \A j \in DOMAIN fromMgr : IsNotif(fromMgr[j]) => hand.n <= fromMgr[j].n
    BY <2>1 DEF HandNotif
  <2>6. NotifNumbers' /\ HandNotif'
    BY <2>1 DEF NotifNumbers, HandNotif
  <2>7. NotifOrder'
    <3>1. CASE delivered' = delivered
      BY <2>1, <3>1 DEF NotifOrder
    <3>2. CASE delivered' = Append(delivered, hand.n)
      <4>1. delivered' \in Seq(Notifs) /\ delivered \in Seq(Notifs)
        BY <2>3, <3>2, AppendType DEF NotifOrder
      <4>2. \A i \in DOMAIN delivered' :
               \/ i \in DOMAIN delivered /\ i <= Len(delivered) /\ delivered'[i] = delivered[i]
               \/ i = Len(delivered) + 1 /\ delivered'[i] = hand.n
        BY <3>2, <4>1, AppendFacts
      <4>3. \A i, j \in DOMAIN delivered' : i < j => delivered'[i] <= delivered'[j]
        <5> SUFFICES ASSUME NEW i \in DOMAIN delivered', NEW j \in DOMAIN delivered', i < j
                     PROVE  delivered'[i] <= delivered'[j]
          OBVIOUS
        <5>1. i \in Nat /\ j \in Nat /\ Len(delivered) \in Nat
          BY <4>1
        <5>2. i \in DOMAIN delivered /\ delivered'[i] = delivered[i]
          BY <4>1, <4>2, <5>1
        <5> QED BY <2>5, <4>2, <5>2 DEF NotifOrder
      <4>4. \A i \in DOMAIN delivered' : delivered'[i] <= mgrNotif'
        BY <2>1, <2>5, <4>2 DEF NotifOrder
      <4>5. \A i \in DOMAIN delivered', j \in DOMAIN fromMgr' :
               IsNotif(fromMgr'[j]) => delivered'[i] <= fromMgr'[j].n
        BY <2>1, <2>5, <4>2 DEF NotifOrder
      <4>6. \A i, j \in DOMAIN fromMgr' :
               i < j /\ IsNotif(fromMgr'[i]) /\ IsNotif(fromMgr'[j]) => fromMgr'[i].n <= fromMgr'[j].n
        BY <2>1 DEF NotifOrder
      <4> QED BY <4>1, <4>3, <4>4, <4>5, <4>6 DEF NotifOrder, IsNotif
    <3> QED BY <2>4, <3>1, <3>2
  <2>8. callback => \A n : Passed(n) => Passed(n)'
    <3>1. delivered \in Seq(Notifs)
      BY DEF NotifOrder
    <3>2. ASSUME callback, NEW n, IsDelivered(n) PROVE IsDelivered(n)'
      BY <2>4, <3>1, <3>2, AppendMore DEF IsDelivered
    <3>3. ASSUME callback, NEW n, InHand(n) PROVE IsDelivered(n)'
      BY <2>4, <3>1, <3>3, AppendMore DEF IsDelivered, InHand
    <3> QED BY <3>2, <3>3 DEF Passed
  <2>9. AckedAre'
    BY <2>1, <2>8 DEF AckedAre
  <2>10. AckNumbers'
    BY <2>1, <2>8 DEF AckNumbers, AckOf
  <2> QED BY <2>6, <2>7, <2>9, <2>10 DEF NotifInv
<1>2. CASE MgrTake
  <2> DEFINE f == Head(toMgr)
  <2>1. /\ toMgr # <<>> /\ toMgr' = Tail(toMgr)
        /\ UNCHANGED <<delivered, mgrNotif, mgrLastSeq, callback, picPc, hand>> /\ SameHand
        /\ f = toMgr[1] /\ 1 \in DOMAIN toMgr /\ f.seq \in Seqs
    BY <1>2, TailFacts, HeadTail, ToFields DEF MgrTake, SameHand
  <2>2. AckNumbers'
    BY <2>1, ToUnaffected DEF Unaffected
  <2>3. Unaffected(fromMgr, fromMgr', "notif")
    <3>1. HelloRsp(f.version = mgrVersion, mgrVersion, mgrLastSeq, f.seq).kind # "notif"
          /\ Rsp(f.seq).kind # "notif"
      BY DEF HelloRsp, Rsp
    <3> QED BY <1>2, <3>1 DEF MgrTake, Unaffected
  <2>4. NotifOrder' /\ NotifNumbers' /\ HandNotif'
    BY <2>1, <2>3, FromUnaffected
  <2>5. AckedAre'
    <3>1. CASE UNCHANGED acked
      BY <2>1, <3>1 DEF AckedAre, Passed, InHand, IsDelivered
    <3>2. CASE f.kind = "ack" /\ f.seq = mgrLastSeq /\ acked' = acked \cup {mgrNotif}
      <4>1. PICK n \in 1 .. mgrNotif : AckOf(f.seq, n)
        BY <2>1, <3>2 DEF AckNumbers
      <4>2. mgrNotif - n \in Nat /\ mgrNotif - n < SeqMod /\ Shift(f.seq, mgrNotif - n) = f.seq
        BY <3>2, <4>1, BoundAssumption DEF AckOf
      <4>3. mgrNotif = n
        BY <2>1, <4>2, ShiftFacts
      <4> QED BY <2>1, <3>2, <4>1, <4>3 DEF AckOf, AckedAre, Passed, InHand, IsDelivered
    <3> QED BY <1>2, <3>1, <3>2 DEF MgrTake
  <2> QED BY <2>2, <2>4, <2>5 DEF NotifInv
<1>3. ASSUME NEW reliable \in BOOLEAN, MgrNotify(reliable) PROVE NotifInv'
  <2> DEFINE e == Notify(NextSeq(mgrLastSeq), mgrNotif + 1, reliable)
  <2>1. /\ mgrNotif < MaxNotif /\ mgrNotif' = mgrNotif + 1 /\ mgrLastSeq' = NextSeq(mgrLastSeq)
        /\ fromMgr' = Append(fromMgr, e)
        /\ UNCHANGED <<toMgr, delivered, callback, acked, picPc, hand, mgrSeqNo>>
    BY <1>3 DEF MgrNotify
  <2>2. e.kind = "notif" /\ e.n = mgrNotif + 1 /\ e.seq = NextSeq(mgrLastSeq)
    BY DEF Notify
  <2> HIDE DEF e
  <2>3. \A s \in Seqs, n \in 1 .. mgrNotif :
           Shift(s, mgrNotif - n) = mgrLastSeq => Shift(s, mgrNotif' - n) = mgrLastSeq'
    <3> SUFFICES ASSUME NEW s \in Seqs, NEW n \in 1 .. mgrNotif,
                        Shift(s, mgrNotif - n) = mgrLastSeq
                 PROVE  Shift(s, mgrNotif' - n) = mgrLastSeq'
      OBVIOUS
    <3>1. mgrNotif - n \in Nat /\ (mgrNotif - n) + 1 < SeqMod
      BY <2>1, BoundAssumption
    <3>2. mgrNotif' - n = (mgrNotif - n) + 1
      BY <2>1
    <3> QED BY <2>1, <3>1, <3>2, ShiftFacts
  <2>4. \A j \in DOMAIN fromMgr' :
           \/ j \in DOMAIN fromMgr /\ j <= Len(fromMgr) /\ fromMgr'[j] = fromMgr[j]
           \/ j = Len(fromMgr) + 1 /\ fromMgr'[j] = e
    BY <2>1, AppendFacts
  <2>5. \A j \in DOMAIN fromMgr : fromMgr[j] \in FromFrame(mgrVersion)
    OBVIOUS
  <2>6. NotifNumbers'
    <3>1. Shift(e.seq, mgrNotif' - e.n) = mgrLastSeq'
      BY <2>1, <2>2, NextSeqType, ShiftFacts
    <3>2. \A j \in DOMAIN fromMgr : IsNotif(fromMgr[j]) =>
             fromMgr[j].seq \in Seqs /\ fromMgr[j].n \in 1 .. mgrNotif
      BY <2>5, FromFields DEF NotifNumbers, IsNotif, Notifs
    <3>3. ASSUME NEW j \in DOMAIN fromMgr, IsNotif(fromMgr[j])
          PROVE  fromMgr[j].n <= mgrNotif' /\ Shift(fromMgr[j].seq, mgrNotif' - fromMgr[j].n) = mgrLastSeq'
      BY <2>1, <2>3, <3>2, <3>3 DEF NotifNumbers
    <3> QED BY <2>1, <2>2, <2>4, <3>1, <3>3 DEF NotifNumbers
  <2>7. NotifOrder'
    <3>1. \A j \in DOMAIN fromMgr : IsNotif(fromMgr[j]) => fromMgr[j].n <= mgrNotif
                                                           /\ fromMgr[j].n \in Nat
      BY <2>5, FromFields DEF NotifNumbers, IsNotif, Notifs
    <3>2. \A i \in DOMAIN delivered : delivered[i] \in Nat
      <4>1. delivered \in Seq(Notifs)
        BY DEF NotifOrder
      <4>2. \A i \in DOMAIN delivered : delivered[i] \in Notifs
        BY <4>1
      <4> QED BY <4>2, BoundAssumption DEF Notifs
    <3>3. \A i \in DOMAIN delivered' : delivered'[i] <= mgrNotif'
      BY <2>1, <3>2 DEF NotifOrder
    <3>4. \A i \in DOMAIN delivered', j \in DOMAIN fromMgr' :
             IsNotif(fromMgr'[j]) => delivered'[i] <= fromMgr'[j].n
      BY <2>1, <2>2, <2>4, <3>2 DEF NotifOrder
    <3>5. \A i, j \in DOMAIN fromMgr' :
             i < j /\ IsNotif(fromMgr'[i]) /\ IsNotif(fromMgr'[j]) => fromMgr'[i].n <= fromMgr'[j].n
      <4> SUFFICES ASSUME NEW i \in DOMAIN fromMgr', NEW j \in DOMAIN fromMgr', i < j,
                          IsNotif(fromMgr'[i]), IsNotif(fromMgr'[j])
                   PROVE  fromMgr'[i].n <= fromMgr'[j].n
        OBVIOUS
      <4>1. i \in DOMAIN fromMgr /\ fromMgr'[i] = fromMgr[i]
        <5>1. j <= Len(fromMgr) + 1 /\ i \in Nat /\ j \in Nat /\ Len(fromMgr) \in Nat
          BY <2>1
        <5> QED BY <2>4, <5>1
      <4> QED BY <2>1, <2>2, <2>4, <3>1, <4>1 DEF NotifOrder
    <3> QED BY <2>1, <3>3, <3>4, <3>5 DEF NotifOrder, IsNotif
  <2>8. AckNumbers'
    <3>1. \A j \in DOMAIN toMgr : toMgr[j].seq \in Seqs
      BY ToFields
    <3>2. 1 .. mgrNotif \subseteq 1 .. mgrNotif'
      BY <2>1
    <3>3. \A s \in Seqs, n \in 1 .. mgrNotif : AckOf(s, n) => AckOf(s, n)'
      BY <2>1, <2>3 DEF AckOf, Passed, InHand, IsDelivered
    <3> QED BY <2>1, <3>1, <3>2, <3>3 DEF AckNumbers
  <2>9. AckedAre'
    BY <2>1 DEF AckedAre, Passed, InHand, IsDelivered
  <2>10. HandNotif'
    <3>1. picPc = "notif" => hand.n \in Nat
      BY FromFields, BoundAssumption DEF LinkType, Notifs
    <3>2. picPc = "notif" => hand.n <= mgrNotif' /\ hand.n <= e.n
      BY <2>1, <2>2, <3>1 DEF HandNotif
    <3> QED BY <2>1, <2>4, <3>2 DEF HandNotif, IsNotif
  <2> QED BY <2>6, <2>7, <2>8, <2>9, <2>10 DEF NotifInv
<1>4. CASE MgrRepeat
  <2> DEFINE e == Notify(mgrLastSeq, mgrNotif, TRUE)
  <2>1. /\ fromMgr' = Append(fromMgr, e)
        /\ UNCHANGED <<toMgr, delivered, callback, acked, mgrNotif, mgrLastSeq, picPc, hand,
                       mgrSeqNo>>
    BY <1>4 DEF MgrRepeat
  <2>2. e.kind = "notif" /\ e.n = mgrNotif /\ e.seq = mgrLastSeq
    BY DEF Notify
  <2> HIDE DEF e
  <2>3. \A j \in DOMAIN fromMgr' :
           \/ j \in DOMAIN fromMgr /\ j <= Len(fromMgr) /\ fromMgr'[j] = fromMgr[j]
           \/ j = Len(fromMgr) + 1 /\ fromMgr'[j] = e
    BY <2>1, AppendFacts
  <2>4. NotifNumbers'
    BY <2>1, <2>2, <2>3, ShiftFacts DEF NotifNumbers
  <2>5. NotifOrder'
    <3>1. \A i \in DOMAIN delivered', j \in DOMAIN fromMgr' :
             IsNotif(fromMgr'[j]) => delivered'[i] <= fromMgr'[j].n
      BY <2>1, <2>2, <2>3 DEF NotifOrder
    <3>2. \A i, j \in DOMAIN fromMgr' :
             i < j /\ IsNotif(fromMgr'[i]) /\ IsNotif(fromMgr'[j]) => fromMgr'[i].n <= fromMgr'[j].n
      <4> SUFFICES ASSUME NEW i \in DOMAIN fromMgr', NEW j \in DOMAIN fromMgr', i < j,
                          IsNotif(fromMgr'[i]), IsNotif(fromMgr'[j])
                   PROVE  fromMgr'[i].n <= fromMgr'[j].n
        OBVIOUS
      <4>1. i \in DOMAIN fromMgr /\ fromMgr'[i] = fromMgr[i]
        <5>1. j <= Len(fromMgr) + 1 /\ i \in Nat /\ j \in Nat /\ Len(fromMgr) \in Nat
          BY <2>1
        <5> QED BY <2>3, <5>1
      <4> QED BY <2>1, <2>2, <2>3, <4>1 DEF NotifOrder, NotifNumbers
    <3> QED BY <2>1, <3>1, <3>2 DEF NotifOrder, IsNotif
  <2>6. AckNumbers' /\ AckedAre'
    BY <2>1 DEF AckNumbers, AckOf, AckedAre, Passed, InHand, IsDelivered
  <2>7. HandNotif'
    BY <2>1, <2>2, <2>3 DEF HandNotif, IsNotif
  <2> QED BY <2>4, <2>5, <2>6, <2>7 DEF NotifInv
<1>5. CASE ~RecvNotif /\ ~HandOn /\ ~MgrTake /\ ~MgrRepeat /\ (\A r \in BOOLEAN : ~MgrNotify(r))
  <2>1. /\ Unaffected(fromMgr, fromMgr', "notif") /\ Unaffected(toMgr, toMgr', "ack")
        /\ UNCHANGED <<delivered, mgrNotif, mgrLastSeq, acked>> /\ SameHand /\ (callback' => callback)
    BY <1>5, OtherSteps
  <2>2. AckedAre'
    BY <2>1 DEF AckedAre, Passed, InHand, SameHand, IsDelivered
  <2> QED BY <2>1, <2>2, FromUnaffected, ToUnaffected DEF NotifInv
<1> QED BY <1>1, <1>2, <1>3, <1>4, <1>5, <1>6

\* Within one round of the Manager's sequence numbers, and as long as m_callback is
\* registered, an ack means that the notification was handed on or is in the hands
\* of the thread that sent the ack, and notifications are handed on in order,
\* whatever is lost, repeated or late.  The bound is needed: an ack that is late by a whole
\* round is taken for that of another notification.
THEOREM AcksMeanDelivery ==
    ASSUME MaxNotif <= SeqMod
    PROVE  Spec => []AckedDelivered
<1>1. LinkInv => LinkType
  BY DEF LinkInv
<1>2. LinkType /\ NotifInv /\ [Next]_vars => NotifInv'
  BY NextNotif
<1>3. NotifInv => AckedDelivered
  BY DEF NotifInv, NotifOrder, AckedAre, Passed, AckedDelivered
<1> QED BY InitLink, NextLink, InitNotif, <1>1, <1>2, <1>3, PTL DEF Spec

=============================================================================
