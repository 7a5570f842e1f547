------------------------- MODULE MuxLifecycleProofs -------------------------
(***************************************************************************)
(* Proofs about MuxLifecycle, for every set of controls and any number of  *)
(* resets: which threads and components exist at each point of             *)
(* serial_mux_loop, and what follows for deleted components, for the       *)
(* beginning of a turn and for the report of a stopped service.            *)
(***************************************************************************)
EXTENDS MuxLifecycle, TLAPS

OffTurn  == {"begin", "service", "loop", "reset", "open", "returned"}

\* A thread that is in resetConnection exists, and the control handler is in it
\* only on behalf of serial_mux_stop.
CallersExist ==
    /\ rpc["ctl"] # "none" => ctlPc = "reset"
    /\ cmdPc = "none" => rpc["cmd"] = "none"
    /\ picPc = "none" => rpc["pic"] = "none"

\* The listener could not be bound, or a handler threw out of io_service.run.
Failed == "bind" \in trouble \/ "thrown" \in trouble

\* The joins of serial_mux_loop, in their order: the command thread, the listen
\* thread, the Picard thread.
Joined ==
    /\ mainPc \in {"joinlisten", "joinpic"} \cup Deleting => cmdPc = "none"
    /\ lisPc # "none" => Failed \/ mainPc \in {"run", "joincmd", "joinlisten"}
    /\ mainPc \in Deleting => picPc = "none"

\* A pointer to a deleted component is cleared at once.
FreedIsCleared == \A c \in Component : global[c] = "freed" => mainPc = ClearPc[c]

NothingRuns == cmdPc = "none" /\ picPc = "none" /\ lisPc = "none"

\* What a turn has left, point by point, unless the service has failed.
TurnCleared ==
    /\ mainPc \in OffTurn \cup {"start"} => NothingRuns
    /\ mainPc \in OffTurn => global["picard"] = "null"
    /\ mainPc \in OffTurn \cup {"start", "delete listener", "clear listener",
                                "delete picard", "clear picard"} => global["manager"] = "null"
    /\ mainPc \in OffTurn \cup {"start", "listen", "delete picard", "clear picard"}
         => global["listener"] = "null"

\* Only a failure leaves a turn behind: the service is then stopped, and no turn
\* begins unless a control revives it.
LeftByFailure ==
    /\ ~Failed => TurnCleared
    /\ Failed => mainPc \in {"service", "returned", "dead"}
    /\ Failed /\ "revived" \notin trouble => svc = "STOPPED"
    /\ "revived" \in trouble => Failed

\* The loop is over for good.
LoopOver == ~muxRunning /\ mainPc \in {"service", "loop", "returned"}

\* serial_mux_stop returns after the loop, and what follows it is the report.
StopInOrder ==
    /\ svc = "STOPPED" /\ ~Failed => ctlPc \in {"idle", "dead"}
    /\ ctlPc = "woken" /\ "spurious" \notin trouble /\ ~Failed => LoopOver
    /\ svc = "STOPPED" /\ "spurious" \notin trouble /\ ~Failed => LoopOver

\* The inductive invariant.
Inv ==
    /\ CallersExist /\ Joined /\ FreedIsCleared
    /\ ThreadsJoinedFirst
    /\ LeftByFailure /\ StopInOrder

-----------------------------------------------------------------------------
(* Proof *)

LEMMA Points ==
    /\ DeletePc["picard"] = "delete picard" /\ DeletePc["manager"] = "delete manager"
    /\ DeletePc["listener"] = "delete listener"
    /\ ClearPc["picard"] = "clear picard" /\ ClearPc["manager"] = "clear manager"
    /\ ClearPc["listener"] = "clear listener"
    /\ AfterPc["manager"] = "delete listener" /\ AfterPc["listener"] = "delete picard"
    /\ AfterPc["picard"] = "loop"
    /\ Deleting = {"delete picard", "delete manager", "delete listener",
                   "clear picard", "clear manager", "clear listener"}
<1>1. DeletePc["picard"] = "delete picard" /\ DeletePc["manager"] = "delete manager"
    /\ DeletePc["listener"] = "delete listener"
  BY DEF DeletePc
<1>2. ClearPc["picard"] = "clear picard" /\ ClearPc["manager"] = "clear manager"
    /\ ClearPc["listener"] = "clear listener"
  BY DEF ClearPc
<1>3. AfterPc["manager"] = "delete listener" /\ AfterPc["listener"] = "delete picard"
    /\ AfterPc["picard"] = "loop"
  BY DEF AfterPc
<1> QED BY <1>1, <1>2, <1>3 DEF Deleting, Component

LEMMA PointsDiffer ==
    \A c, d \in Component :
        ClearPc[d] # DeletePc[c] /\ (ClearPc[d] = ClearPc[c] => d = c)
BY Points DEF Component

\* Deleting and clearing a component keep the others as they are.
LEMMA FreedSteps ==
    ASSUME global \in [Component -> {"null", "live", "freed"}], FreedIsCleared,
           NEW c \in Component, Delete(c) \/ Clear(c)
    PROVE  FreedIsCleared'
<1>1. CASE Delete(c)
  <2>1. \A d \in Component : global[d] # "freed"
    BY <1>1, PointsDiffer DEF Delete, FreedIsCleared
  <2>2. \A d \in Component : global'[d] = "freed" => d = c
    BY <1>1, <2>1 DEF Delete
  <2> QED BY <1>1, <2>2 DEF Delete, FreedIsCleared
<1>2. CASE Clear(c)
  <2>1. \A d \in Component : global[d] = "freed" => d = c
    BY <1>2, PointsDiffer DEF Clear, FreedIsCleared
  <2>2. \A d \in Component : global'[d] # "freed"
    BY <1>2, <2>1 DEF Clear
  <2> QED BY <2>2 DEF FreedIsCleared
<1> QED BY <1>1, <1>2

\* What a step notes is neither a failure nor "revived".
LEMMA IoResetNotes ==
    IoReset => \A k \in {"bind", "thrown", "revived"} : k \in trouble' <=> k \in trouble
BY DEF IoReset, Note

LEMMA CmdStartNotes ==
    CmdStart => \A k \in {"bind", "thrown", "revived"} : k \in trouble' <=> k \in trouble
BY DEF CmdStart, Note

LEMMA ResetPicardNotes ==
    \A t \in Caller : ResetPicard(t) =>
        \A k \in {"bind", "thrown", "revived"} : k \in trouble' <=> k \in trouble
BY DEF ResetPicard, Note

LEMMA InitInv == Init => TypeOK /\ Inv
<1> SUFFICES ASSUME Init PROVE TypeOK /\ Inv
  OBVIOUS
<1>1. TypeOK
  <2>1. PcType
    BY DEF Init, PcType
  <2>2. FlagType
    BY DEF Init, FlagType
  <2>3. HistType
    BY ResetBound DEF Init, HistType
  <2> QED BY <2>1, <2>2, <2>3 DEF TypeOK
<1>2. Inv
  BY Points DEF Init, Inv, CallersExist, Joined, FreedIsCleared, ThreadsJoinedFirst,
     LeftByFailure, Failed, StopInOrder, TurnCleared, NothingRuns, OffTurn, Caller, Component
<1> QED BY <1>1, <1>2

LEMMA NextType == TypeOK /\ [Next]_vars => TypeOK'
<1> SUFFICES ASSUME TypeOK, [Next]_vars PROVE TypeOK'
  OBVIOUS
<1>0. PcType /\ FlagType /\ HistType
  BY DEF TypeOK
<1> USE <1>0 DEF TypeOK,
        vars, svcVars, cmdVars, picVars, acceptVars, histVars
<1>1. CASE ServiceMain
  BY <1>1 DEF ServiceMain, PcType, FlagType, HistType
<1>2. CASE ServiceLoop
  BY <1>2 DEF ServiceLoop, PcType, FlagType, HistType
<1>3. CASE LoopGoesOn
  BY <1>3 DEF LoopGoesOn, PcType, FlagType, HistType
<1>4. CASE LoopEnds
  BY <1>4 DEF LoopEnds, PcType, FlagType, HistType
<1>5. CASE IoReset
  <2>1. PcType'
    BY <1>5 DEF PcType, IoReset, Note, Troubles
  <2>2. FlagType'
    BY <1>5 DEF FlagType, IoReset, Note, Troubles
  <2>3. HistType'
    BY <1>5 DEF HistType, IoReset, Note, Troubles
  <2> QED BY <2>1, <2>2, <2>3 DEF TypeOK
<1>6. CASE OpenFails
  BY <1>6 DEF OpenFails, PcType, FlagType, HistType
<1>7. CASE Open
  <2>1. PcType'
    BY <1>7 DEF PcType, Open, Component
  <2>2. FlagType'
    BY <1>7 DEF FlagType, Open
  <2>3. HistType'
    BY <1>7 DEF HistType, Open
  <2> QED BY <2>1, <2>2, <2>3 DEF TypeOK
<1>8. CASE Start
  <2>1. PcType'
    BY <1>8 DEF PcType, Start
  <2>2. FlagType'
    BY <1>8 DEF FlagType, Start
  <2>3. HistType'
    BY <1>8 DEF HistType, Start
  <2> QED BY <2>1, <2>2, <2>3 DEF TypeOK
<1>9. CASE Listen
  <2>1. PcType'
    BY <1>9 DEF PcType, Listen
  <2>2. FlagType'
    BY <1>9 DEF FlagType, Listen
  <2>3. HistType'
    BY <1>9 DEF HistType, Listen
  <2> QED BY <2>1, <2>2, <2>3 DEF TypeOK
<1>10. CASE BindFails
  BY <1>10 DEF BindFails, Troubles, PcType, FlagType, HistType
<1>11. CASE RunReturns
  <2>1. PcType'
    BY <1>11 DEF PcType, RunReturns
  <2>2. FlagType'
    BY <1>11 DEF FlagType, RunReturns
  <2>3. HistType'
    BY <1>11 DEF HistType, RunReturns
  <2> QED BY <2>1, <2>2, <2>3 DEF TypeOK
<1>12. CASE JoinCmd
  BY <1>12 DEF JoinCmd, PcType, FlagType, HistType
<1>13. CASE JoinListen
  <2>1. PcType'
    BY <1>13 DEF PcType, JoinListen
  <2>2. FlagType'
    BY <1>13 DEF FlagType, JoinListen
  <2>3. HistType'
    BY <1>13 DEF HistType, JoinListen
  <2> QED BY <2>1, <2>2, <2>3 DEF TypeOK
<1>14. CASE JoinPic
  <2>0. "delete manager" \in Deleting
    BY Points
  <2>1. PcType'
    BY <1>14, <2>0 DEF PcType, JoinPic
  <2>2. FlagType'
    BY <1>14 DEF FlagType, JoinPic
  <2>3. HistType'
    BY <1>14 DEF HistType, JoinPic
  <2> QED BY <2>1, <2>2, <2>3 DEF TypeOK
<1>15. CASE CmdStart
  <2>1. PcType'
    BY <1>15 DEF PcType, CmdStart, Note, Troubles
  <2>2. FlagType'
    BY <1>15 DEF FlagType, CmdStart, Note, Troubles
  <2>3. HistType'
    BY <1>15 DEF HistType, CmdStart, Note, Troubles
  <2> QED BY <2>1, <2>2, <2>3 DEF TypeOK
<1>16. CASE CmdEnd
  BY <1>16 DEF CmdEnd, PcType, FlagType, HistType
<1>17. CASE PicEnd
  BY <1>17 DEF PicEnd, PcType, FlagType, HistType
<1>18. CASE WaitForHello
  BY <1>18 DEF WaitForHello, Use, PcType, FlagType, HistType
<1>19. CASE asyncListen
  BY <1>19 DEF asyncListen, Use, PcType, FlagType, HistType
<1>20. CASE ControlAnswered
  <2>1. PcType'
    BY <1>20 DEF PcType, ControlAnswered, Note, Troubles
  <2>2. FlagType'
    BY <1>20 DEF FlagType, ControlAnswered, Note, Troubles
  <2>3. HistType'
    BY <1>20 DEF HistType, ControlAnswered, Note, Troubles
  <2> QED BY <2>1, <2>2, <2>3 DEF TypeOK
<1>21. CASE serial_mux_stop
  <2>1. PcType'
    BY <1>21 DEF PcType, serial_mux_stop, BeginReset, Caller
  <2>2. FlagType'
    BY <1>21 DEF FlagType, serial_mux_stop, BeginReset, Caller
  <2>3. HistType'
    BY <1>21 DEF HistType, serial_mux_stop, BeginReset, Caller
  <2> QED BY <2>1, <2>2, <2>3 DEF TypeOK
<1>22. CASE ControlDone
  BY <1>22 DEF ControlDone, PcType, FlagType, HistType
<1>23. CASE SpuriousWakeup
  BY <1>23 DEF SpuriousWakeup, Troubles, PcType, FlagType, HistType
<1>24. CASE CloseTerminates
  BY <1>24 DEF CloseTerminates, ClosingFails, Troubles, PcType, FlagType, HistType
<1>25. CASE Hello
  BY <1>25 DEF Hello, PcType, FlagType, HistType
<1>26. CASE NotifBlocks
  BY <1>26 DEF NotifBlocks, Troubles, PcType, FlagType, HistType
<1>27. CASE ClientReads
  BY <1>27 DEF ClientReads, PcType, FlagType, HistType
<1>28. CASE Connect
  BY <1>28 DEF Connect, PcType, FlagType, HistType
<1>29. CASE handleAccept
  BY <1>29 DEF handleAccept, PcType, FlagType, HistType
<1>30. CASE handleStaleAccept
  <2>1. PcType'
    BY <1>30 DEF PcType, handleStaleAccept
  <2>2. FlagType'
    BY <1>30 DEF FlagType, handleStaleAccept
  <2>3. HistType'
    BY <1>30 DEF HistType, handleStaleAccept
  <2> QED BY <2>1, <2>2, <2>3 DEF TypeOK
<1>31. ASSUME NEW c \in Component, Delete(c) PROVE TypeOK'
  <2>0. mainPc' \in Deleting \cup {"loop"}
    BY <1>31, Points DEF Delete, Component
  <2>1. PcType'
    BY <1>31, <2>0 DEF PcType, Delete
  <2>2. FlagType'
    BY <1>31 DEF FlagType, Delete
  <2>3. HistType'
    BY <1>31 DEF HistType, Delete
  <2> QED BY <2>1, <2>2, <2>3 DEF TypeOK
<1>32. ASSUME NEW c \in Component, Clear(c) PROVE TypeOK'
  <2>0. mainPc' \in Deleting \cup {"loop"}
    BY <1>32, Points DEF Clear, Component
  <2>1. PcType'
    BY <1>32, <2>0 DEF PcType, Clear
  <2>2. FlagType'
    BY <1>32 DEF FlagType, Clear
  <2>3. HistType'
    BY <1>32 DEF HistType, Clear
  <2> QED BY <2>1, <2>2, <2>3 DEF TypeOK
<1>33. ASSUME NEW t \in Caller, ResetPicard(t) PROVE TypeOK'
  <2>1. PcType'
    BY <1>33 DEF PcType, ResetPicard, Use, Note, Troubles
  <2>2. FlagType'
    BY <1>33 DEF FlagType, ResetPicard, Use, Note, Troubles
  <2>3. HistType'
    BY <1>33 DEF HistType, ResetPicard, Use, Note, Troubles
  <2> QED BY <2>1, <2>2, <2>3 DEF TypeOK
<1>34. ASSUME NEW t \in Caller, ResetManager(t) PROVE TypeOK'
  BY <1>34 DEF ResetManager, Use, PcType, FlagType, HistType
<1>35. ASSUME NEW t \in Caller, ResetListener(t) PROVE TypeOK'
  BY <1>35 DEF ResetListener, Use, PcType, FlagType, HistType
<1>36. ASSUME NEW t \in Caller, ResetIo(t) PROVE TypeOK'
  BY <1>36 DEF ResetIo, PcType, FlagType, HistType
<1>37. ASSUME NEW t \in Caller, CloseThrows(t) PROVE TypeOK'
  BY <1>37 DEF CloseThrows, ClosingFails, Troubles, PcType, FlagType, HistType
<1>38. ASSUME NEW t \in {"cmd", "pic"}, ThreadResets(t) PROVE TypeOK'
  <2>1. PcType'
    BY <1>38 DEF PcType, ThreadResets, BeginReset, Caller
  <2>2. FlagType'
    BY <1>38 DEF FlagType, ThreadResets, BeginReset, Caller
  <2>3. HistType'
    BY <1>38, ResetBound DEF HistType, ThreadResets, BeginReset, Caller
  <2> QED BY <2>1, <2>2, <2>3 DEF TypeOK
<1>39. ASSUME NEW c \in Controls, Control(c) PROVE TypeOK'
  BY <1>39 DEF Control, PcType, FlagType, HistType
<1>40. CASE UNCHANGED vars
  <2>1. PcType'
    BY <1>40 DEF PcType, vars
  <2>2. FlagType'
    BY <1>40 DEF FlagType, vars
  <2>3. HistType'
    BY <1>40 DEF HistType, vars
  <2> QED BY <2>1, <2>2, <2>3 DEF TypeOK
<1>41. CASE HandlerThrows
  <2>1. PcType'
    BY <1>41 DEF PcType, HandlerThrows
  <2>2. FlagType'
    BY <1>41 DEF FlagType, HandlerThrows
  <2>3. HistType'
    BY <1>41 DEF HistType, HandlerThrows, Troubles
  <2> QED BY <2>1, <2>2, <2>3 DEF TypeOK
<1>42. CASE ListenWakes
  BY <1>42 DEF ListenWakes, PcType, FlagType, HistType
<1> QED
  BY <1>1, <1>2, <1>3, <1>4, <1>5, <1>6, <1>7, <1>8, <1>9, <1>10, <1>11, <1>12, <1>13, <1>14, <1>15, <1>16, <1>17, <1>18, <1>19, <1>20, <1>21, <1>22, <1>23, <1>24, <1>25, <1>26, <1>27, <1>28, <1>29, <1>30, <1>31, <1>32, <1>33, <1>34, <1>35, <1>36, <1>37, <1>38, <1>39, <1>40, <1>41, <1>42
     DEF Next, MainStep, ThreadStep, CtlStep, ResetStep

LEMMA NextInv == TypeOK /\ Inv /\ [Next]_vars => Inv'
<1> SUFFICES ASSUME TypeOK, Inv, [Next]_vars PROVE Inv'
  OBVIOUS
<1>0. /\ rpc \in [Caller -> {"none", "picard", "manager", "listener", "io"}]
      /\ global \in [Component -> {"null", "live", "freed"}]
  BY DEF TypeOK, PcType
<1> USE <1>0, Points DEF Inv, CallersExist, Joined, FreedIsCleared, ThreadsJoinedFirst,
        LeftByFailure, Failed, StopInOrder, TurnCleared, NothingRuns, LoopOver, OffTurn, Caller, Component,
        vars, svcVars, cmdVars, picVars, acceptVars, histVars
<1>1. CASE ServiceMain
  BY <1>1 DEF ServiceMain
<1>2. CASE ServiceLoop
  BY <1>2 DEF ServiceLoop
<1>3. CASE LoopGoesOn
  BY <1>3 DEF LoopGoesOn
<1>4. CASE LoopEnds
  BY <1>4 DEF LoopEnds
<1>5. CASE IoReset
  <2>1. CallersExist'
    BY <1>5 DEF IoReset, Note, Troubles
  <2>2. Joined'
    BY <1>5 DEF IoReset, Note, Troubles
  <2>3. FreedIsCleared'
    BY <1>5 DEF IoReset, Note, Troubles
  <2>4. ThreadsJoinedFirst'
    BY <1>5 DEF IoReset, Note, Troubles
  <2>5. LeftByFailure'
    BY <1>5, IoResetNotes DEF IoReset
  <2>6. StopInOrder'
    BY <1>5 DEF IoReset, Note, Troubles
  <2> QED BY <2>1, <2>2, <2>3, <2>4, <2>5, <2>6
<1>6. CASE OpenFails
  BY <1>6 DEF OpenFails
<1>7. CASE Open
  BY <1>7 DEF Open
<1>8. CASE Start
  BY <1>8 DEF Start
<1>9. CASE Listen
  BY <1>9 DEF Listen
<1>10. CASE BindFails
  BY <1>10 DEF BindFails, Troubles
<1>11. CASE RunReturns
  BY <1>11 DEF RunReturns
<1>12. CASE JoinCmd
  BY <1>12 DEF JoinCmd
<1>13. CASE JoinListen
  BY <1>13 DEF JoinListen
<1>14. CASE JoinPic
  BY <1>14 DEF JoinPic
<1>15. CASE CmdStart
  <2>1. CallersExist'
    BY <1>15 DEF CmdStart, Note, Troubles
  <2>2. Joined'
    BY <1>15 DEF CmdStart, Note, Troubles
  <2>3. FreedIsCleared'
    BY <1>15 DEF CmdStart, Note, Troubles
  <2>4. ThreadsJoinedFirst'
    BY <1>15 DEF CmdStart, Note, Troubles
  <2>5. LeftByFailure'
    BY <1>15, CmdStartNotes DEF CmdStart
  <2>6. StopInOrder'
    BY <1>15 DEF CmdStart, Note, Troubles
  <2> QED BY <2>1, <2>2, <2>3, <2>4, <2>5, <2>6
<1>16. CASE CmdEnd
  BY <1>16 DEF CmdEnd
<1>17. CASE PicEnd
  BY <1>17 DEF PicEnd
<1>18. CASE WaitForHello
  BY <1>18 DEF WaitForHello, Use
<1>19. CASE asyncListen
  BY <1>19 DEF asyncListen, Use
<1>20. CASE ControlAnswered
  BY <1>20 DEF ControlAnswered, Note, Troubles
<1>21. CASE serial_mux_stop
  BY <1>21 DEF serial_mux_stop, BeginReset
<1>22. CASE ControlDone
  BY <1>22 DEF ControlDone
<1>23. CASE SpuriousWakeup
  BY <1>23 DEF SpuriousWakeup, Troubles
<1>24. CASE CloseTerminates
  BY <1>24 DEF CloseTerminates, ClosingFails, Troubles
<1>25. CASE Hello
  BY <1>25 DEF Hello
<1>26. CASE NotifBlocks
  BY <1>26 DEF NotifBlocks, Troubles
<1>27. CASE ClientReads
  BY <1>27 DEF ClientReads
<1>28. CASE Connect
  <2>1. CallersExist'
    BY <1>28 DEF Connect
  <2>2. Joined'
    BY <1>28 DEF Connect
  <2>3. FreedIsCleared'
    BY <1>28 DEF Connect
  <2>4. ThreadsJoinedFirst'
    BY <1>28 DEF Connect
  <2>5. LeftByFailure'
    BY <1>28 DEF Connect
  <2>6. StopInOrder'
    BY <1>28 DEF Connect
  <2> QED BY <2>1, <2>2, <2>3, <2>4, <2>5, <2>6
<1>29. CASE handleAccept
  BY <1>29 DEF handleAccept
<1>30. CASE handleStaleAccept
  BY <1>30 DEF handleStaleAccept
<1>31. ASSUME NEW c \in Component, Delete(c) PROVE Inv'
  <2>1. CallersExist'
    BY <1>31 DEF Delete
  <2>2. Joined'
    BY <1>31 DEF Delete
  <2>3. FreedIsCleared'
    BY <1>31, FreedSteps
  <2>4. ThreadsJoinedFirst'
    BY <1>31 DEF Delete
  <2>5. LeftByFailure'
    BY <1>31 DEF Delete
  <2>6. StopInOrder'
    BY <1>31 DEF Delete
  <2> QED BY <2>1, <2>2, <2>3, <2>4, <2>5, <2>6
<1>32. ASSUME NEW c \in Component, Clear(c) PROVE Inv'
  <2>1. CallersExist'
    BY <1>32 DEF Clear
  <2>2. Joined'
    BY <1>32 DEF Clear
  <2>3. FreedIsCleared'
    BY <1>32, FreedSteps
  <2>4. ThreadsJoinedFirst'
    BY <1>32 DEF Clear
  <2>5. LeftByFailure'
    BY <1>32 DEF Clear
  <2>6. StopInOrder'
    BY <1>32 DEF Clear
  <2> QED BY <2>1, <2>2, <2>3, <2>4, <2>5, <2>6
<1>33. ASSUME NEW t \in Caller, ResetPicard(t) PROVE Inv'
  <2>1. CallersExist'
    BY <1>33 DEF ResetPicard, Use, Note, Troubles
  <2>2. Joined'
    BY <1>33 DEF ResetPicard, Use, Note, Troubles
  <2>3. FreedIsCleared'
    BY <1>33 DEF ResetPicard, Use, Note, Troubles
  <2>4. ThreadsJoinedFirst'
    BY <1>33 DEF ResetPicard, Use, Note, Troubles
  <2>5. LeftByFailure'
    BY <1>33, ResetPicardNotes DEF ResetPicard, Use
  <2>6. StopInOrder'
    BY <1>33 DEF ResetPicard, Use, Note, Troubles
  <2> QED BY <2>1, <2>2, <2>3, <2>4, <2>5, <2>6
<1>34. ASSUME NEW t \in Caller, ResetManager(t) PROVE Inv'
  <2>1. CallersExist'
    BY <1>34 DEF ResetManager, Use
  <2>2. Joined'
    BY <1>34 DEF ResetManager, Use
  <2>3. FreedIsCleared'
    BY <1>34 DEF ResetManager, Use
  <2>4. ThreadsJoinedFirst'
    BY <1>34 DEF ResetManager, Use
  <2>5. LeftByFailure'
    BY <1>34 DEF ResetManager, Use
  <2>6. StopInOrder'
    BY <1>34 DEF ResetManager, Use
  <2> QED BY <2>1, <2>2, <2>3, <2>4, <2>5, <2>6
<1>35. ASSUME NEW t \in Caller, ResetListener(t) PROVE Inv'
  <2>1. CallersExist'
    BY <1>35 DEF ResetListener, Use
  <2>2. Joined'
    BY <1>35 DEF ResetListener, Use
  <2>3. FreedIsCleared'
    BY <1>35 DEF ResetListener, Use
  <2>4. ThreadsJoinedFirst'
    BY <1>35 DEF ResetListener, Use
  <2>5. LeftByFailure'
    BY <1>35 DEF ResetListener, Use
  <2>6. StopInOrder'
    BY <1>35 DEF ResetListener, Use
  <2> QED BY <2>1, <2>2, <2>3, <2>4, <2>5, <2>6
<1>36. ASSUME NEW t \in Caller, ResetIo(t) PROVE Inv'
  <2>1. CallersExist'
    BY <1>36 DEF ResetIo
  <2>2. Joined'
    BY <1>36 DEF ResetIo
  <2>3. FreedIsCleared'
    BY <1>36 DEF ResetIo
  <2>4. ThreadsJoinedFirst'
    BY <1>36 DEF ResetIo
  <2>5. LeftByFailure'
    BY <1>36 DEF ResetIo
  <2>6. StopInOrder'
    BY <1>36 DEF ResetIo
  <2> QED BY <2>1, <2>2, <2>3, <2>4, <2>5, <2>6
<1>37. ASSUME NEW t \in Caller, CloseThrows(t) PROVE Inv'
  <2>1. CallersExist'
    BY <1>37 DEF CloseThrows, ClosingFails, Troubles
  <2>2. Joined'
    BY <1>37 DEF CloseThrows, ClosingFails, Troubles
  <2>3. FreedIsCleared'
    BY <1>37 DEF CloseThrows, ClosingFails, Troubles
  <2>4. ThreadsJoinedFirst'
    BY <1>37 DEF CloseThrows, ClosingFails, Troubles
  <2>5. LeftByFailure'
    BY <1>37 DEF CloseThrows, ClosingFails, Troubles
  <2>6. StopInOrder'
    BY <1>37 DEF CloseThrows, ClosingFails, Troubles
  <2> QED BY <2>1, <2>2, <2>3, <2>4, <2>5, <2>6
<1>38. ASSUME NEW t \in {"cmd", "pic"}, ThreadResets(t) PROVE Inv'
  <2>1. CallersExist'
    BY <1>38 DEF ThreadResets, BeginReset
  <2>2. Joined'
    BY <1>38 DEF ThreadResets, BeginReset
  <2>3. FreedIsCleared'
    BY <1>38 DEF ThreadResets, BeginReset
  <2>4. ThreadsJoinedFirst'
    BY <1>38 DEF ThreadResets, BeginReset
  <2>5. LeftByFailure'
    BY <1>38 DEF ThreadResets, BeginReset
  <2>6. StopInOrder'
    BY <1>38 DEF ThreadResets, BeginReset
  <2> QED BY <2>1, <2>2, <2>3, <2>4, <2>5, <2>6
<1>39. ASSUME NEW c \in Controls, Control(c) PROVE Inv'
  BY <1>39 DEF Control
<1>40. CASE UNCHANGED vars
  <2>1. CallersExist'
    BY <1>40
  <2>2. Joined'
    BY <1>40
  <2>3. FreedIsCleared'
    BY <1>40
  <2>4. ThreadsJoinedFirst'
    BY <1>40
  <2>5. LeftByFailure'
    BY <1>40
  <2>6. StopInOrder'
    BY <1>40
  <2> QED BY <2>1, <2>2, <2>3, <2>4, <2>5, <2>6
<1>41. CASE HandlerThrows
  <2>1. CallersExist'
    BY <1>41 DEF HandlerThrows
  <2>2. Joined'
    BY <1>41 DEF HandlerThrows
  <2>3. FreedIsCleared'
    BY <1>41 DEF HandlerThrows
  <2>4. ThreadsJoinedFirst'
    BY <1>41 DEF HandlerThrows
  <2>5. LeftByFailure'
    BY <1>41 DEF HandlerThrows
  <2>6. StopInOrder'
    BY <1>41 DEF HandlerThrows
  <2> QED BY <2>1, <2>2, <2>3, <2>4, <2>5, <2>6
<1>42. CASE ListenWakes
  BY <1>42 DEF ListenWakes
<1> QED
  BY <1>1, <1>2, <1>3, <1>4, <1>5, <1>6, <1>7, <1>8, <1>9, <1>10, <1>11, <1>12, <1>13, <1>14, <1>15, <1>16, <1>17, <1>18, <1>19, <1>20, <1>21, <1>22, <1>23, <1>24, <1>25, <1>26, <1>27, <1>28, <1>29, <1>30, <1>31, <1>32, <1>33, <1>34, <1>35, <1>36, <1>37, <1>38, <1>39, <1>40, <1>41, <1>42
     DEF Next, MainStep, ThreadStep, CtlStep, ResetStep

LEMMA InvHolds == Spec => [](TypeOK /\ Inv)
<1>1. TypeOK /\ Inv /\ [Next]_vars => (TypeOK /\ Inv)'
  BY NextType, NextInv
<1> QED BY InitInv, <1>1, PTL DEF Spec

-----------------------------------------------------------------------------
(* Theorems *)

\* The service, its components and threads are always in one of the states that
\* TypeOK names, however often and from wherever a turn is ended.
THEOREM LifecycleTypes == Spec => []TypeOK
BY InvHolds, PTL

\* The joins before the deletes of serial_mux_loop are enough for every thread of
\* the turn: neither the command thread, the Picard thread nor the listen thread
\* ever calls a component that was deleted, also after a bind that failed or a handler
\* that threw.
THEOREM NoThreadDangles == Spec => []ThreadsJoinedFirst
<1>1. Inv => ThreadsJoinedFirst
  BY DEF Inv
<1> QED BY InvHolds, <1>1, PTL

\* Every turn of serial_mux_loop begins with the threads and components of the
\* previous one gone.
THEOREM TurnsAreApart == Spec => []TurnsDoNotOverlap
<1>1. Inv => TurnsDoNotOverlap
  <2> SUFFICES ASSUME Inv, mainPc \in {"reset", "open"}
               PROVE  /\ cmdPc = "none" /\ picPc = "none" /\ lisPc = "none"
                      /\ rpc["cmd"] = "none" /\ rpc["pic"] = "none"
                      /\ \A c \in Component : global[c] = "null"
    BY DEF TurnsDoNotOverlap
  <2>1. TurnCleared /\ CallersExist
    BY DEF Inv, LeftByFailure
  <2> QED BY <2>1 DEF TurnCleared, CallersExist, NothingRuns, OffTurn, Component
<1> QED BY InvHolds, <1>1, PTL

\* The service is reported as stopped only after serial_mux_loop is over for good
\* and has deleted everything, unless the wait of serial_mux_stop ended by itself,
\* the listener could not be bound, or a handler threw out of io_service.run.
THEOREM StoppedIsOver == Spec => []StoppedAfterLoop
<1>1. Inv => StoppedAfterLoop
  <2> SUFFICES ASSUME Inv, svc = "STOPPED", trouble \cap {"spurious", "bind", "thrown"} = {}
               PROVE  /\ mainPc \in {"service", "loop", "returned"} /\ ~muxRunning
                      /\ \A c \in Component : global[c] = "null"
    BY DEF StoppedAfterLoop
  <2>0. ~Failed /\ "spurious" \notin trouble
    BY DEF Failed
  <2>1. LoopOver
    BY <2>0 DEF Inv, StopInOrder
  <2>2. TurnCleared
    BY <2>0 DEF Inv, LeftByFailure
  <2> QED BY <2>1, <2>2 DEF LoopOver, TurnCleared, OffTurn, Component
<1> QED BY InvHolds, <1>1, PTL

=============================================================================
