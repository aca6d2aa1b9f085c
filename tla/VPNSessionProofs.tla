-------------------------- MODULE VPNSessionProofs --------------------------
(***************************************************************************)
(* What VPNSession's runs show of two sessions, for any number of them.    *)
(***************************************************************************)
EXTENDS VPNSession, TLAPS

-----------------------------------------------------------------------------
(* Types.                                                                  *)

\* The kinds of step; each lemma below treats one.
UserStep == User \/ Locked
TimerStep == AutoReconnect \/ Restore \/ PollPromotes \/ PromoteReturns \/ DirectNAT

MonitorStep(s) ==
    \/ MonitorLeaves(s) \/ MonitorSeesTunnel(s) \/ MonitorSeesExit(s)
    \/ MonitorFinished(s) \/ MonitorTimesOut(s) \/ Prompts(s)
    \/ FailSession(s) \/ FailSessionSaves(s) \/ FailSessionAppliesDirectNAT(s)

FinishStep(s) == FinishEnter(s) \/ FinishAppliesVPNNAT(s) \/ FinishPublishes(s)

WatcherStep(s) ==
    \/ WaitReturns(s) \/ WatcherDecides(s) \/ WatcherAdopts(s) \/ WatcherLeaves(s)
    \/ AfterStopAppliesDirectNAT(s) \/ ScheduleAutoReconnect(s)

\* Every step is of one of these kinds.
LEMMA NextCases ==
    Next => \/ UserStep \/ TimerStep \/ Crash
            \/ \E s \in Sessions : \/ SendPassword(s) \/ MonitorStep(s) \/ FinishStep(s)
                                   \/ WatcherStep(s) \/ OpenConnect(s)
            \/ \E p \in Pollers : Poll(p)
  BY DEF Next, UserStep, TimerStep, Work, MonitorStep, FinishStep, WatcherStep

\* What the copier does with a line keeps the types.
LEMMA DeliverTypes ==
    ASSUME TypeOK, NEW s \in Sessions, Deliver(s)
    PROVE  /\ proc' \in [Sessions -> {"none", "dead"} \cup Alive]
           /\ copier' \in [Sessions -> {"reading", "broken", "closed"}]
  <1>1. CASE UNCHANGED copier /\ proc[s] \in Alive /\
             proc' = [proc EXCEPT ![s] = IF proc[s] = "asking" THEN "answered" ELSE proc[s]]
    BY <1>1 DEF TypeOK, Alive, LoggingIn
  <1>2. CASE UNCHANGED proc /\ copier' = [copier EXCEPT ![s] = "broken"]
    BY <1>2 DEF TypeOK
  <1>3. QED
    BY <1>1, <1>2 DEF Deliver

LEMMA UserTypes == TypeOK /\ UserStep => TypeOK'
  <1> SUFFICES ASSUME TypeOK, UserStep PROVE TypeOK'
    OBVIOUS
  <1> USE ConstantsAssumption DEF TypeOK, Holders, Phases, InProgress, Alive, Tunnel,
        LoggingIn, Sessions, None, SaveVPNState, SaveDown, GoApplyDirectNAT, lockVars,
        fileVars, stdinVars, goVars, hostVars, natVars, TornFile
  <1>1. CASE Connect
    BY <1>1 DEF Connect, BeginTeardown, Forget, KillOpenConnect
  <1>2. CASE Disconnect
    BY <1>2 DEF Disconnect, BeginTeardown, Forget, KillOpenConnect
  <1>3. CASE SubmitVPNInput
    <2> DEFINE s == activeVPNSession
    <2>1. s \in Sessions /\ Deliver(s) /\ inputSent' = TRUE
          /\ stateFile' = [phase |-> "connecting", sess |-> s]
          /\ boot' \in {boot, "direct"}
          /\ UNCHANGED <<lockVars, pw, goVars, hostVars, natVars>>
      BY <1>3 DEF SubmitVPNInput, AcceptsInput
    <2> HIDE DEF s
    <2>2. proc' \in [Sessions -> {"none", "dead"} \cup Alive]
          /\ copier' \in [Sessions -> {"reading", "broken", "closed"}]
      BY <2>1, DeliverTypes
    <2>3. stateFile' \in [phase : Phases, sess : Sessions \cup {None}]
      BY <2>1
    <2>4. QED
      BY <2>1, <2>2, <2>3
  <1>4. CASE SubmitVPNInputBlocks
    BY <1>4 DEF SubmitVPNInputBlocks
  <1>5. CASE EndTeardown
    BY <1>5 DEF EndTeardown
  <1>6. CASE Spawn
    <2>1. made + 1 \in Sessions
      BY <1>6 DEF Spawn
    <2>2. /\ stateFile' \in [phase : Phases, sess : Sessions \cup {None}]
          /\ direct' \in 0 .. MaxDirect
      BY <1>6 DEF Spawn
    <2>3. proc' \in [Sessions -> {"none", "dead"} \cup Alive]
      BY <1>6, <2>1 DEF Spawn
    <2>4. made' \in 0 .. MaxSessions /\ activeVPNSession' \in Sessions \cup {None}
      BY <1>6, <2>1 DEF Spawn
    <2>5. vpnMu' = "publish" /\ inputSent' = FALSE /\ boot' \in {boot, "direct"}
          /\ UNCHANGED <<copier, pw, goVars, hostVars, nat>>
      BY <1>6 DEF Spawn
    <2>6. QED
      BY <2>2, <2>3, <2>4, <2>5
  <1>7. CASE Publish
    BY <1>7 DEF Publish
  <1>8. QED
    BY <1>1, <1>2, <1>3, <1>4, <1>5, <1>6, <1>7 DEF UserStep, User, Locked

LEMMA TimerTypes == TypeOK /\ (TimerStep \/ Crash) => TypeOK'
  <1> SUFFICES ASSUME TypeOK, TimerStep \/ Crash PROVE TypeOK'
    OBVIOUS
  <1> USE ConstantsAssumption DEF TypeOK, Holders, Phases, InProgress, Alive, Tunnel,
        LoggingIn, Sessions, None, SaveVPNState, SaveDown, GoApplyDirectNAT, lockVars,
        fileVars, stdinVars, goVars, hostVars, natVars, TornFile
  <1>1. CASE AutoReconnectWakes \/ AutoReconnectReturns
    BY <1>1 DEF AutoReconnectWakes, AutoReconnectReturns, AutoReconnectMoves
  <1>2. CASE AutoReconnectConnects
    BY <1>2 DEF AutoReconnectConnects, BeginTeardown, Forget, KillOpenConnect
  <1>3. CASE Restore
    BY <1>3 DEF Restore, RestoreReads, RestoreApplies
  <1>4. CASE PollPromotes \/ PromoteReturns
    <2>1. PromoteMoves(TRUE) \/ PromoteMoves(FALSE)
      BY <1>4, Zenon DEF PollPromotes, PromoteReturns
    <2>2. promote' \in BOOLEAN
      BY <2>1, Zenon DEF PromoteMoves
    <2>3. UNCHANGED <<lockVars, fileVars, proc, stdinVars, goVars, autoReconnect,
                      poll, crashes, natVars>>
      BY <2>1 DEF PromoteMoves
    <2>4. QED
      BY <2>2, <2>3
  <1>5. CASE DirectNAT
    BY <1>5 DEF DirectNAT
  <1>6. CASE Crash
    <2>1. vpnMu' = "free" /\ activeVPNSession' = None /\ inputSent' = FALSE
          /\ autoReconnect' = "idle" /\ promote' = FALSE /\ direct' = 0
          /\ boot' = "restore" /\ UNCHANGED <<made, nat>>
          /\ stateFile' \in {stateFile, TornFile}
          /\ crashes' \in 0 .. MaxCrashes
      BY <1>6 DEF Crash
    <2>2. copier' \in [Sessions -> {"reading", "broken", "closed"}]
          /\ pw' \in [Sessions -> {"off", "writing", "sent"}]
      BY <1>6 DEF Crash
    <2>3. proc' \in [Sessions -> {"none", "dead"} \cup Alive]
      BY <1>6 DEF Crash
    <2>4. /\ monitor' \in [Sessions -> {"off", "tick", "prompt", "finish", "fail",
                                         "failing", "direct", "done"}]
          /\ watcher' \in [Sessions -> {"off", "wait", "returned", "adopt", "stopped",
                                         "pid", "done"}]
          /\ after' \in [Sessions -> {"none", "direct", "auto", "schedule"}]
      BY <1>6 DEF Crash
    <2>5. connectApplied' \in [Sessions -> {"new", "nat", "final", "done"}]
      BY <1>6 DEF Crash
    <2>6. poll' \in [Pollers -> BOOLEAN]
      BY <1>6 DEF Crash
    <2>7. /\ direct' \in 0 .. MaxDirect
          /\ stateFile' \in [phase : Phases, sess : Sessions \cup {None}] \cup {TornFile}
      BY <2>1
    <2>8. QED
      BY <2>1, <2>2, <2>3, <2>4, <2>5, <2>6, <2>7
  <1>7. QED
    BY <1>1, <1>2, <1>3, <1>4, <1>5, <1>6 DEF TimerStep, AutoReconnect

LEMMA MonitorTypes ==
    ASSUME TypeOK, NEW s \in Sessions, MonitorStep(s)
    PROVE  TypeOK'
  <1> USE DEF TypeOK, Holders, Phases, InProgress, None, SaveVPNState, SaveDown,
        lockVars, fileVars, stdinVars, goVars, hostVars, natVars, TornFile
  <1>1. ASSUME NEW from, NEW to \in {"done", "finish", "fail", "prompt"},
               MonitorMoves(s, from, to)
        PROVE  TypeOK'
    BY <1>1 DEF MonitorMoves, MonitorGoes
  <1>2. CASE MonitorSavesPrompt(s)
    BY <1>2 DEF MonitorSavesPrompt, MonitorGoes
  <1>3. CASE FailSession(s)
    BY <1>3 DEF FailSession, MonitorGoes, KillOpenConnect
  <1>4. CASE FailSessionSaves(s)
    BY <1>4 DEF FailSessionSaves, MonitorGoes
  <1>5. CASE FailSessionAppliesDirectNAT(s)
    BY <1>5 DEF FailSessionAppliesDirectNAT, MonitorGoes
  <1>6. QED
    BY <1>1, <1>2, <1>3, <1>4, <1>5 DEF MonitorStep, MonitorLeaves, MonitorSeesTunnel,
       MonitorSeesExit, MonitorFinished, MonitorTimesOut, Prompts, MonitorSeesPrompt

LEMMA FinishTypes ==
    ASSUME TypeOK, NEW s \in Sessions, FinishStep(s)
    PROVE  TypeOK'
  BY DEF TypeOK, Phases, InProgress, None, SaveVPNState, FinishStep, FinishEnter,
     FinishAppliesVPNNAT, FinishPublishes, lockVars, fileVars, stdinVars, goVars, hostVars, natVars,
     TornFile

LEMMA WatcherTypes ==
    ASSUME TypeOK, NEW s \in Sessions, WatcherStep(s)
    PROVE  TypeOK'
  <1> USE DEF TypeOK, Phases, InProgress, None, SaveVPNState, SaveDown,
        lockVars, fileVars, stdinVars, goVars, hostVars, natVars, TornFile
  <1>1. CASE WaitReturns(s) \/ WatcherDecides(s) \/ WatcherAdopts(s)
    BY <1>1 DEF WaitReturns, WatcherDecides, WatcherAdopts, WatcherMoves
  <1>2. CASE WatcherLeaves(s)
    BY <1>2 DEF WatcherLeaves, HandleStopped
  <1>3. CASE AfterStopAppliesDirectNAT(s) \/ ScheduleAutoReconnect(s)
    BY <1>3 DEF AfterStopAppliesDirectNAT, ScheduleAutoReconnect
  <1>4. QED
    BY <1>1, <1>2, <1>3 DEF WatcherStep

LEMMA OtherTypes ==
    ASSUME TypeOK, NEW s \in Sessions, SendPassword(s) \/ OpenConnect(s)
    PROVE  TypeOK'
  <1> USE DEF TypeOK, lockVars, fileVars, stdinVars, goVars, hostVars, natVars, TornFile
  <1>1. CASE SendPassword(s)
    <2>1. /\ proc' \in [Sessions -> {"none", "dead"} \cup Alive]
          /\ copier' \in [Sessions -> {"reading", "broken", "closed"}]
      BY <1>1, DeliverTypes DEF SendPassword
    <2>2. pw' \in [Sessions -> {"off", "writing", "sent"}]
      BY <1>1 DEF SendPassword
    <2>3. QED
      BY <1>1, <2>1, <2>2 DEF SendPassword
  <1>2. CASE OpenConnect(s)
    BY <1>2 DEF OpenConnect, OpenConnectAsks, OpenConnectTunnelUp, OpenConnectForks,
       OpenConnectExits, ProcessMoves, Alive, LoggingIn, Tunnel
  <1>3. QED
    BY <1>1, <1>2

LEMMA PollTypes ==
    ASSUME TypeOK, NEW p \in Pollers, Poll(p)
    PROVE  TypeOK'
  <1>1. poll' = [poll EXCEPT ![p] = TRUE] \/ poll' = [poll EXCEPT ![p] = FALSE]
    BY DEF Poll, PollSeesDrop, PollSavesDrop
  <1>2. poll' \in [Pollers -> BOOLEAN]
    BY <1>1 DEF TypeOK
  <1>3. /\ stateFile' \in [phase : Phases, sess : Sessions \cup {None}] \cup {TornFile}
        /\ direct' \in 0 .. MaxDirect
        /\ boot' \in {boot, "direct"}
    BY ConstantsAssumption DEF TypeOK, Poll, PollSeesDrop, PollSavesDrop, SaveDown,
       SaveVPNState, GoApplyDirectNAT, natVars, fileVars, Phases
  <1>4. UNCHANGED <<lockVars, proc, stdinVars, goVars, autoReconnect, promote, crashes, nat>>
    BY DEF Poll, PollSeesDrop, PollSavesDrop, natVars
  <1>5. QED
    BY <1>2, <1>3, <1>4 DEF TypeOK, lockVars, stdinVars, goVars

\* Every variable keeps its type, for any number of sessions, pending
\* ApplyDirectNAT goroutines, restarts and pollers.
THEOREM TypeCorrect == Spec => []TypeOK
  <1>1. Init => TypeOK
    <2> SUFFICES ASSUME Init PROVE TypeOK
      OBVIOUS
    <2>1. /\ proc \in [Sessions -> {"none", "dead"} \cup Alive]
          /\ copier \in [Sessions -> {"reading", "broken", "closed"}]
          /\ pw \in [Sessions -> {"off", "writing", "sent"}]
      BY DEF Init
    <2>2. /\ monitor \in [Sessions -> {"off", "tick", "prompt", "finish", "fail",
                                        "failing", "direct", "done"}]
          /\ watcher \in [Sessions -> {"off", "wait", "returned", "adopt", "stopped",
                                        "pid", "done"}]
      BY DEF Init
    <2>3. /\ connectApplied \in [Sessions -> {"new", "nat", "final", "done"}]
          /\ after \in [Sessions -> {"none", "direct", "auto", "schedule"}]
      BY DEF Init
    <2>4. poll \in [Pollers -> BOOLEAN]
      BY DEF Init
    <2>5. /\ made \in 0 .. MaxSessions /\ direct \in 0 .. MaxDirect
          /\ crashes \in 0 .. MaxCrashes
      BY ConstantsAssumption DEF Init
    <2>6. /\ vpnMu = "free" /\ activeVPNSession = None /\ inputSent = FALSE
          /\ stateFile \in [phase : Phases, sess : Sessions \cup {None}]
          /\ autoReconnect = "idle" /\ promote = FALSE /\ nat = "direct"
          /\ boot = "running"
      BY DEF Init, Phases
    <2>7. QED
      BY <2>1, <2>2, <2>3, <2>4, <2>5, <2>6 DEF TypeOK
  <1>2. TypeOK /\ [Next]_vars => TypeOK'
    <2>1. TypeOK /\ UNCHANGED vars => TypeOK'
      BY DEF TypeOK, vars, lockVars, fileVars, stdinVars, goVars, hostVars, natVars, TornFile
    <2>2. QED
      BY <2>1, NextCases, UserTypes, TimerTypes, MonitorTypes, FinishTypes,
         WatcherTypes, OtherTypes, PollTypes
  <1>3. QED
    BY <1>1, <1>2, PTL DEF Spec

-----------------------------------------------------------------------------
(* One openconnect, and whose it is.                                       *)

\* AtMostOneOpenConnect with what Spawn relies on: once disconnectLocked has
\* killed, and until vpnMu is passed on, none runs.
OneInv == AtMostOneOpenConnect /\ (vpnMu = "connect" => ~Running)

\* What runs belongs to the active session, because a session given up has had
\* its process killed or, in handleOpenConnectStoppedLocked, seen it gone.
OwnInv ==
    /\ activeVPNSession <= made
    /\ \A s \in Sessions :
         /\ s > made => watcher[s] = "off"
         /\ watcher[s] \in {"returned", "adopt", "stopped", "pid"} => proc[s] \notin ParentAlive
         /\ watcher[s] = "stopped" => s \notin Live
    /\ \A s \in Live : Current(s)

\* A step that starts no openconnect: one that runs goes on or dies, and does
\* not return to a parent it has left.
Ageing ==
    \A t \in Sessions :
        \/ proc'[t] = proc[t]
        \/ /\ proc[t] \in Alive /\ proc'[t] \in Alive \cup {"dead"}
           /\ proc'[t] \in ParentAlive => proc[t] \in ParentAlive

\* What the steps of a session's goroutines and of openconnect do to processes.
LEMMA SessionSteps ==
    ASSUME TypeOK, NEW s \in Sessions,
           SendPassword(s) \/ MonitorStep(s) \/ FinishStep(s) \/ WatcherStep(s)
             \/ OpenConnect(s)
    PROVE  \/ UNCHANGED proc \/ KillOpenConnect \/ Deliver(s)
           \/ \E to \in {"asking", "tunnel", "child", "dead"} :
                /\ proc[s] \in Alive /\ proc' = [proc EXCEPT ![s] = to]
                /\ to # "child" => proc[s] \in LoggingIn \/ to = "dead"
                /\ UNCHANGED vpnMu
  <1>1. CASE SendPassword(s)
    BY <1>1 DEF SendPassword
  <1>2. CASE MonitorStep(s)
    BY <1>2 DEF MonitorStep, MonitorLeaves, MonitorSeesTunnel, MonitorSeesExit,
       MonitorFinished, MonitorTimesOut, Prompts, MonitorSeesPrompt, MonitorSavesPrompt,
       MonitorMoves, FailSession, FailSessionSaves, FailSessionAppliesDirectNAT
  <1>3. CASE FinishStep(s) \/ WatcherStep(s)
    BY <1>3 DEF FinishStep, FinishEnter, FinishAppliesVPNNAT, FinishPublishes,
       WatcherStep, WaitReturns, WatcherDecides, WatcherAdopts, WatcherLeaves,
       WatcherMoves, AfterStopAppliesDirectNAT, ScheduleAutoReconnect
  <1>4. CASE OpenConnect(s)
    BY <1>4 DEF OpenConnect, OpenConnectAsks, OpenConnectTunnelUp, OpenConnectForks,
       OpenConnectExits, ProcessMoves, Alive, LoggingIn, Tunnel, lockVars, fileVars
  <1>5. QED
    BY <1>1, <1>2, <1>3, <1>4

\* And the steps of everything else.
LEMMA OtherSteps ==
    ASSUME TypeOK, ~Spawn,
           UserStep \/ TimerStep \/ Crash \/ \E p \in Pollers : Poll(p)
    PROVE  \/ UNCHANGED proc \/ KillOpenConnect
           \/ \E s \in Sessions : Deliver(s)
           \/ Crash
  <1>1. CASE UserStep
    BY <1>1 DEF UserStep, User, Locked, Connect, Disconnect, BeginTeardown, Forget,
       SubmitVPNInput, SubmitVPNInputBlocks, AcceptsInput, EndTeardown, Publish,
       TypeOK, hostVars, natVars, goVars
  <1>2. CASE TimerStep
    BY <1>2 DEF TimerStep, AutoReconnect, AutoReconnectWakes, AutoReconnectReturns,
       AutoReconnectMoves, AutoReconnectConnects, BeginTeardown, Restore, RestoreReads,
       RestoreApplies, PollPromotes, PromoteReturns, PromoteMoves, DirectNAT
  <1>3. CASE \E p \in Pollers : Poll(p)
    BY <1>3 DEF Poll, PollSeesDrop, PollSavesDrop
  <1>4. QED
    BY <1>1, <1>2, <1>3

\* Only Spawn starts an openconnect.
LEMMA OnlySpawnStarts ==
    ASSUME TypeOK, Next, ~Spawn
    PROVE  Ageing
  <1> USE DEF Ageing, TypeOK, Alive, ParentAlive, Tunnel, LoggingIn
  <1>1. CASE UNCHANGED proc
    BY <1>1
  <1>2. CASE KillOpenConnect
    BY <1>2 DEF KillOpenConnect, Newest, Live
  <1>3. ASSUME NEW s \in Sessions, Deliver(s) PROVE Ageing
    BY <1>3 DEF Deliver
  <1>4. ASSUME NEW s \in Sessions, NEW to \in {"asking", "tunnel", "child", "dead"},
               proc[s] \in Alive, proc' = [proc EXCEPT ![s] = to],
               to # "child" => proc[s] \in LoggingIn \/ to = "dead"
        PROVE  Ageing
    BY <1>4
  <1>5. CASE Crash
    BY <1>5 DEF Crash, Live
  <1>6. QED
    BY <1>1, <1>2, <1>3, <1>4, <1>5, NextCases, SessionSteps, OtherSteps

\* With at most one to kill, the kill leaves none.
LEMMA KillLeavesNone ==
    ASSUME TypeOK, AtMostOneOpenConnect, KillOpenConnect
    PROVE  Live' = {}
  <1>1. \A s \in Live : Newest(s)
    BY DEF AtMostOneOpenConnect, Newest, Live, Sessions
  <1>2. \A s \in Sessions : proc'[s] \notin Alive
    BY <1>1 DEF KillOpenConnect, Live, Alive, Tunnel, LoggingIn
  <1>3. QED
    BY <1>2 DEF Live

\* vpnMu is taken for a connection only together with the kill.
LEMMA ConnectKills ==
    ASSUME TypeOK, Next, vpnMu' = "connect", vpnMu # "connect"
    PROVE  KillOpenConnect
  <1>1. CASE UserStep \/ TimerStep \/ Crash
    BY <1>1 DEF UserStep, User, Locked, Connect, Disconnect, BeginTeardown,
       SubmitVPNInput, SubmitVPNInputBlocks, EndTeardown, Spawn, Publish, TimerStep,
       AutoReconnect, AutoReconnectWakes, AutoReconnectReturns, AutoReconnectMoves,
       AutoReconnectConnects, Restore, RestoreReads, RestoreApplies, PollPromotes,
       PromoteReturns, PromoteMoves, DirectNAT, Crash, lockVars, fileVars
  <1>2. ASSUME NEW s \in Sessions,
               SendPassword(s) \/ MonitorStep(s) \/ FinishStep(s) \/ WatcherStep(s)
                 \/ OpenConnect(s)
        PROVE  vpnMu' \in {vpnMu, "fail", "free"}
    <2>1. CASE SendPassword(s) \/ OpenConnect(s)
      BY <2>1 DEF SendPassword, OpenConnect, OpenConnectAsks, OpenConnectTunnelUp,
         OpenConnectForks, OpenConnectExits, ProcessMoves, lockVars, fileVars
    <2>2. CASE MonitorStep(s)
      BY <2>2 DEF MonitorStep, MonitorLeaves, MonitorSeesTunnel, MonitorSeesExit,
         MonitorFinished, MonitorTimesOut, Prompts, MonitorSeesPrompt,
         MonitorSavesPrompt, MonitorMoves, FailSession, FailSessionSaves,
         FailSessionAppliesDirectNAT, lockVars, fileVars
    <2>3. CASE FinishStep(s) \/ WatcherStep(s)
      BY <2>3 DEF FinishStep, FinishEnter, FinishAppliesVPNNAT, FinishPublishes,
         WatcherStep, WaitReturns, WatcherDecides, WatcherAdopts, WatcherLeaves,
         WatcherMoves, AfterStopAppliesDirectNAT, ScheduleAutoReconnect, lockVars, fileVars
    <2>4. QED
      BY <1>2, <2>1, <2>2, <2>3
  <1>3. CASE \E p \in Pollers : Poll(p)
    BY <1>3 DEF Poll, PollSeesDrop, PollSavesDrop, lockVars, fileVars
  <1>4. QED
    BY <1>1, <1>2, <1>3, NextCases

LEMMA OneInvStep == TypeOK /\ OneInv /\ [Next]_vars => OneInv'
  <1> SUFFICES ASSUME TypeOK, OneInv, [Next]_vars PROVE OneInv'
    OBVIOUS
  <1>1. CASE UNCHANGED vars
    BY <1>1 DEF OneInv, AtMostOneOpenConnect, Running, Live, vars, lockVars, fileVars
  <1>2. CASE Spawn
    <2>1. Live = {}
      BY <1>2 DEF Spawn, OneInv, Running
    <2>2. Live' \subseteq {made + 1}
      BY <1>2, <2>1 DEF Spawn, Live, TypeOK
    <2>3. QED
      BY <1>2, <2>2 DEF Spawn, OneInv, AtMostOneOpenConnect
  <1>3. CASE Next /\ ~Spawn
    <2>1. Live' \subseteq Live
      BY <1>3, OnlySpawnStarts DEF Ageing, Live
    <2>2. AtMostOneOpenConnect'
      BY <2>1 DEF OneInv, AtMostOneOpenConnect
    <2>3. ASSUME vpnMu' = "connect" PROVE Live' = {}
      <3>1. CASE vpnMu = "connect"
        BY <3>1, <2>1 DEF OneInv, Running
      <3>2. CASE vpnMu # "connect"
        BY <3>2, <2>3, <1>3, ConnectKills, KillLeavesNone DEF OneInv
      <3>3. QED
        BY <3>1, <3>2
    <2>4. QED
      BY <2>2, <2>3 DEF OneInv, Running
  <1>4. QED
    BY <1>1, <1>2, <1>3

LEMMA OneInvInvariant == Spec => []OneInv
  <1>1. Init => OneInv
    BY DEF Init, OneInv, AtMostOneOpenConnect, Live, Running, Alive, Tunnel, LoggingIn
  <1>2. QED
    BY <1>1, OneInvStep, TypeCorrect, PTL DEF Spec

\* However many connections, disconnections, failures, polls and restarts, and
\* whether or not openconnect forks or survives: at most one openconnect runs.
THEOREM OneOpenConnect == Spec => []AtMostOneOpenConnect
  <1>1. OneInv => AtMostOneOpenConnect
    BY DEF OneInv
  <1>2. QED
    BY <1>1, OneInvInvariant, PTL

\* How a step that starts no openconnect moves the watchers.
LEMMA WatcherChanges ==
    ASSUME TypeOK, OwnInv, Next, ~Spawn, NEW t \in Sessions
    PROVE  \/ watcher'[t] = watcher[t]
           \/ watcher'[t] = "off"
           \/ watcher'[t] = "done" /\ watcher[t] # "off"
           \/ watcher'[t] = "wait" /\ Current(t)
           \/ /\ UNCHANGED proc /\ watcher[t] # "off" /\ proc[t] \notin ParentAlive
              /\ watcher'[t] = "stopped" => t \notin Live
  <1> DEFINE Goal == \/ watcher'[t] = watcher[t]
                     \/ watcher'[t] = "off"
                     \/ watcher'[t] = "done" /\ watcher[t] # "off"
                     \/ watcher'[t] = "wait" /\ Current(t)
                     \/ /\ UNCHANGED proc /\ watcher[t] # "off"
                        /\ proc[t] \notin ParentAlive
                        /\ watcher'[t] = "stopped" => t \notin Live
  <1>1. CASE UserStep
    BY <1>1 DEF UserStep, User, Locked, Connect, Disconnect, BeginTeardown, Forget,
       SubmitVPNInput, SubmitVPNInputBlocks, EndTeardown, Spawn, Publish, TypeOK,
       goVars, Current
  <1>2. CASE TimerStep \/ Crash \/ \E p \in Pollers : Poll(p)
    BY <1>2 DEF TimerStep, AutoReconnect, AutoReconnectWakes, AutoReconnectReturns,
       AutoReconnectMoves, AutoReconnectConnects, BeginTeardown, Forget, Restore,
       RestoreReads, RestoreApplies, PollPromotes, PromoteReturns, PromoteMoves,
       DirectNAT, Crash, Poll, PollSeesDrop, PollSavesDrop, goVars
  <1>3. ASSUME NEW s \in Sessions,
               SendPassword(s) \/ MonitorStep(s) \/ FinishStep(s) \/ OpenConnect(s)
        PROVE  UNCHANGED watcher
    <2>1. CASE SendPassword(s) \/ OpenConnect(s)
      BY <2>1 DEF SendPassword, OpenConnect, OpenConnectAsks, OpenConnectTunnelUp,
         OpenConnectForks, OpenConnectExits, ProcessMoves, goVars
    <2>2. CASE MonitorStep(s)
      BY <2>2 DEF MonitorStep, MonitorLeaves, MonitorSeesTunnel, MonitorSeesExit,
         MonitorFinished, MonitorTimesOut, Prompts, MonitorSeesPrompt,
         MonitorSavesPrompt, MonitorMoves, FailSession, FailSessionSaves,
         FailSessionAppliesDirectNAT
    <2>3. CASE FinishStep(s)
      BY <2>3 DEF FinishStep, FinishEnter, FinishAppliesVPNNAT, FinishPublishes
    <2>4. QED
      BY <1>3, <2>1, <2>2, <2>3
  <1>4. ASSUME NEW s \in Sessions, WatcherStep(s) PROVE Goal
    <2>1. CASE WaitReturns(s)
      BY <2>1 DEF WaitReturns, WatcherMoves, TypeOK
    <2>2. CASE WatcherDecides(s)
      BY <2>2 DEF WatcherDecides, WatcherMoves, TypeOK, OwnInv, TunnelReady, Live,
         Alive, ParentAlive
    <2>3. CASE WatcherAdopts(s)
      BY <2>3 DEF WatcherAdopts, WatcherMoves, TypeOK, OwnInv
    <2>4. CASE WatcherLeaves(s)
      BY <2>4 DEF WatcherLeaves, TypeOK
    <2>5. CASE AfterStopAppliesDirectNAT(s) \/ ScheduleAutoReconnect(s)
      BY <2>5 DEF AfterStopAppliesDirectNAT, ScheduleAutoReconnect
    <2>6. QED
      BY <1>4, <2>1, <2>2, <2>3, <2>4, <2>5 DEF WatcherStep
  <1>5. QED
    BY <1>1, <1>2, <1>3, <1>4, NextCases

\* A session is given up only with its process killed or gone.
LEMMA ActiveChanges ==
    ASSUME TypeOK, OwnInv, Next, ~Spawn
    PROVE  /\ made' = made
           /\ \/ activeVPNSession' = activeVPNSession
              \/ /\ activeVPNSession' = None
                 /\ \/ KillOpenConnect \/ Crash
                    \/ UNCHANGED proc /\ \E s \in Sessions : Current(s) /\ s \notin Live
  <1>1. CASE UserStep
    BY <1>1 DEF UserStep, User, Locked, Connect, Disconnect, BeginTeardown, Forget,
       SubmitVPNInput, SubmitVPNInputBlocks, EndTeardown, Spawn, Publish, lockVars, fileVars
  <1>2. CASE TimerStep \/ Crash \/ \E p \in Pollers : Poll(p)
    BY <1>2 DEF TimerStep, AutoReconnect, AutoReconnectWakes, AutoReconnectReturns,
       AutoReconnectMoves, AutoReconnectConnects, BeginTeardown, Forget, Restore,
       RestoreReads, RestoreApplies, PollPromotes, PromoteReturns, PromoteMoves,
       DirectNAT, Crash, Poll, PollSeesDrop, PollSavesDrop, lockVars, fileVars
  <1>3. ASSUME NEW s \in Sessions, SendPassword(s) \/ FinishStep(s) \/ OpenConnect(s)
        PROVE  UNCHANGED <<activeVPNSession, made>>
    BY <1>3 DEF SendPassword, OpenConnect, OpenConnectAsks, OpenConnectTunnelUp,
       OpenConnectForks, OpenConnectExits, ProcessMoves, FinishStep, FinishEnter,
       FinishAppliesVPNNAT, FinishPublishes, lockVars, fileVars
  <1>4. ASSUME NEW s \in Sessions, MonitorStep(s)
        PROVE  /\ UNCHANGED made
               /\ \/ UNCHANGED activeVPNSession
                  \/ activeVPNSession' = None /\ KillOpenConnect
    <2>1. CASE FailSession(s)
      BY <2>1 DEF FailSession
    <2>2. CASE ~FailSession(s)
      BY <1>4, <2>2 DEF MonitorStep, MonitorLeaves, MonitorSeesTunnel, MonitorSeesExit,
         MonitorFinished, MonitorTimesOut, Prompts, MonitorSeesPrompt,
         MonitorSavesPrompt, MonitorMoves, FailSessionSaves,
         FailSessionAppliesDirectNAT, lockVars, fileVars
    <2>3. QED
      BY <2>1, <2>2
  <1>5. ASSUME NEW s \in Sessions, WatcherStep(s)
        PROVE  /\ UNCHANGED made
               /\ \/ UNCHANGED activeVPNSession
                  \/ activeVPNSession' = None /\ UNCHANGED proc /\ Current(s) /\ s \notin Live
    <2>1. CASE WatcherLeaves(s)
      BY <2>1 DEF WatcherLeaves, HandleStopped, OwnInv
    <2>2. CASE ~WatcherLeaves(s)
      BY <1>5, <2>2 DEF WatcherStep, WaitReturns, WatcherDecides, WatcherAdopts,
         WatcherMoves, AfterStopAppliesDirectNAT, ScheduleAutoReconnect, lockVars, fileVars
    <2>3. QED
      BY <2>1, <2>2
  <1>6. QED
    BY <1>1, <1>2, <1>3, <1>4, <1>5, NextCases

LEMMA OwnInvStep ==
    ASSUME ~Survives, TypeOK, OneInv, OwnInv, [Next]_vars
    PROVE  OwnInv'
  <1>1. CASE UNCHANGED vars
    BY <1>1 DEF OwnInv, Live, Current, vars, lockVars, fileVars, goVars
  <1>2. CASE Spawn
    <2>1. made + 1 \in Sessions /\ made' = made + 1 /\ activeVPNSession' = made + 1
          /\ UNCHANGED watcher /\ proc' = [proc EXCEPT ![made + 1] = "login"]
      BY <1>2, ConstantsAssumption DEF Spawn, TypeOK, Sessions, goVars
    <2>2. Live = {}
      BY <1>2 DEF Spawn, OneInv, Running
    <2>3. Live' \subseteq {made + 1}
      BY <2>1, <2>2 DEF Live
    <2>4. \A t \in Sessions : t > made + 1 => t > made
      BY DEF TypeOK, Sessions
    <2>5. watcher[made + 1] = "off"
      BY <2>1 DEF OwnInv, TypeOK, Sessions
    <2>6. \A t \in Sessions : t # made + 1 => proc'[t] = proc[t]
      BY <2>1 DEF TypeOK
    <2>7. \A t \in Sessions : t > made + 1 => watcher'[t] = "off"
      BY <2>1, <2>4 DEF OwnInv
    <2>8. \A t \in Sessions : watcher'[t] = "stopped" => t \notin Live'
      BY <2>1, <2>3, <2>5
    <2>9. \A t \in Sessions : watcher'[t] \in {"returned", "adopt", "stopped", "pid"}
                                => proc'[t] \notin ParentAlive
      BY <2>1, <2>5, <2>6 DEF OwnInv
    <2>10. QED
      BY <2>1, <2>3, <2>7, <2>8, <2>9 DEF OwnInv, Current, TypeOK, Sessions
  <1>3. CASE Next /\ ~Spawn
    <2>1. Ageing
      BY <1>3, OnlySpawnStarts
    <2>2. Live' \subseteq Live
      BY <2>1 DEF Ageing, Live
    <2>3. activeVPNSession' <= made'
      BY <1>3, ActiveChanges DEF OwnInv, TypeOK, None, Sessions
    <2>4. ASSUME NEW s \in Sessions
          PROVE  /\ s > made' => watcher'[s] = "off"
                 /\ watcher'[s] \in {"returned", "adopt", "stopped", "pid"}
                      => proc'[s] \notin ParentAlive
                 /\ watcher'[s] = "stopped" => s \notin Live'
      <3>1. made' = made
        BY <1>3, ActiveChanges
      <3>2. CASE watcher'[s] = watcher[s]
        BY <2>1, <2>2, <3>1, <3>2 DEF OwnInv, Ageing, ParentAlive, LoggingIn
      <3>3. CASE watcher'[s] = "off"
        BY <3>3
      <3>4. CASE watcher'[s] = "done" /\ watcher[s] # "off"
        BY <3>1, <3>4 DEF OwnInv
      <3>5. CASE watcher'[s] = "wait" /\ Current(s)
        BY <3>1, <3>5 DEF OwnInv, Current, Sessions, TypeOK
      <3>6. CASE /\ UNCHANGED proc /\ watcher[s] # "off" /\ proc[s] \notin ParentAlive
                 /\ watcher'[s] = "stopped" => s \notin Live
        BY <3>1, <3>6 DEF OwnInv, Live
      <3>7. QED
        BY <1>3, <3>2, <3>3, <3>4, <3>5, <3>6, WatcherChanges
    <2>5. \A s \in Live' : Current(s)'
      <3>1. CASE activeVPNSession' = activeVPNSession
        BY <2>2, <3>1 DEF OwnInv, Current
      <3>2. CASE KillOpenConnect
        BY <3>2, KillLeavesNone DEF OneInv
      <3>3. CASE Crash
        BY <3>3 DEF Crash, Live, Alive, Tunnel, LoggingIn
      <3>4. CASE UNCHANGED proc /\ \E s \in Sessions : Current(s) /\ s \notin Live
        BY <2>2, <3>4 DEF OwnInv, Current
      <3>5. QED
        BY <1>3, <3>1, <3>2, <3>3, <3>4, ActiveChanges
    <2>6. QED
      BY <2>3, <2>4, <2>5 DEF OwnInv
  <1>4. QED
    BY <1>1, <1>2, <1>3

\* When openconnect does not survive its service (the unit's control group):
\* while vpnMu is free and no session is active, no openconnect runs.
THEOREM NoOpenConnectWithoutSession ==
    ASSUME ~Survives
    PROVE  Spec => []NoOrphanOpenConnect
  <1>1. Init => OwnInv
    BY DEF Init, OwnInv, Live, Alive, Tunnel, LoggingIn, None
  <1>2. TypeOK /\ OneInv /\ OwnInv /\ [Next]_vars => OwnInv'
    BY OwnInvStep
  <1>3. TypeOK /\ OwnInv => NoOrphanOpenConnect
    BY DEF OwnInv, NoOrphanOpenConnect, Running, Current, None, Live, Sessions
  <1>4. QED
    BY <1>1, <1>2, <1>3, TypeCorrect, OneInvInvariant, PTL DEF Spec

-----------------------------------------------------------------------------
(* The refinement of VPNLifecycle.                                         *)

\* Sessions not made yet are untouched; the active one was made; a connection
\* starts with none active, and has one when it is published; what is torn is torn
\* by a restart, and saved again before a session is active.
LifeInv ==
    /\ activeVPNSession <= made
    /\ vpnMu = "connect" => activeVPNSession = None
    /\ vpnMu = "publish" => activeVPNSession # None
    /\ stateFile.phase = "torn" => activeVPNSession = None
    /\ \A s \in Sessions : s > made =>
         monitor[s] = "off" /\ watcher[s] = "off" /\ connectApplied[s] = "new"

\* What a step that starts no session does to what the lifecycle shows.
LifeStep ==
    /\ made' = made
    /\ activeVPNSession' \in {activeVPNSession, None}
    /\ \/ UNCHANGED stateFile
       \/ stateFile'.sess = None
       \/ /\ activeVPNSession' = activeVPNSession /\ activeVPNSession # None
          /\ stateFile'.sess = activeVPNSession
    /\ \A s \in Sessions : Current(s) /\ Current(s)' =>
         \/ connectApplied'[s] = "done" <=> connectApplied[s] = "done"
         \/ connectApplied'[s] = "done" /\ stateFile'.sess = s

\* What it does to the sessions that are not made yet, and to vpnMu.
FreshStep ==
    /\ \A s \in Sessions : s > made =>
         /\ monitor[s] = "off" => monitor'[s] = "off"
         /\ watcher[s] = "off" => watcher'[s] = "off"
         /\ connectApplied[s] = "new" => connectApplied'[s] = "new"
    /\ vpnMu' = "connect" => activeVPNSession' = None
    /\ vpnMu' = "publish" => activeVPNSession' # None
    /\ stateFile'.phase = "torn" => activeVPNSession' = None

\* A step that moves only goroutines which have been started.
LEMMA LifeQuiet ==
    ASSUME LifeInv, UNCHANGED <<lockVars, fileVars, connectApplied>>,
           \A t \in Sessions : monitor[t] = "off" => monitor'[t] = "off",
           \A t \in Sessions : watcher[t] = "off" => watcher'[t] = "off"
    PROVE  LifeStep /\ FreshStep
  BY DEF LifeStep, FreshStep, LifeInv, Current, lockVars, fileVars

LEMMA LifeUser ==
    ASSUME TypeOK, LifeInv, UserStep, ~Spawn PROVE LifeStep /\ FreshStep
  <1> USE DEF LifeStep, FreshStep, LifeInv, TypeOK, SaveVPNState, SaveDown, Current,
        lockVars, fileVars, goVars
  <1>1. CASE Connect \/ Disconnect
    BY <1>1 DEF Connect, Disconnect, BeginTeardown, Forget
  <1>2. CASE SubmitVPNInput \/ SubmitVPNInputBlocks
    BY <1>2 DEF SubmitVPNInput, SubmitVPNInputBlocks, AcceptsInput, Free
  <1>3. CASE EndTeardown
    BY <1>3 DEF EndTeardown
  <1>4. CASE Publish
    BY <1>4 DEF Publish, Sessions
  <1>5. QED
    BY <1>1, <1>2, <1>3, <1>4 DEF UserStep, User, Locked

LEMMA LifeTimer ==
    ASSUME TypeOK, LifeInv, TimerStep \/ Crash \/ \E p \in Pollers : Poll(p)
    PROVE  LifeStep /\ FreshStep
  <1> USE DEF LifeStep, FreshStep, LifeInv, TypeOK, SaveVPNState, SaveDown, Current,
        lockVars, fileVars, goVars
  <1>1. CASE AutoReconnectConnects
    BY <1>1 DEF AutoReconnectConnects, BeginTeardown, Forget
  <1>2. CASE Crash
    <2>1. /\ vpnMu' = "free" /\ activeVPNSession' = None
          /\ UNCHANGED made /\ stateFile' \in {stateFile, TornFile}
      BY <1>2 DEF Crash
    <2>2. \A s \in Sessions : /\ monitor'[s] = "off" /\ watcher'[s] = "off"
                              /\ s > made => connectApplied'[s] = "new"
      BY <1>2 DEF Crash, Sessions
    <2>3. \A s \in Sessions : ~Current(s)'
      BY <2>1 DEF Sessions, None
    <2>4. LifeStep
      BY <2>1, <2>3 DEF TornFile
    <2>5. QED
      BY <2>1, <2>2, <2>4
  <1>3. CASE \E p \in Pollers : Poll(p)
    BY <1>3 DEF Poll, PollSeesDrop, PollSavesDrop
  <1>4. CASE TimerStep /\ ~AutoReconnectConnects
    BY <1>4 DEF TimerStep, AutoReconnect, AutoReconnectWakes, AutoReconnectReturns,
       AutoReconnectMoves, Restore, RestoreReads, RestoreApplies, PollPromotes,
       PromoteReturns, PromoteMoves, DirectNAT
  <1>5. QED
    BY <1>1, <1>2, <1>3, <1>4

LEMMA LifeSession ==
    ASSUME TypeOK, LifeInv, NEW s \in Sessions,
           SendPassword(s) \/ MonitorStep(s) \/ FinishStep(s) \/ WatcherStep(s)
             \/ OpenConnect(s)
    PROVE  LifeStep /\ FreshStep
  <1> USE DEF LifeStep, FreshStep, LifeInv, TypeOK, SaveVPNState, SaveDown, Current,
        lockVars, fileVars, goVars, Free, None, Sessions
  <1>1. CASE SendPassword(s) \/ OpenConnect(s)
    <2>1. UNCHANGED <<lockVars, fileVars, goVars>>
      BY <1>1 DEF SendPassword, OpenConnect, OpenConnectAsks, OpenConnectTunnelUp,
         OpenConnectForks, OpenConnectExits, ProcessMoves
    <2>2. QED
      BY <2>1, LifeQuiet
  <1>2. CASE \/ MonitorLeaves(s) \/ MonitorSeesTunnel(s) \/ MonitorSeesExit(s)
             \/ MonitorFinished(s) \/ MonitorTimesOut(s) \/ MonitorSeesPrompt(s)
    <2>1. PICK from \in {"tick", "finish"}, to \in {"done", "finish", "fail", "prompt"} :
             MonitorMoves(s, from, to)
      BY <1>2 DEF MonitorLeaves, MonitorSeesTunnel, MonitorSeesExit, MonitorFinished,
         MonitorTimesOut, MonitorSeesPrompt
    <2>2. QED
      BY <2>1, LifeQuiet DEF MonitorMoves, MonitorGoes
  <1>3. CASE MonitorSavesPrompt(s)
    BY <1>3 DEF MonitorSavesPrompt, MonitorGoes
  <1>4. CASE FailSession(s)
    BY <1>4 DEF FailSession, MonitorGoes
  <1>5. CASE FailSessionSaves(s) \/ FailSessionAppliesDirectNAT(s)
    <2>1. CASE FailSessionSaves(s)
      BY <2>1 DEF FailSessionSaves, MonitorGoes
    <2>2. CASE FailSessionAppliesDirectNAT(s)
      BY <2>2, LifeQuiet DEF FailSessionAppliesDirectNAT, MonitorGoes
    <2>3. QED
      BY <1>5, <2>1, <2>2
  <1>6. CASE FinishEnter(s)
    BY <1>6 DEF FinishEnter, CallsFinish
  <1>7. CASE FinishAppliesVPNNAT(s)
    BY <1>7 DEF FinishAppliesVPNNAT
  <1>8. CASE FinishPublishes(s)
    BY <1>8 DEF FinishPublishes
  <1>9. CASE WaitReturns(s) \/ WatcherDecides(s) \/ WatcherAdopts(s)
    <2>1. PICK from \in {"wait", "returned", "adopt"},
               to \in {"returned", "done", "adopt", "stopped", "pid"} :
             WatcherMoves(s, from, to)
      BY <1>9 DEF WaitReturns, WatcherDecides, WatcherAdopts
    <2>2. QED
      BY <2>1, LifeQuiet DEF WatcherMoves
  <1>10. CASE WatcherLeaves(s)
    BY <1>10 DEF WatcherLeaves, HandleStopped
  <1>11. CASE AfterStopAppliesDirectNAT(s) \/ ScheduleAutoReconnect(s)
    BY <1>11 DEF AfterStopAppliesDirectNAT, ScheduleAutoReconnect
  <1>12. QED
    BY <1>1, <1>2, <1>3, <1>4, <1>5, <1>6, <1>7, <1>8, <1>9, <1>10, <1>11
       DEF MonitorStep, Prompts, FinishStep, WatcherStep

LEMMA LifeOther ==
    ASSUME TypeOK, LifeInv, Next, ~Spawn PROVE LifeStep /\ FreshStep
  BY LifeUser, LifeTimer, LifeSession, NextCases

\* What Spawn does.
LEMMA LifeSpawn ==
    ASSUME TypeOK, LifeInv, Spawn
    PROVE  /\ activeVPNSession = None
           /\ made + 1 \in Sessions /\ made' = made + 1 /\ activeVPNSession' = made + 1
           /\ vpnMu' = "publish"
           /\ stateFile'.sess = None /\ stateFile'.phase = "disconnected"
           /\ UNCHANGED <<monitor, watcher, connectApplied>>
  BY ConstantsAssumption DEF Spawn, LifeInv, TypeOK, Sessions, None, SaveDown,
     SaveVPNState, goVars

LEMMA LifeInvariant == Spec => []LifeInv
  <1>1. Init => LifeInv
    BY DEF Init, LifeInv, None
  <1>2. ASSUME TypeOK, LifeInv, [Next]_vars PROVE LifeInv'
    <2>1. CASE UNCHANGED vars
      BY <1>2, <2>1 DEF LifeInv, vars, lockVars, fileVars, goVars
    <2>2. CASE Spawn
      <3>1. activeVPNSession' <= made' /\ vpnMu' = "publish" /\ activeVPNSession' # None
        BY <1>2, <2>2, LifeSpawn DEF Sessions, None
      <3>2. \A s \in Sessions : s > made' => s > made
        BY <1>2, <2>2, LifeSpawn DEF Sessions, TypeOK
      <3>3. QED
        BY <1>2, <2>2, <3>1, <3>2, LifeSpawn DEF LifeInv
    <2>3. CASE Next /\ ~Spawn
      BY <1>2, <2>3, LifeOther DEF LifeInv, LifeStep, FreshStep, TypeOK, None, Sessions
    <2>4. QED
      BY <1>2, <2>1, <2>2, <2>3
  <1>3. QED
    BY <1>1, <1>2, TypeCorrect, PTL DEF Spec

\* No step publishes a session other than the active one: across the unlocked
\* stretches of finishConnected and monitorVPNSession, for any interleaving.
THEOREM CurrentSessionPublishes == Spec => OnlyCurrentSessionPublishes
  <1>1. ASSUME TypeOK, LifeInv, [Next]_vars, stateFile' # stateFile, stateFile'.sess # None
        PROVE  activeVPNSession' = stateFile'.sess
    <2>1. CASE UNCHANGED vars
      BY <1>1, <2>1 DEF vars, fileVars
    <2>2. CASE Spawn
      BY <1>1, <2>2, LifeSpawn
    <2>3. CASE Next /\ ~Spawn
      BY <1>1, <2>3, LifeOther DEF LifeStep
    <2>4. QED
      BY <1>1, <2>1, <2>2, <2>3
  <1>2. QED
    BY <1>1, TypeCorrect, LifeInvariant, PTL DEF Spec, OnlyCurrentSessionPublishes

-----------------------------------------------------------------------------
\* Every behaviour of the session manager is one of VPNLifecycle: attempts one
\* at a time, each connected at most once, ended for good, shown while current.
THEOREM LifecycleImplemented == Spec => ImplementsLifecycle
  <1>1. Init => Lifecycle!Init
    BY DEF Init, Lifecycle!Init, Stage, Current, Sessions
  <1>2. ASSUME TypeOK, LifeInv, LifeInv', [Next]_vars
        PROVE  [Lifecycle!Next]_(Lifecycle!vars)
    <2> DEFINE stage == [s \in Sessions |-> Stage(s)]
    <2>1. CASE UNCHANGED vars
      BY <2>1 DEF vars, lockVars, fileVars, goVars, Lifecycle!vars, Stage, Current
    <2>2. CASE Spawn
      <3> DEFINE s1 == made + 1
      <3>0. /\ activeVPNSession = None /\ s1 \in Sessions /\ made' = s1
            /\ activeVPNSession' = s1 /\ connectApplied' = connectApplied
            /\ connectApplied[s1] = "new" /\ made \in Nat
        BY <1>2, <2>2, LifeSpawn DEF LifeInv, TypeOK, Sessions
      <3>1. ASSUME NEW s \in Sessions
            PROVE  Stage(s)' = IF s = made + 1 THEN "attempting" ELSE Stage(s)
        <4>1. CASE s = s1
          BY <3>0, <4>1 DEF Stage, Current
        <4>2. CASE s # s1
          BY <3>0, <4>2 DEF Stage, Current, Sessions, None
        <4>3. QED
          BY <4>1, <4>2
      <3>2. Stage(made + 1) = "fresh"
        BY <3>0 DEF Stage
      <3>3. stage' = [stage EXCEPT ![made + 1] = "attempting"]
        BY <3>1
      <3>4. Lifecycle!Begin(made + 1)
        BY <1>2, <2>2, <3>2, <3>3, LifeSpawn DEF Lifecycle!Begin
      <3>5. QED
        BY <1>2, <2>2, <3>4, LifeSpawn DEF Lifecycle!Next
    <2>3. CASE Next /\ ~Spawn
      <3>1. LifeStep
        BY <1>2, <2>3, LifeOther
      <3>2. CASE activeVPNSession' = activeVPNSession /\ stage' = stage
        <4>1. CASE UNCHANGED stateFile
          BY <3>2, <4>1 DEF Lifecycle!vars
        <4>2. CASE stateFile'.sess = None
          BY <3>2, <4>2 DEF Lifecycle!Next, Lifecycle!Hide
        <4>3. CASE activeVPNSession # None /\ stateFile'.sess = activeVPNSession
          BY <1>2, <3>2, <4>3 DEF Lifecycle!Next, Lifecycle!Show, TypeOK
        <4>4. QED
          BY <3>1, <4>1, <4>2, <4>3 DEF LifeStep
      <3>3. CASE activeVPNSession' = None /\ activeVPNSession # None
        <4>1. \A s \in Sessions :
                 Stage(s)' = IF s = activeVPNSession THEN "over" ELSE Stage(s)
          BY <1>2, <3>1, <3>3 DEF LifeStep, Stage, Current, LifeInv, TypeOK, Sessions, None
        <4>2. stage' = [stage EXCEPT ![activeVPNSession] = "over"]
          BY <4>1
        <4>3. stateFile' = stateFile \/ stateFile'.sess = None
          BY <3>1, <3>3 DEF LifeStep
        <4>4. Lifecycle!End(activeVPNSession)
          BY <3>3, <4>2, <4>3 DEF Lifecycle!End
        <4>5. QED
          BY <1>2, <3>3, <4>4 DEF Lifecycle!Next, TypeOK
      <3>4. CASE activeVPNSession' = activeVPNSession /\ stage' # stage
        <4>1. PICK s \in Sessions : Stage(s)' # Stage(s)
          BY <3>4
        <4>2. Current(s) /\ Current(s)' /\ connectApplied'[s] = "done"
              /\ connectApplied[s] # "done" /\ stateFile'.sess = s
          BY <3>1, <3>4, <4>1 DEF LifeStep, Stage, Current
        <4>3. \A t \in Sessions : Stage(t)' = IF t = s THEN "up" ELSE Stage(t)
          BY <1>2, <3>1, <3>4, <4>2 DEF LifeStep, LifeInv, Stage, Current, TypeOK, Sessions
        <4>4. stage' = [stage EXCEPT ![s] = "up"]
          BY <4>3
        <4>5. Lifecycle!Show(s)
          BY <3>4, <4>2, <4>4 DEF Lifecycle!Show, Current
        <4>6. QED
          BY <4>5 DEF Lifecycle!Next
      <3>5. QED
        BY <1>2, <3>1, <3>2, <3>3, <3>4 DEF LifeStep, TypeOK
    <2>4. QED
      BY <1>2, <2>1, <2>2, <2>3
  <1>3. QED
    BY <1>1, <1>2, TypeCorrect, LifeInvariant, PTL
       DEF Spec, ImplementsLifecycle, Lifecycle!Spec
=============================================================================
