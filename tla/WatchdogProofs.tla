--------------------------- MODULE WatchdogProofs ---------------------------
(***************************************************************************)
(* The watchdogs for any number of sessions, watchdogs and callers of      *)
(* GetVPNState, and what the session manager promises beside them.         *)
(***************************************************************************)
EXTENDS Watchdog, VPNSessionProofs

-----------------------------------------------------------------------------
(* The session manager is not disturbed.                                   *)

\* The watchdogs take no step that the session manager could not take.
LEMMA WatchedNextStep ==
    Starts \/ Stops \/ SavesThenStops \/ Saves \/ Quiet \/ Crash
      \/ (\E p \in Pollers : Poll(p)) => Next
  <1>1. CASE Starts
    BY <1>1 DEF Starts, Next, Work, Restore
  <1>2. CASE Stops
    BY <1>2 DEF Stops, Next, Work, Locked
  <1>3. CASE Quiet
    <2>1. CASE \E s \in Sessions : QuietWork(s) \/ Prompts(s) \/ OpenConnect(s)
      BY <2>1 DEF QuietWork, Next, Work, Prompts
    <2>2. CASE \E p \in Pollers : PollSeesDrop(p)
      BY <2>2 DEF Next, Poll
    <2>3. QED
      BY <1>3, <2>1, <2>2 DEF Quiet, Next, User, Restore
  <1>4. CASE SavesThenStops
    BY <1>4 DEF SavesThenStops, Next, Work, Locked
  <1>5. CASE Saves
    BY <1>5 DEF Saves, Next, Work, Prompts, Locked, User
  <1>6. QED
    BY <1>1, <1>2, <1>3, <1>4, <1>5 DEF Next

LEMMA WatchedStep == [WatchedNext]_watchedVars => [Next]_vars
  BY WatchedNextStep DEF WatchedNext, WatchdogSeesDrop, CallerSavesDrop, Poll,
     WatchdogSeesDown, WatchdogLeaves, watchedVars

\* Watchdogs, started, stopped or leaving at any time, add no behaviour to the
\* session manager: every run with them is a run of VPNSession.
THEOREM SessionUndisturbed == WatchedSpec => Spec
  <1>1. WatchedInit => Init
    BY DEF WatchedInit
  <1>2. QED
    BY <1>1, WatchedStep, PTL DEF WatchedSpec, Spec

\* With watchdogs about as well, at most one openconnect runs.
THEOREM OneOpenConnectWatched == WatchedSpec => []AtMostOneOpenConnect
  BY SessionUndisturbed, OneOpenConnect, PTL

\* With watchdogs about as well, sessions follow VPNLifecycle.
THEOREM LifecycleWatched == WatchedSpec => ImplementsLifecycle
  BY SessionUndisturbed, LifecycleImplemented, PTL

-----------------------------------------------------------------------------
(* The flag.                                                               *)

\* Counts are natural numbers and a set flag has its watchdog.
FlagInv == WatchdogTypeOK /\ FlagIsOwned

LEMMA FlagInvStep == FlagInv /\ [WatchedNext]_watchedVars => FlagInv'
  <1> SUFFICES ASSUME FlagInv, [WatchedNext]_watchedVars PROVE FlagInv'
    OBVIOUS
  <1> USE DEF FlagInv, WatchdogTypeOK, FlagIsOwned, WatchdogAlive
  <1>1. CASE StartManagementWatchdog
    <2>1. lost' \in BOOLEAN /\ looking' = looking
      BY <1>1, Zenon DEF StartManagementWatchdog
    <2>2. CASE mgmtWatchdogOn
      BY <1>1, <2>1, <2>2 DEF StartManagementWatchdog
    <2>3. CASE ~mgmtWatchdogOn
      BY <1>1, <2>1, <2>3 DEF StartManagementWatchdog
    <2>4. QED
      BY <2>2, <2>3
  <1>2. CASE StopManagementWatchdog
    BY <1>2 DEF StopManagementWatchdog
  <1>3. CASE UNCHANGED watchdogVars
    BY <1>3 DEF watchdogVars
  <1>4. CASE WatchdogsDie
    BY <1>4 DEF WatchdogsDie
  <1>5. ASSUME NEW p \in Pollers, WatchdogSeesDrop(p) PROVE FlagInv'
    BY <1>5 DEF WatchdogSeesDrop
  <1>6. ASSUME NEW p \in Pollers, CallerSavesDrop(p) PROVE FlagInv'
    <2>1. mgmtWatchdogOn' = FALSE /\ looking' \in SUBSET Pollers
      BY <1>6, Zenon DEF CallerSavesDrop
    <2>2. asleep' \in Nat /\ leaving' \in Nat
      BY <1>6 DEF CallerSavesDrop, ReadTorn
    <2>3. lost' \in BOOLEAN
      BY <1>6, Zenon DEF CallerSavesDrop, ReadTorn
    <2>4. QED
      BY <2>1, <2>2, <2>3
  <1>7. CASE WatchdogSeesDown
    BY <1>7 DEF WatchdogSeesDown
  <1>8. CASE WatchdogLeaves
    <2>1. mgmtWatchdogOn' = FALSE /\ UNCHANGED <<asleep, looking, lost>>
      BY <1>8, Zenon DEF WatchdogLeaves
    <2>2. leaving' \in Nat
      BY <1>8 DEF WatchdogLeaves
    <2>3. QED
      BY <2>1, <2>2
  <1>9. CASE MayReadTorn /\ UNCHANGED looking /\ mgmtWatchdogOn' \in {mgmtWatchdogOn, FALSE}
    <2>1. PICK n \in 0 .. asleep : ReadTorn(n) /\ leaving' = leaving + n
      BY <1>9 DEF MayReadTorn
    <2>2. asleep' \in Nat /\ leaving' \in Nat /\ asleep' + leaving' = asleep + leaving
      BY <2>1 DEF ReadTorn
    <2>3. lost' \in BOOLEAN
      BY <2>1, Zenon DEF ReadTorn
    <2>4. mgmtWatchdogOn' \in BOOLEAN /\ (mgmtWatchdogOn' => mgmtWatchdogOn)
      <3>1. CASE mgmtWatchdogOn' = mgmtWatchdogOn
        BY <3>1
      <3>2. CASE mgmtWatchdogOn' = FALSE
        BY <3>2
      <3>3. QED
        BY <1>9, <3>1, <3>2
    <2>5. QED
      BY <1>9, <2>2, <2>3, <2>4
  <1>10. QED
    BY <1>1, <1>2, <1>3, <1>4, <1>5, <1>6, <1>7, <1>8, <1>9
    DEF WatchedNext, watchedVars, watchdogVars

LEMMA FlagInvInvariant == WatchedSpec => []FlagInv
  <1>1. WatchedInit => FlagInv
    BY Zenon, 0 \in Nat DEF WatchedInit, FlagInv, WatchdogTypeOK, FlagIsOwned
  <1>2. QED
    BY <1>1, FlagInvStep, PTL DEF WatchedSpec

\* The watchdogs' state keeps its types.
THEOREM WatchdogTypeCorrect == WatchedSpec => []WatchdogTypeOK
  <1>1. FlagInv => WatchdogTypeOK
    BY DEF FlagInv
  <1>2. QED
    BY <1>1, FlagInvInvariant, PTL

\* A flag that is set is that of a watchdog that still runs, for any number of
\* sessions, watchdogs and callers of GetVPNState, and across restarts.
THEOREM FlagOwned == WatchedSpec => []FlagIsOwned
  <1>1. FlagInv => FlagIsOwned
    BY DEF FlagInv
  <1>2. QED
    BY <1>1, FlagInvInvariant, PTL

-----------------------------------------------------------------------------
(* The tunnel that is up has its watchdog.                                 *)

\* Only the active session's openconnect runs beside it, and from the moment its
\* tunnel was found it does not return to logging in.
TunnelInv ==
    \A s \in Sessions : Current(s) =>
        /\ Live \subseteq {s}
        /\ connectApplied[s] \in {"nat", "final"} => proc[s] \in Tunnel \cup {"dead"}

\* A tunnel stays one, or openconnect dies.
LEMMA TunnelStays ==
    ASSUME TypeOK, Next, ~Spawn, NEW t \in Sessions, proc[t] \in Tunnel \cup {"dead"}
    PROVE  proc'[t] \in Tunnel \cup {"dead"}
  <1> USE DEF TypeOK, Alive, Tunnel, LoggingIn
  <1>1. CASE UNCHANGED proc
    BY <1>1
  <1>2. CASE KillOpenConnect
    BY <1>2 DEF KillOpenConnect, Newest, Live
  <1>3. ASSUME NEW s \in Sessions, Deliver(s) PROVE proc'[t] \in Tunnel \cup {"dead"}
    BY <1>3 DEF Deliver
  <1>4. ASSUME NEW s \in Sessions, NEW to \in {"asking", "tunnel", "child", "dead"},
               proc[s] \in Alive, proc' = [proc EXCEPT ![s] = to],
               to # "child" => proc[s] \in LoggingIn \/ to = "dead"
        PROVE  proc'[t] \in Tunnel \cup {"dead"}
    BY <1>4
  <1>5. CASE Crash
    BY <1>5 DEF Crash, Live
  <1>6. QED
    BY <1>1, <1>2, <1>3, <1>4, <1>5, NextCases, SessionSteps, OtherSteps

\* finishConnected is entered by a session whose tunnel is up.
LEMMA AppliedChanges ==
    ASSUME TypeOK, TunnelInv, Next, NEW s \in Sessions
    PROVE  /\ Current(s) /\ connectApplied'[s] = "nat" =>
                connectApplied[s] = "nat" \/ (UNCHANGED proc /\ proc[s] \in Tunnel)
           /\ connectApplied'[s] = "final" => connectApplied[s] \in {"nat", "final"}
  <1>0. connectApplied \in [Sessions -> {"new", "nat", "final", "done"}]
    BY DEF TypeOK
  <1>1. CASE UNCHANGED connectApplied
    BY <1>0, <1>1
  <1>2. ASSUME NEW t \in Sessions, FinishStep(t)
        PROVE  /\ Current(s) /\ connectApplied'[s] = "nat" =>
                    connectApplied[s] = "nat" \/ (UNCHANGED proc /\ proc[s] \in Tunnel)
               /\ connectApplied'[s] = "final" => connectApplied[s] \in {"nat", "final"}
    <2>1. CASE FinishEnter(t)
      <3>1. Current(s) => proc[s] \in Tunnel
        BY <2>1 DEF FinishEnter, TunnelReady, TunnelInv, Live, Alive
      <3>2. QED
        BY <1>0, <2>1, <3>1 DEF FinishEnter
    <2>2. CASE FinishAppliesVPNNAT(t)
      BY <1>0, <2>2 DEF FinishAppliesVPNNAT
    <2>3. CASE FinishPublishes(t)
      BY <1>0, <2>3 DEF FinishPublishes
    <2>4. QED
      BY <1>2, <2>1, <2>2, <2>3 DEF FinishStep
  <1>3. CASE Crash
    BY <1>3 DEF Crash
  <1>4. UserStep \/ TimerStep \/ (\E p \in Pollers : Poll(p)) => UNCHANGED connectApplied
    BY DEF UserStep, User, Locked, Connect, Disconnect, BeginTeardown, Forget,
       SubmitVPNInput, SubmitVPNInputBlocks, EndTeardown, Spawn, Publish,
       TimerStep, AutoReconnect, AutoReconnectWakes, AutoReconnectReturns,
       AutoReconnectMoves, AutoReconnectConnects, Restore, RestoreReads, RestoreApplies,
       PollPromotes, PromoteReturns, PromoteMoves, DirectNAT, Poll, PollSeesDrop,
       PollSavesDrop, goVars
  <1>5. ASSUME NEW t \in Sessions,
               SendPassword(t) \/ MonitorStep(t) \/ WatcherStep(t) \/ OpenConnect(t)
        PROVE  UNCHANGED connectApplied
    <2>1. CASE SendPassword(t) \/ OpenConnect(t)
      BY <2>1 DEF SendPassword, OpenConnect, OpenConnectAsks, OpenConnectTunnelUp,
         OpenConnectForks, OpenConnectExits, ProcessMoves, goVars
    <2>2. CASE MonitorStep(t)
      BY <2>2 DEF MonitorStep, MonitorLeaves, MonitorSeesTunnel, MonitorSeesExit,
         MonitorFinished, MonitorTimesOut, Prompts, MonitorSeesPrompt,
         MonitorSavesPrompt, MonitorMoves, FailSession, FailSessionSaves,
         FailSessionAppliesDirectNAT
    <2>3. CASE WatcherStep(t)
      BY <2>3 DEF WatcherStep, WaitReturns, WatcherDecides, WatcherAdopts,
         WatcherLeaves, WatcherMoves, AfterStopAppliesDirectNAT, ScheduleAutoReconnect
    <2>4. QED
      BY <1>5, <2>1, <2>2, <2>3
  <1>6. QED
    BY <1>1, <1>2, <1>3, <1>4, <1>5, NextCases

LEMMA TunnelInvStep ==
    TypeOK /\ OneInv /\ LifeInv /\ TunnelInv /\ [Next]_vars => TunnelInv'
  <1> SUFFICES ASSUME TypeOK, OneInv, LifeInv, TunnelInv, [Next]_vars PROVE TunnelInv'
    OBVIOUS
  <1>1. CASE UNCHANGED vars
    BY <1>1 DEF TunnelInv, Current, Live, vars, lockVars, goVars
  <1>2. CASE Spawn
    <2>1. /\ made + 1 \in Sessions /\ activeVPNSession' = made + 1
          /\ UNCHANGED connectApplied /\ connectApplied[made + 1] = "new"
      <3>1. made + 1 > made
        BY DEF TypeOK
      <3>2. QED
        BY <1>2, <3>1, LifeSpawn DEF LifeInv
    <2>2. Live' \subseteq {made + 1}
      <3>1. Live = {} /\ proc' = [proc EXCEPT ![made + 1] = "login"]
        BY <1>2 DEF Spawn, OneInv, Running
      <3>2. QED
        BY <3>1, <2>1 DEF Live, TypeOK
    <2>3. QED
      BY <2>1, <2>2 DEF TunnelInv, Current
  <1>3. CASE Next /\ ~Spawn
    <2> SUFFICES ASSUME NEW s \in Sessions, Current(s)'
                 PROVE  /\ Live' \subseteq {s}
                        /\ connectApplied'[s] \in {"nat", "final"}
                             => proc'[s] \in Tunnel \cup {"dead"}
      BY DEF TunnelInv
    <2>1. Current(s)
      BY <1>3, LifeOther DEF LifeStep, Current, None, Sessions
    <2>2. Live' \subseteq Live
      BY <1>3, OnlySpawnStarts DEF Ageing, Live
    <2>3. ASSUME connectApplied'[s] \in {"nat", "final"}
          PROVE  proc'[s] \in Tunnel \cup {"dead"}
      <3>1. proc[s] \in Tunnel \cup {"dead"}
        BY <1>3, <2>1, <2>3, AppliedChanges DEF TunnelInv
      <3>2. QED
        BY <1>3, <3>1, TunnelStays
    <2>4. QED
      BY <2>1, <2>2, <2>3 DEF TunnelInv
  <1>4. QED
    BY <1>1, <1>2, <1>3

LEMMA TunnelInvariant == Spec => [](TypeOK /\ LifeInv /\ TunnelInv)
  <1>1. Init => TunnelInv
    BY DEF Init, TunnelInv, Current, None, Sessions
  <1>2. QED
    BY <1>1, TunnelInvStep, TypeCorrect, OneInvInvariant, LifeInvariant, PTL DEF Spec

\* A watchdog that will look again, or the last one lost to a flag or a torn read.
Watched == asleep > 0 \/ lost

\* A torn read takes the last watchdog only with a trace.
LEMMA TornReadIsKept ==
    ASSUME asleep \in Nat, Watched, NEW n \in 0 .. asleep, ReadTorn(n)
    PROVE  Watched'
  <1>1. asleep' = asleep - n /\ lost' = (lost \/ (n > 0 /\ asleep' = 0))
    BY DEF ReadTorn
  <1>2. CASE n > 0 /\ asleep' = 0
    BY <1>1, <1>2, Zenon DEF Watched
  <1>3. CASE asleep' # 0
    BY <1>1, <1>3 DEF Watched
  <1>4. CASE n = 0 /\ asleep' = 0
    <2>1. asleep = 0
      BY <1>1, <1>4
    <2>2. ~(asleep > 0)
      BY <2>1
    <2>3. QED
      BY <1>1, <2>2, Zenon DEF Watched
  <1>5. QED
    BY <1>2, <1>3, <1>4

\* What is about to be saved as connected is watched, and what is saved; a service that
\* is being restored is only once the rules of the VPN are applied.
WatchInv ==
    /\ \A s \in Sessions :
         Current(s) /\ connectApplied[s] = "final" /\ s \in Live => Watched
    /\ stateFile.phase = "connected" /\ Running /\ boot \in {"running", "direct"} => Watched

\* The kinds of step that start no watchdog.
LEMMA QuietCases ==
    Stops \/ SavesThenStops \/ Saves \/ Quiet =>
        \/ UserStep \/ AutoReconnect \/ PollPromotes \/ PromoteReturns \/ DirectNAT
        \/ RestoreReads \/ (boot = "direct" /\ RestoreApplies)
        \/ \E s \in Sessions : \/ SendPassword(s) \/ MonitorStep(s) \/ WatcherStep(s)
                               \/ FinishEnter(s) \/ FinishPublishes(s) \/ OpenConnect(s)
        \/ \E p \in Pollers : Poll(p)
  <1>1. CASE Stops
    BY <1>1 DEF Stops, MonitorStep
  <1>2. CASE SavesThenStops \/ Saves
    BY <1>2 DEF SavesThenStops, Saves, UserStep, User, Locked, MonitorStep, Prompts,
       WatcherStep
  <1>3. CASE Quiet
    BY <1>3 DEF Quiet, QuietWork, UserStep, User, MonitorStep, Prompts, WatcherStep, Poll
  <1>4. QED
    BY <1>1, <1>2, <1>3

\* What leads to a saved connection without a start of a watchdog.
QuietPublishing ==
    /\ \A s \in Sessions : connectApplied'[s] = "final" => connectApplied[s] = "final"
    /\ stateFile'.phase = "connected" =>
         \/ stateFile.phase = "connected"
         \/ \E s \in Sessions : Current(s) /\ connectApplied[s] = "final"
    /\ boot' \in {"running", "direct"} =>
         \/ boot \in {"running", "direct"}
         \/ UNCHANGED <<stateFile, proc>> /\ ~(stateFile.phase = "connected" /\ Running)
         \/ stateFile'.phase = "connected" =>
              \E s \in Sessions : Current(s) /\ connectApplied[s] = "final"

LEMMA QuietPublishes ==
    TypeOK /\ (Stops \/ SavesThenStops \/ Saves \/ Quiet) => QuietPublishing
  <1> SUFFICES ASSUME TypeOK, Stops \/ SavesThenStops \/ Saves \/ Quiet
               PROVE  QuietPublishing
    OBVIOUS
  <1> USE DEF QuietPublishing, TypeOK, SaveDown, SaveVPNState, goVars, hostVars, fileVars
  <1>1. CASE UserStep
    BY <1>1 DEF UserStep, User, Locked, Connect, Disconnect, BeginTeardown, Forget,
       SubmitVPNInput, SubmitVPNInputBlocks, EndTeardown, Spawn, Publish
  <1>2. CASE RestoreReads \/ (boot = "direct" /\ RestoreApplies)
    BY <1>2 DEF RestoreReads, RestoreApplies
  <1>3. CASE AutoReconnect \/ PollPromotes \/ PromoteReturns \/ DirectNAT
    BY <1>3 DEF AutoReconnect, AutoReconnectWakes, AutoReconnectReturns,
       AutoReconnectMoves, AutoReconnectConnects, BeginTeardown, Forget,
       PollPromotes, PromoteReturns, PromoteMoves, DirectNAT
  <1>4. CASE \E p \in Pollers : Poll(p)
    BY <1>4 DEF Poll, PollSeesDrop, PollSavesDrop
  <1>5. ASSUME NEW s \in Sessions, SendPassword(s) \/ OpenConnect(s) PROVE QuietPublishing
    BY <1>5 DEF SendPassword, OpenConnect, OpenConnectAsks, OpenConnectTunnelUp,
       OpenConnectForks, OpenConnectExits, ProcessMoves
  <1>6. ASSUME NEW s \in Sessions, MonitorStep(s) PROVE QuietPublishing
    BY <1>6 DEF MonitorStep, MonitorLeaves, MonitorSeesTunnel, MonitorSeesExit,
       MonitorFinished, MonitorTimesOut, Prompts, MonitorSeesPrompt,
       MonitorSavesPrompt, MonitorMoves, FailSession, FailSessionSaves,
       FailSessionAppliesDirectNAT
  <1>7. ASSUME NEW s \in Sessions, FinishEnter(s) \/ FinishPublishes(s)
        PROVE  QuietPublishing
    BY <1>7 DEF FinishEnter, FinishPublishes
  <1>8. ASSUME NEW s \in Sessions, WatcherStep(s) PROVE QuietPublishing
    BY <1>8 DEF WatcherStep, WaitReturns, WatcherDecides, WatcherAdopts,
       WatcherLeaves, WatcherMoves, HandleStopped, AfterStopAppliesDirectNAT,
       ScheduleAutoReconnect
  <1>9. QED
    BY <1>1, <1>2, <1>3, <1>4, <1>5, <1>6, <1>7, <1>8, QuietCases

\* What a step of the session manager that starts no watchdog leaves to be watched
\* was watched before.
LEMMA QuietStaysWatched ==
    ASSUME TypeOK, LifeInv, TunnelInv, WatchInv, Next, Watched => Watched',
           Stops \/ SavesThenStops \/ Saves \/ Quiet
    PROVE  WatchInv'
  <1>0. QuietPublishing
    BY QuietPublishes
  <1>1. CASE Spawn
    <2>1. made + 1 > made /\ made + 1 \in Sessions /\ activeVPNSession' = made + 1
          /\ UNCHANGED connectApplied
      BY <1>1, LifeSpawn DEF TypeOK
    <2>2. \A s \in Sessions : Current(s)' => connectApplied'[s] = "new"
      BY <2>1 DEF LifeInv, Current
    <2>3. stateFile'.phase = "disconnected"
      BY <1>1 DEF Spawn, SaveDown, SaveVPNState
    <2>4. QED
      BY <2>2, <2>3 DEF WatchInv
  <1>2. CASE ~Spawn
    <2>1. Live' \subseteq Live
      BY <1>2, OnlySpawnStarts DEF Ageing, Live
    <2>2. \A s \in Sessions : Current(s)' => Current(s)
      BY <1>2, LifeOther DEF LifeStep, Current, None, Sessions
    <2>3. ASSUME stateFile'.phase = "connected", Live' # {}, boot' \in {"running", "direct"}
          PROVE  Watched
      <3>1. Live # {}
        BY <2>1, <2>3
      <3>2. CASE \E s \in Sessions : Current(s) /\ connectApplied[s] = "final"
        BY <3>1, <3>2 DEF TunnelInv, WatchInv
      <3>3. CASE /\ stateFile.phase = "connected"
                 /\ ~\E s \in Sessions : Current(s) /\ connectApplied[s] = "final"
        BY <2>3, <3>1, <3>3, <1>0 DEF QuietPublishing, WatchInv, Running
      <3>4. QED
        BY <1>0, <2>3, <3>2, <3>3 DEF QuietPublishing
    <2>4. QED
      BY <2>1, <2>2, <2>3, <1>0 DEF QuietPublishing, WatchInv, Running
  <1>3. QED
    BY <1>1, <1>2

LEMMA WatchInvStep ==
    TypeOK /\ LifeInv /\ TunnelInv /\ FlagInv /\ WatchInv /\ [WatchedNext]_watchedVars
      => WatchInv'
  <1> SUFFICES ASSUME TypeOK, LifeInv, TunnelInv, FlagInv, WatchInv,
                      [WatchedNext]_watchedVars
               PROVE  WatchInv'
    OBVIOUS
  <1>0. asleep \in Nat
    BY DEF FlagInv, WatchdogTypeOK
  <1>1. CASE StartManagementWatchdog
    <2>1. asleep' \in Nat /\ lost' = (asleep' = 0)
      BY <1>0, <1>1 DEF StartManagementWatchdog
    <2>2. asleep' > 0 \/ asleep' = 0
      BY <2>1
    <2>3. Watched'
      BY <2>1, <2>2, Zenon DEF Watched
    <2>4. QED
      BY <2>3, Zenon DEF WatchInv
  <1>2. CASE (Stops /\ StopManagementWatchdog) \/ (Quiet /\ UNCHANGED watchdogVars)
    <2>1. Next /\ UNCHANGED <<asleep, lost>>
      <3>1. UNCHANGED <<asleep, lost>>
        BY <1>2 DEF StopManagementWatchdog, watchdogVars
      <3>2. Next
        BY <1>2, WatchedNextStep
      <3>3. QED
        BY <3>1, <3>2
    <2>2. QED
      BY <1>2, <2>1, QuietStaysWatched DEF Watched
  <1>3. CASE Crash /\ WatchdogsDie
    <2>1. boot' = "restore" /\ \A s \in Sessions : ~Current(s)'
      BY <1>3 DEF Crash, Current, None, Sessions
    <2>2. QED
      BY <2>1 DEF WatchInv
  <1>4. CASE WatchdogSeesDown
    <2>1. UNCHANGED vars /\ stateFile.phase # "connected" /\ ReportedPhase # "connected"
      BY <1>4 DEF WatchdogSeesDown
    <2>2. ASSUME NEW s \in Sessions, Current(s), connectApplied[s] = "final", s \in Live
          PROVE  FALSE
      <3>1. Running /\ TunnelReady
        BY <2>2 DEF TunnelInv, TunnelReady, Running, Live, Alive, Tunnel, LoggingIn
      <3>2. stateFile.phase \in Phases
        BY <2>2 DEF LifeInv, TypeOK, Current, TornFile, None, Sessions
      <3>3. QED
        BY <2>1, <3>1, <3>2 DEF ReportedPhase, Phases, InProgress
    <2>3. QED
      BY <2>1, <2>2 DEF WatchInv, Current, Live, Running, vars, lockVars, fileVars, goVars
  <1>5. ASSUME NEW p \in Pollers, WatchdogSeesDrop(p) PROVE WatchInv'
    <2>1. ~Running /\ UNCHANGED proc
      BY <1>5 DEF WatchdogSeesDrop, PollSeesDrop
    <2>2. Live' = {}
      BY <2>1 DEF Running, Live
    <2>3. QED
      BY <2>2 DEF WatchInv, Running
  <1>6. ASSUME NEW p \in Pollers, CallerSavesDrop(p) PROVE WatchInv'
    <2>1. stateFile'.phase = "disconnected" /\ UNCHANGED <<lockVars, goVars, proc>>
      BY <1>6 DEF CallerSavesDrop, PollSavesDrop, SaveDown, SaveVPNState
    <2>2. Watched => Watched'
      BY <1>0, <1>6, TornReadIsKept DEF CallerSavesDrop
    <2>3. QED
      BY <2>1, <2>2 DEF WatchInv, Current, Live, lockVars, goVars
  <1>7. CASE WatchdogLeaves \/ UNCHANGED watchedVars
    <2>1. UNCHANGED <<vars, asleep, lost>>
      BY <1>7 DEF WatchdogLeaves, watchedVars, watchdogVars
    <2>2. QED
      BY <2>1 DEF WatchInv, Watched, Current, Live, Running, vars, lockVars, fileVars, goVars
  <1>8. CASE (SavesThenStops \/ Saves) /\ MayReadTorn
    <2>1. Watched => Watched'
      BY <1>0, <1>8, TornReadIsKept DEF MayReadTorn
    <2>2. Next
      BY <1>8, WatchedNextStep
    <2>3. QED
      BY <1>8, <2>1, <2>2, QuietStaysWatched
  <1>9. QED
    BY <1>1, <1>2, <1>3, <1>4, <1>5, <1>6, <1>7, <1>8 DEF WatchedNext

\* A tunnel that is up and saved as connected has a watchdog that will look again, for
\* any number of sessions, watchdogs, callers of GetVPNState and restarts, unless its
\* start met a watchdog already on its way out or the last one read state.json torn.
THEOREM ConnectedWatched == WatchedSpec => []ConnectedIsWatched
  <1>1. WatchedInit => WatchInv
    BY DEF WatchedInit, Init, WatchInv
  <1>2. WatchInv => ConnectedIsWatched
    BY DEF WatchInv, Watched, ConnectedIsWatched
  <1>3. QED
    BY <1>1, <1>2, WatchInvStep, SessionUndisturbed, TunnelInvariant, FlagInvInvariant, PTL
       DEF WatchedSpec
=============================================================================
