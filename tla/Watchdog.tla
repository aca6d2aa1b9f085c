------------------------------ MODULE Watchdog ------------------------------
(***************************************************************************)
(* The management watchdogs of src/handlers/routing.go beside the session  *)
(* manager that starts and stops them.                                     *)
(*                                                                         *)
(* Stopping a watchdog only clears mgmtWatchdogOn, which no watchdog reads:*)
(* a watchdog ends when GetVPNState tells it that the VPN is down, and     *)
(* clears the flag then, whoever has set it since.  Watchdogs differ in    *)
(* nothing that matters here, so they are counted.                         *)
(***************************************************************************)
EXTENDS VPNSession

CONSTANT MaxWatchdogs   \* bound: watchdogs alive at once

ASSUME WatchdogAssumption == MaxWatchdogs \in Nat \ {0}

VARIABLES
    mgmtWatchdogOn,
    asleep,    \* watchdogs between two looks at the VPN's state
    looking,   \* callers of GetVPNState that are a watchdog about to save a drop
    leaving,   \* watchdogs that saw the VPN down, before the deferred reset
    lost       \* history: the last start met only watchdogs on their way out, or
               \* the last of them has read state.json half-written since

watchdogVars == <<mgmtWatchdogOn, asleep, looking, leaving, lost>>
watchedVars == <<vars, watchdogVars>>

WatchdogTypeOK ==
    /\ mgmtWatchdogOn \in BOOLEAN /\ lost \in BOOLEAN
    /\ asleep \in Nat /\ leaving \in Nat
    /\ looking \in SUBSET Pollers

WatchedInit ==
    /\ Init
    /\ mgmtWatchdogOn = FALSE /\ lost = FALSE
    /\ asleep = 0 /\ leaving = 0 /\ looking = {}

-----------------------------------------------------------------------------
StartManagementWatchdog ==
    /\ IF mgmtWatchdogOn
         THEN UNCHANGED <<mgmtWatchdogOn, asleep>>
         ELSE /\ asleep + leaving < MaxWatchdogs
              /\ mgmtWatchdogOn' = TRUE
              /\ asleep' = asleep + 1
    /\ lost' = (asleep' = 0)
    /\ UNCHANGED <<looking, leaving>>

StopManagementWatchdog ==
    mgmtWatchdogOn' = FALSE /\ UNCHANGED <<asleep, looking, leaving, lost>>

\* While state.json is being saved n watchdogs read it: what they read does not
\* parse, and GetVPNState tells them that the VPN is down.
ReadTorn(n) ==
    /\ asleep' = asleep - n
    /\ lost' = (lost \/ (n > 0 /\ asleep' = 0))
MayReadTorn ==
    \E n \in 0 .. asleep : ReadTorn(n) /\ leaving' = leaving + n

\* Mutant: the watchdog goes by what was saved, not by what runs.
WatchdogReadsFile ==
    /\ asleep > 0 /\ stateFile.phase # "connected"
    /\ asleep' = asleep - 1 /\ leaving' = leaving + 1
    /\ UNCHANGED <<vars, mgmtWatchdogOn, looking, lost>>

\* Mutant: the watchdog waits for "disconnected".
WatchdogSeesDisconnected ==
    /\ asleep > 0 /\ stateFile.phase = "disconnected" /\ ~Running
    /\ asleep' = asleep - 1 /\ leaving' = leaving + 1
    /\ UNCHANGED <<vars, mgmtWatchdogOn, looking, lost>>

\* GetVPNState tells a watchdog of a VPN that is down, and has not to save it.
WatchdogSeesDown ==
    /\ asleep > 0 /\ ReportedPhase # "connected" /\ stateFile.phase # "connected"
    /\ asleep' = asleep - 1 /\ leaving' = leaving + 1
    /\ UNCHANGED <<vars, mgmtWatchdogOn, looking, lost>>

\* The caller of GetVPNState that sees the drop is a watchdog.
WatchdogSeesDrop(p) ==
    /\ asleep > 0 /\ PollSeesDrop(p)
    /\ asleep' = asleep - 1 /\ looking' = looking \cup {p}
    /\ UNCHANGED <<mgmtWatchdogOn, leaving, lost>>

CallerSavesDrop(p) ==
    /\ PollSavesDrop(p)
    /\ mgmtWatchdogOn' = FALSE
    /\ looking' = looking \ {p}
    /\ \E n \in 0 .. asleep :
         /\ ReadTorn(n)
         /\ leaving' = leaving + n + IF p \in looking THEN 1 ELSE 0

\* Mutant: the watchdog that leaves resets nothing.
LeavesFlagAlone ==
    /\ leaving > 0 /\ leaving' = leaving - 1
    /\ UNCHANGED <<vars, mgmtWatchdogOn, asleep, looking, lost>>

\* The deferred reset.
WatchdogLeaves ==
    /\ leaving > 0 /\ leaving' = leaving - 1
    /\ mgmtWatchdogOn' = FALSE
    /\ UNCHANGED <<vars, asleep, looking, lost>>

WatchdogsDie ==
    /\ mgmtWatchdogOn' = FALSE /\ asleep' = 0 /\ looking' = {} /\ leaving' = 0
    /\ lost' = FALSE

-----------------------------------------------------------------------------
(* The session manager's steps, with what each does to the watchdogs.      *)

\* finishConnected, once the VPN's rules are applied and before the session is
\* checked again and saved; restoreVPNState.
Starts ==
    \/ \E s \in Sessions : FinishAppliesVPNNAT(s)
    \/ boot = "vpn" /\ RestoreApplies

\* failSession after it has released vpnMu.
Stops == \E s \in Sessions : FailSessionAppliesDirectNAT(s)

\* The steps that save state.json; those of disconnectLocked and of
\* handleOpenConnectStoppedLocked stop the watchdog then.
SavesThenStops ==
    \/ EndTeardown \/ Spawn
    \/ \E s \in Sessions : Current(s) /\ WatcherLeaves(s)

Saves ==
    \/ Publish \/ SubmitVPNInput
    \/ \E s \in Sessions :
         \/ FailSessionSaves(s)
         \/ Current(s) /\ (MonitorSavesPrompt(s) \/ FinishPublishes(s))

QuietWork(s) ==
    \/ SendPassword(s)
    \/ MonitorLeaves(s) \/ MonitorSeesTunnel(s) \/ MonitorSeesExit(s)
    \/ MonitorFinished(s) \/ MonitorTimesOut(s) \/ MonitorSeesPrompt(s)
    \/ FailSession(s) \/ FinishEnter(s)
    \/ WaitReturns(s) \/ WatcherDecides(s) \/ WatcherAdopts(s)
    \/ ~Current(s) /\ (MonitorSavesPrompt(s) \/ FinishPublishes(s) \/ WatcherLeaves(s))
    \/ AfterStopAppliesDirectNAT(s) \/ ScheduleAutoReconnect(s)

Quiet ==
    \/ Connect \/ Disconnect \/ SubmitVPNInputBlocks \/ AutoReconnect
    \/ RestoreReads \/ (boot = "direct" /\ RestoreApplies)
    \/ PollPromotes \/ PromoteReturns \/ DirectNAT
    \/ \E s \in Sessions : QuietWork(s) \/ OpenConnect(s)
    \/ \E p \in Pollers : PollSeesDrop(p)

WatchedNext ==
    \/ Starts /\ StartManagementWatchdog
    \/ Stops /\ StopManagementWatchdog
    \/ SavesThenStops /\ mgmtWatchdogOn' = FALSE /\ MayReadTorn /\ UNCHANGED looking
    \/ Saves /\ MayReadTorn /\ UNCHANGED <<mgmtWatchdogOn, looking>>
    \/ Quiet /\ UNCHANGED watchdogVars
    \/ Crash /\ WatchdogsDie
    \/ \E p \in Pollers : WatchdogSeesDrop(p) \/ CallerSavesDrop(p)
    \/ WatchdogSeesDown \/ WatchdogLeaves

WatchedSpec == WatchedInit /\ [][WatchedNext]_watchedVars

\* A watchdog wakes every thirty seconds at the latest and is scheduled; SF only
\* because the bound MaxDirect may disable the save again and again.
WatchdogFairness ==
    /\ WF_watchedVars(WatchdogSeesDown)
    /\ WF_watchedVars(\E p \in Pollers : WatchdogSeesDrop(p))
    /\ \A p \in Pollers : SF_watchedVars(CallerSavesDrop(p))
    /\ WF_watchedVars(WatchdogLeaves)

WatchedUntimedSpec == WatchedSpec /\ GoroutineFairness /\ WatchdogFairness

-----------------------------------------------------------------------------
WatchdogAlive == asleep + leaving > 0 \/ looking # {}

\* A flag that keeps a watchdog from being started is that of one that still
\* runs, however starts, stops and the resets of watchdogs that leave late are
\* interleaved: no flag outlives its watchdogs and keeps the next connection,
\* for good, from having one.
FlagIsOwned == mgmtWatchdogOn => WatchdogAlive

\* A tunnel that is up and saved as connected has a watchdog that will look
\* again, although starting one is skipped when the flag of an earlier session's is
\* still set and a stop may clear the flag of a later one's.  There are two ways to
\* be without: its start met a watchdog already on its way out, or the watchdog has
\* read state.json while it was saved, be it by the save that follows its start.
ConnectedIsWatched ==
    stateFile.phase = "connected" /\ Running /\ boot = "running" => asleep > 0 \/ lost

\* No watchdog is left when the VPN stays down, whether its stop came early,
\* late or never: it does not depend on the flag.
WatchdogsEnd ==
    <>[](ReportedPhase # "connected") => <>[](~WatchdogAlive)
=============================================================================
