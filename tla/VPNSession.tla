----------------------------- MODULE VPNSession -----------------------------
(***************************************************************************)
(* The OpenConnect session manager of src/handlers/vpn.go.                 *)
(*                                                                         *)
(* Sessions (vpnConn values) are numbered in the order StartConnect makes  *)
(* them; None is a nil session.  Each has an openconnect process and three *)
(* goroutines (password writer, monitorVPNSession, watchOpenConnectProcess)*)
(* that meet the HTTP handlers, the lockless GetVPNState, the deferred     *)
(* ApplyDirectNAT goroutines and the auto-reconnect timer.  One action is  *)
(* one critical section of vpnMu, or one unlocked stretch between two of   *)
(* them; a section during which others can observe a half-done change      *)
(* (kill, save, spawn) is split, and vpnMu then names its owner.           *)
(***************************************************************************)
EXTENDS Naturals

CONSTANTS
    MaxSessions,   \* bound: StartConnect calls that reach cmd.Start
    MaxDirect,     \* bound: ApplyDirectNAT goroutines pending at once
    MaxCrashes,    \* bound: restarts of the service
    Pollers,       \* concurrent callers of GetVPNState
    SavePassword,  \* the profile's password is saved
    AllowFork,     \* openconnect may leave its parent process
    Survives       \* openconnect outlives a crash of the service

ASSUME ConstantsAssumption ==
    /\ MaxSessions \in Nat \ {0}
    /\ MaxDirect \in Nat /\ MaxCrashes \in Nat
    /\ SavePassword \in BOOLEAN /\ AllowFork \in BOOLEAN /\ Survives \in BOOLEAN

Sessions == 1 .. MaxSessions
None == 0

VARIABLES
    vpnMu,             \* who holds the mutex across a split section
    activeVPNSession,
    made,              \* sessions made so far
    stateFile,         \* state.json: its phase, and whose it is while up
    proc,              \* each session's openconnect, see Alive below
    copier,            \* the goroutine cmd.Start makes for the stdin pipe
    pw,                \* the password goroutine; "sent" is passwordSent
    inputSent,         \* of the active session
    monitor, watcher,  \* program counters of the session's goroutines
    connectApplied,    \* the sync.Once of finishConnected and where it is
    after,             \* goroutine of handleOpenConnectStoppedLocked
    autoReconnect,     \* autoReconnecting and its timer
    poll,              \* per poller: it is about to save a drop it saw
    promote,           \* a promoteActiveSession goroutine is pending
    direct, nat,       \* pending ApplyDirectNAT goroutines; rules in force
    boot,              \* restoreVPNState
    crashes

lockVars == <<vpnMu, activeVPNSession, made>>
stdinVars == <<copier, pw, inputSent>>
goVars == <<monitor, watcher, connectApplied, after>>
fileVars == <<stateFile, boot>>
hostVars == <<autoReconnect, poll, promote, crashes>>
natVars == <<direct, nat>>
vars == <<lockVars, fileVars, proc, stdinVars, goVars, hostVars, natVars>>

Holders == {"connect", "publish", "disconnect", "fail", "submit"}

\* openconnect logging in, having asked for a token, having got one, with its
\* tunnel up, and the same after leaving its parent process.
LoggingIn == {"login", "asking", "answered"}
ParentAlive == LoggingIn \cup {"tunnel"}
Tunnel == {"tunnel", "child"}
Alive == LoggingIn \cup Tunnel

InProgress == {"connecting", "need_input"}
Phases == InProgress \cup {"disconnected", "connected", "error"}

\* What is left of a save that a restart of the service interrupts.
TornFile == [phase |-> "torn", sess |-> None]

TypeOK ==
    /\ vpnMu \in Holders \cup {"free"}
    /\ activeVPNSession \in Sessions \cup {None}
    /\ made \in 0 .. MaxSessions
    /\ stateFile \in [phase : Phases, sess : Sessions \cup {None}] \cup {TornFile}
    /\ proc \in [Sessions -> {"none", "dead"} \cup Alive]
    /\ copier \in [Sessions -> {"reading", "broken", "closed"}]
    /\ pw \in [Sessions -> {"off", "writing", "sent"}]
    /\ inputSent \in BOOLEAN
    /\ monitor \in [Sessions -> {"off", "tick", "prompt", "finish", "fail",
                                 "failing", "direct", "done"}]
    /\ watcher \in [Sessions -> {"off", "wait", "returned", "adopt", "stopped",
                                 "pid", "done"}]
    /\ connectApplied \in [Sessions -> {"new", "nat", "final", "done"}]
    /\ after \in [Sessions -> {"none", "direct", "auto", "schedule"}]
    /\ autoReconnect \in {"idle", "sleep", "go", "call"}
    /\ poll \in [Pollers -> BOOLEAN]
    /\ promote \in BOOLEAN
    /\ direct \in 0 .. MaxDirect
    /\ nat \in {"direct", "vpn"}
    /\ boot \in {"running", "restore", "vpn", "direct"}
    /\ crashes \in 0 .. MaxCrashes

Free == vpnMu = "free"
Current(s) == activeVPNSession = s
Live == {s \in Sessions : proc[s] \in Alive}
Running == Live # {}
TunnelReady == \E s \in Sessions : proc[s] \in Tunnel

\* os.WriteFile truncates state.json before it writes it: a restoreVPNState that
\* reads in between takes the VPN for disconnected.
SaveVPNState(phase, s) ==
    /\ stateFile' = [phase |-> phase, sess |-> s]
    /\ boot' \in {boot} \cup IF boot = "restore" THEN {"direct"} ELSE {}
SaveDownNoPhase(phase) == SaveVPNState("", None)   \* mutant of SaveDown
SaveDown(phase) == SaveVPNState(phase, None)   \* the profile is not tracked
GoApplyDirectNAT == direct < MaxDirect /\ direct' = direct + 1

\* pgrep -n, kill, kill -9 and the tracked pid: the newest openconnect dies.
Newest(s) == s \in Live /\ \A t \in Live : t <= s
KillOpenConnect ==
    proc' = [s \in Sessions |-> IF Newest(s) THEN "dead" ELSE proc[s]]

Init ==
    /\ vpnMu = "free" /\ activeVPNSession = None /\ made = 0
    /\ stateFile = [phase |-> "disconnected", sess |-> None]
    /\ proc = [s \in Sessions |-> "none"]
    /\ copier = [s \in Sessions |-> "reading"]
    /\ pw = [s \in Sessions |-> "off"]
    /\ inputSent = FALSE
    /\ monitor = [s \in Sessions |-> "off"]
    /\ watcher = [s \in Sessions |-> "off"]
    /\ connectApplied = [s \in Sessions |-> "new"]
    /\ after = [s \in Sessions |-> "none"]
    /\ autoReconnect = "idle"
    /\ poll = [p \in Pollers |-> FALSE]
    /\ promote = FALSE
    /\ direct = 0 /\ nat = "direct"
    /\ boot = "running" /\ crashes = 0

-----------------------------------------------------------------------------
(* Connect, Disconnect: disconnectLocked under the caller's lock.          *)

Forget(op) ==
    /\ Free
    /\ vpnMu' = op
    /\ activeVPNSession' = None
    /\ copier' = [s \in Sessions |-> IF Current(s) THEN "closed" ELSE copier[s]]
    /\ UNCHANGED <<made, fileVars, pw, inputSent, goVars, natVars>>

\* Mutants of BeginTeardown: kill nothing; kill only what an active session owns.
TeardownKillsNothing(op) == Forget(op) /\ UNCHANGED proc
TeardownOfActiveOnly(op) ==
    Forget(op) /\ IF activeVPNSession # None THEN KillOpenConnect ELSE UNCHANGED proc

\* Forget the session, close its stdin, kill what runs.
BeginTeardown(op) == Forget(op) /\ KillOpenConnect

\* Mutant: no disconnectLocked before a new connection.
ConnectBesides ==
    /\ made < MaxSessions /\ Free /\ vpnMu' = "connect"
    /\ UNCHANGED <<activeVPNSession, made, fileVars, proc, stdinVars, goVars,
                   hostVars, natVars>>

Connect ==
    /\ made < MaxSessions
    /\ BeginTeardown("connect")
    /\ UNCHANGED hostVars

Disconnect == BeginTeardown("disconnect") /\ UNCHANGED hostVars

\* Save "disconnected", start ApplyDirectNAT; also the end of a StartConnect
\* whose cmd.Start fails.
EndTeardown ==
    /\ vpnMu \in {"disconnect", "connect"}
    /\ vpnMu' = "free"
    /\ SaveDown("disconnected")
    /\ GoApplyDirectNAT
    /\ UNCHANGED <<activeVPNSession, made, proc, stdinVars, goVars, hostVars, nat>>

\* The same end of disconnectLocked, then cmd.Start succeeds.
Spawn ==
    LET s == made + 1 IN
    /\ vpnMu = "connect" /\ made < MaxSessions
    /\ vpnMu' = "publish"
    /\ made' = s
    /\ activeVPNSession' = s
    /\ SaveDown("disconnected")
    /\ GoApplyDirectNAT
    /\ proc' = [proc EXCEPT ![s] = "login"]
    /\ inputSent' = FALSE
    /\ UNCHANGED <<copier, pw, goVars, hostVars, nat>>

\* Save "connecting", start the session's goroutines, return from StartConnect.
Publish ==
    LET s == activeVPNSession IN
    /\ vpnMu = "publish"
    /\ vpnMu' = "free"
    /\ SaveVPNState("connecting", s)
    /\ pw' = [pw EXCEPT ![s] = "writing"]
    /\ monitor' = [monitor EXCEPT ![s] = "tick"]
    /\ watcher' = [watcher EXCEPT ![s] = "wait"]
    /\ UNCHANGED <<activeVPNSession, made, proc, copier, inputSent,
                   connectApplied, after, hostVars, natVars>>

-----------------------------------------------------------------------------
(* The stdin pipe: the password goroutine and SubmitVPNInput.              *)

\* The copier hands a line on to openconnect, or stops at EPIPE when nobody
\* holds the other end; a child may or may not have kept it open.
Deliver(s) ==
    \/ /\ proc[s] \in Alive
       /\ proc' = [proc EXCEPT ![s] = IF @ = "asking" THEN "answered" ELSE @]
       /\ UNCHANGED copier
    \/ /\ proc[s] \in {"child", "dead"}
       /\ copier' = [copier EXCEPT ![s] = "broken"]
       /\ UNCHANGED proc

\* Fprintf of the password blocks while nobody reads a pipe that nobody closed;
\* then passwordSent is set under the lock (it is never read of a session that
\* is no longer current).
SendPassword(s) ==
    /\ Free /\ pw[s] = "writing" /\ copier[s] # "broken"
    /\ pw' = [pw EXCEPT ![s] = "sent"]
    /\ IF copier[s] = "reading" THEN Deliver(s) ELSE UNCHANGED <<proc, copier>>
    /\ UNCHANGED <<lockVars, fileVars, inputSent, goVars, hostVars, natVars>>

AcceptsInput == Free /\ activeVPNSession # None /\ stateFile.phase \in InProgress

SubmitVPNInput ==
    LET s == activeVPNSession IN
    /\ AcceptsInput /\ copier[s] = "reading"
    /\ Deliver(s)
    /\ inputSent' = TRUE
    /\ SaveVPNState("connecting", s)
    /\ UNCHANGED <<lockVars, pw, goVars, hostVars, natVars>>

\* Nobody reads the pipe any more and only disconnectLocked would close it:
\* the write, and with it vpnMu, is held for good.
SubmitVPNInputBlocks ==
    /\ AcceptsInput /\ copier[activeVPNSession] = "broken"
    /\ vpnMu' = "submit"
    /\ UNCHANGED <<activeVPNSession, made, fileVars, proc, stdinVars, goVars,
                   hostVars, natVars>>

-----------------------------------------------------------------------------
(* monitorVPNSession: what one tick may find, then failSession.            *)

MonitorGoes(s, to) == monitor' = [monitor EXCEPT ![s] = to]

\* A step that only moves the monitor.
MonitorMoves(s, from, to) ==
    /\ monitor[s] = from /\ MonitorGoes(s, to)
    /\ UNCHANGED <<lockVars, fileVars, proc, stdinVars, watcher, connectApplied,
                   after, hostVars, natVars>>

MonitorLeaves(s) == Free /\ ~Current(s) /\ MonitorMoves(s, "tick", "done")

MonitorSeesTunnel(s) ==
    Free /\ Current(s) /\ TunnelReady /\ MonitorMoves(s, "tick", "finish")

\* No openconnect is left to wait for.
MonitorSeesExit(s) ==
    Free /\ Current(s) /\ ~TunnelReady /\ ~Running /\ MonitorMoves(s, "tick", "fail")

\* Mutant: the deadline is not applied while a token is awaited.
MonitorTimesOutUnlessAsking(s) ==
    /\ Free /\ Current(s) /\ ~TunnelReady /\ proc[s] \in ParentAlive \ {"asking"}
    /\ MonitorMoves(s, "tick", "fail")

MonitorTimesOut(s) ==
    /\ Free /\ Current(s) /\ ~TunnelReady /\ proc[s] \in ParentAlive
    /\ MonitorMoves(s, "tick", "fail")

\* detectTokenPrompt finds a prompt, answered or not, in the log's tail.
PromptInLog(s) == proc[s] \in {"asking", "answered"}

\* Mutant: the test of inputSent is inverted.
MonitorSeesPromptAfterInput(s) ==
    /\ Free /\ Current(s) /\ PromptInLog(s)
    /\ ~TunnelReady /\ pw[s] = "sent" /\ inputSent
    /\ MonitorMoves(s, "tick", "prompt")

\* A prompt is in the log and no token was sent, as read without the lock.
MonitorSeesPrompt(s) ==
    /\ Free /\ Current(s) /\ PromptInLog(s)
    /\ ~TunnelReady /\ pw[s] = "sent" /\ ~inputSent
    /\ MonitorMoves(s, "tick", "prompt")

\* Mutant: the session is not checked again under the lock.
MonitorSavesAnyPrompt(s) ==
    /\ Free /\ monitor[s] = "prompt" /\ MonitorGoes(s, "tick")
    /\ SaveVPNState("need_input", s)
    /\ UNCHANGED <<lockVars, proc, stdinVars, watcher, connectApplied, after,
                   hostVars, natVars>>

MonitorSavesPrompt(s) ==
    /\ Free /\ monitor[s] = "prompt" /\ MonitorGoes(s, "tick")
    /\ IF Current(s) THEN SaveVPNState("need_input", s) ELSE UNCHANGED fileVars
    /\ UNCHANGED <<lockVars, proc, stdinVars, watcher, connectApplied, after,
                   hostVars, natVars>>

\* finishConnected returned, whichever caller was the one to run it.
MonitorFinished(s) ==
    /\ connectApplied[s] = "done" \/ ~TunnelReady
    /\ MonitorMoves(s, "finish", "done")

\* Mutant: the failed session's process is left running.
FailSessionWithoutKill(s) ==
    /\ Free /\ monitor[s] = "fail"
    /\ IF Current(s)
         THEN vpnMu' = "fail" /\ activeVPNSession' = None /\ MonitorGoes(s, "failing")
         ELSE MonitorGoes(s, "done") /\ UNCHANGED <<vpnMu, activeVPNSession>>
    /\ UNCHANGED <<made, fileVars, proc, stdinVars, watcher, connectApplied, after,
                   hostVars, natVars>>

FailSession(s) ==
    /\ Free /\ monitor[s] = "fail"
    /\ IF Current(s)
         THEN /\ vpnMu' = "fail" /\ activeVPNSession' = None
              /\ KillOpenConnect
              /\ MonitorGoes(s, "failing")
         ELSE MonitorGoes(s, "done") /\ UNCHANGED <<vpnMu, activeVPNSession, proc>>
    /\ UNCHANGED <<made, fileVars, stdinVars, watcher, connectApplied, after,
                   hostVars, natVars>>

FailSessionSaves(s) ==
    /\ monitor[s] = "failing"
    /\ vpnMu' = "free"
    /\ SaveDown("error")
    /\ MonitorGoes(s, "direct")
    /\ UNCHANGED <<activeVPNSession, made, proc, stdinVars, watcher, connectApplied,
                   after, hostVars, natVars>>

FailSessionAppliesDirectNAT(s) ==
    /\ monitor[s] = "direct"
    /\ nat' = "direct"
    /\ MonitorGoes(s, "done")
    /\ UNCHANGED <<lockVars, fileVars, proc, stdinVars, watcher, connectApplied,
                   after, hostVars, direct>>

-----------------------------------------------------------------------------
(* finishConnected: once per session, for whichever goroutine comes first. *)

CallsFinish(s) ==
    \/ monitor[s] = "finish"
    \/ watcher[s] = "adopt"
    \/ promote /\ Current(s)

\* First check of the active session; the lock is then released for the rules.
FinishEnter(s) ==
    /\ Free /\ connectApplied[s] = "new" /\ CallsFinish(s) /\ TunnelReady
    /\ connectApplied' = [connectApplied EXCEPT ![s] = IF Current(s) THEN "nat" ELSE "done"]
    /\ UNCHANGED <<lockVars, fileVars, proc, stdinVars, monitor, watcher, after,
                   hostVars, natVars>>

FinishAppliesVPNNAT(s) ==
    /\ connectApplied[s] = "nat"
    /\ nat' = "vpn"
    /\ connectApplied' = [connectApplied EXCEPT ![s] = "final"]
    /\ UNCHANGED <<lockVars, fileVars, proc, stdinVars, monitor, watcher, after,
                   hostVars, direct>>

\* Mutant: the second check is missing.
FinishPublishesUnchecked(s) ==
    /\ Free /\ connectApplied[s] = "final"
    /\ connectApplied' = [connectApplied EXCEPT ![s] = "done"]
    /\ SaveVPNState("connected", s)
    /\ UNCHANGED <<lockVars, proc, stdinVars, monitor, watcher, after, hostVars, natVars>>

\* Second check: only the session that is still active is published.
FinishPublishes(s) ==
    /\ Free /\ connectApplied[s] = "final"
    /\ connectApplied' = [connectApplied EXCEPT ![s] = "done"]
    /\ IF Current(s) THEN SaveVPNState("connected", s) ELSE UNCHANGED fileVars
    /\ UNCHANGED <<lockVars, proc, stdinVars, monitor, watcher, after, hostVars, natVars>>

-----------------------------------------------------------------------------
(* watchOpenConnectProcess and watchOpenConnectPID.                        *)

WatcherMoves(s, from, to) ==
    /\ watcher[s] = from /\ watcher' = [watcher EXCEPT ![s] = to]
    /\ UNCHANGED <<lockVars, fileVars, proc, stdinVars, monitor, connectApplied,
                   after, hostVars, natVars>>

\* cmd.Wait returns when the parent has exited AND the stdin copier has.
WaitReturns(s) ==
    /\ proc[s] \notin ParentAlive /\ copier[s] # "reading"
    /\ WatcherMoves(s, "wait", "returned")

\* Is the session current, and is there a child with a tunnel to adopt?
WatcherDecides(s) ==
    /\ Free
    /\ WatcherMoves(s, "returned", IF ~Current(s) THEN "done"
                                   ELSE IF TunnelReady THEN "adopt" ELSE "stopped")

WatcherAdopts(s) ==
    /\ connectApplied[s] = "done" \/ ~TunnelReady
    /\ WatcherMoves(s, "adopt", "pid")

\* handleOpenConnectStoppedLocked: what is saved depends on the file's phase.
HandleStopped(s) ==
    LET phase == stateFile.phase IN
    /\ activeVPNSession' = None
    /\ SaveDown(IF phase \in InProgress THEN "error" ELSE "disconnected")
    /\ after' = [after EXCEPT ![s] =
                    IF phase = "connected" /\ SavePassword THEN "auto" ELSE "direct"]

WatcherLeaves(s) ==
    /\ Free /\ watcher[s] \in {"stopped", "pid"}
    /\ watcher[s] = "pid" => ~Current(s) \/ s \notin Live
    /\ watcher' = [watcher EXCEPT ![s] = "done"]
    /\ IF Current(s) THEN HandleStopped(s)
                     ELSE UNCHANGED <<activeVPNSession, fileVars, after>>
    /\ UNCHANGED <<vpnMu, made, proc, stdinVars, monitor, connectApplied, hostVars, natVars>>

\* Its goroutine: ApplyDirectNAT, then perhaps scheduleAutoReconnect.
AfterStopAppliesDirectNAT(s) ==
    /\ after[s] \in {"direct", "auto"}
    /\ nat' = "direct"
    /\ after' = [after EXCEPT ![s] = IF @ = "auto" THEN "schedule" ELSE "none"]
    /\ UNCHANGED <<lockVars, fileVars, proc, stdinVars, monitor, watcher,
                   connectApplied, hostVars, direct>>

ScheduleAutoReconnect(s) ==
    /\ after[s] = "schedule"
    /\ after' = [after EXCEPT ![s] = "none"]
    /\ autoReconnect' = IF autoReconnect = "idle" THEN "sleep" ELSE autoReconnect
    /\ UNCHANGED <<lockVars, fileVars, proc, stdinVars, monitor, watcher,
                   connectApplied, poll, promote, crashes, natVars>>

-----------------------------------------------------------------------------
(* scheduleAutoReconnect: eight seconds later, check and then StartConnect.*)

AutoReconnectMoves(from, to) ==
    /\ autoReconnect = from /\ autoReconnect' = to
    /\ UNCHANGED <<lockVars, fileVars, proc, stdinVars, goVars, poll, promote, crashes, natVars>>

AutoReconnectWakes ==
    AutoReconnectMoves("sleep", IF Running \/ ~SavePassword THEN "idle" ELSE "go")

AutoReconnectConnects ==
    /\ autoReconnect = "go" /\ made < MaxSessions
    /\ BeginTeardown("connect")
    /\ autoReconnect' = "call"
    /\ UNCHANGED <<poll, promote, crashes>>

\* StartConnect has returned; the deferred reset of autoReconnecting.
AutoReconnectReturns ==
    vpnMu \notin {"connect", "publish"} /\ AutoReconnectMoves("call", "idle")

-----------------------------------------------------------------------------
(* GetVPNState takes no lock: what it read may be old when it writes.      *)

\* The phase GetVPNState returns of a file that is not being written meanwhile.
ReportedPhase ==
    CASE stateFile.phase = "torn" -> "disconnected"
      [] stateFile.phase \in InProgress /\ TunnelReady -> "connected"
      [] stateFile.phase \in InProgress /\ ~TunnelReady /\ ~Running -> "disconnected"
      [] stateFile.phase = "connected" /\ ~Running -> "disconnected"
      [] stateFile.phase \in {"connected", "disconnected", "error"} /\ Running -> "connected"
      [] OTHER -> stateFile.phase

PollSeesDrop(p) ==
    /\ ~poll[p] /\ stateFile.phase = "connected" /\ ~Running
    /\ poll' = [poll EXCEPT ![p] = TRUE]
    /\ UNCHANGED <<lockVars, fileVars, proc, stdinVars, goVars, autoReconnect,
                   promote, crashes, natVars>>

\* Mutant: the drop is reported to the caller but not saved.
PollKeepsDrop(p) ==
    /\ poll[p] /\ GoApplyDirectNAT
    /\ poll' = [poll EXCEPT ![p] = FALSE]
    /\ UNCHANGED <<lockVars, fileVars, proc, stdinVars, goVars, autoReconnect,
                   promote, crashes, nat>>

PollSavesDrop(p) ==
    /\ poll[p]
    /\ SaveDown("disconnected")
    /\ GoApplyDirectNAT
    /\ poll' = [poll EXCEPT ![p] = FALSE]
    /\ UNCHANGED <<lockVars, proc, stdinVars, goVars, autoReconnect, promote, crashes, nat>>

PromoteMoves(to) ==
    /\ promote' = to
    /\ UNCHANGED <<lockVars, fileVars, proc, stdinVars, goVars, autoReconnect,
                   poll, crashes, natVars>>

PollPromotes ==
    ~promote /\ stateFile.phase \in InProgress /\ TunnelReady /\ PromoteMoves(TRUE)

\* promoteActiveSession has nothing (more) to do.
PromoteReturns ==
    /\ promote
    /\ \/ Free /\ activeVPNSession = None
       \/ ~TunnelReady
       \/ \E s \in Sessions : Current(s) /\ connectApplied[s] = "done"
    /\ PromoteMoves(FALSE)

\* One of the pending ApplyDirectNAT goroutines; nothing orders them.
DirectNAT ==
    /\ direct > 0
    /\ direct' = direct - 1
    /\ nat' = "direct"
    /\ UNCHANGED <<lockVars, fileVars, proc, stdinVars, goVars, hostVars>>

-----------------------------------------------------------------------------
(* openconnect and the host.                                               *)

\* It has read a line as the password.
LoginRead(s) == pw[s] = "sent" \/ (Current(s) /\ inputSent)

ProcessMoves(s, from, to) ==
    /\ proc[s] \in from /\ proc' = [proc EXCEPT ![s] = to]
    /\ UNCHANGED <<lockVars, fileVars, stdinVars, goVars, hostVars, natVars>>

OpenConnectAsks(s) == LoginRead(s) /\ ProcessMoves(s, {"login", "answered"}, "asking")

OpenConnectTunnelUp(s) == LoginRead(s) /\ ProcessMoves(s, {"login", "answered"}, "tunnel")

OpenConnectForks(s) == AllowFork /\ ProcessMoves(s, {"tunnel"}, "child")

OpenConnectExits(s) == ProcessMoves(s, Alive, "dead")

\* Somebody may be in the midst of saveVPNState: whose next step it is.
Saving ==
    \/ vpnMu \in {"disconnect", "connect", "publish", "fail"} \/ AcceptsInput
    \/ \E p \in Pollers : poll[p]
    \/ Free /\ \E s \in Sessions :
         /\ Current(s)
         /\ \/ monitor[s] = "prompt" \/ connectApplied[s] = "final"
            \/ watcher[s] \in {"stopped", "pid"} /\ s \notin Live

\* The service stops and is started again: its memory is lost, state.json and
\* the rules stay as they are, a save under way ends with a file that does not
\* parse; the processes of its control group die unless Survives.
Crash ==
    /\ crashes < MaxCrashes /\ crashes' = crashes + 1
    /\ vpnMu' = "free" /\ activeVPNSession' = None
    /\ copier' = [s \in Sessions |-> IF s \in 1 .. made THEN "closed" ELSE "reading"]
    /\ pw' = [s \in Sessions |-> IF pw[s] = "writing" THEN "off" ELSE pw[s]]
    /\ inputSent' = FALSE
    /\ monitor' = [s \in Sessions |-> "off"]
    /\ watcher' = [s \in Sessions |-> "off"]
    /\ connectApplied' = [s \in Sessions |-> IF s \in 1 .. made THEN "done" ELSE "new"]
    /\ after' = [s \in Sessions |-> "none"]
    /\ autoReconnect' = "idle" /\ poll' = [p \in Pollers |-> FALSE]
    /\ promote' = FALSE /\ direct' = 0
    /\ proc' = [s \in Sessions |->
                   IF s \in Live /\ ~Survives THEN "dead" ELSE proc[s]]
    /\ boot' = "restore"
    /\ stateFile' \in {stateFile} \cup IF Saving THEN {TornFile} ELSE {}
    /\ UNCHANGED <<made, nat>>

\* restoreVPNState runs beside the handlers: read, then apply.
RestoreReads ==
    /\ boot = "restore"
    /\ boot' = IF \/ stateFile.phase = "connected" /\ Running
                  \/ stateFile.phase # "torn" /\ TunnelReady
                 THEN "vpn" ELSE "direct"
    /\ UNCHANGED <<lockVars, stateFile, proc, stdinVars, goVars, hostVars, natVars>>

RestoreApplies ==
    /\ boot \in {"vpn", "direct"}
    /\ nat' = boot
    /\ boot' = "running"
    /\ UNCHANGED <<lockVars, stateFile, proc, stdinVars, goVars, hostVars, direct>>

-----------------------------------------------------------------------------
User == Connect \/ Disconnect \/ SubmitVPNInput \/ SubmitVPNInputBlocks

Locked == EndTeardown \/ Spawn \/ Publish

Prompts(s) == MonitorSeesPrompt(s) \/ MonitorSavesPrompt(s)

\* The steps of a session's goroutines that are never taken twice.
Work(s) ==
    \/ SendPassword(s)
    \/ MonitorLeaves(s) \/ MonitorSeesTunnel(s) \/ MonitorSeesExit(s)
    \/ MonitorFinished(s)
    \/ FailSession(s) \/ FailSessionSaves(s) \/ FailSessionAppliesDirectNAT(s)
    \/ FinishEnter(s) \/ FinishAppliesVPNNAT(s) \/ FinishPublishes(s)
    \/ WaitReturns(s) \/ WatcherDecides(s) \/ WatcherAdopts(s) \/ WatcherLeaves(s)
    \/ AfterStopAppliesDirectNAT(s) \/ ScheduleAutoReconnect(s)

OpenConnect(s) ==
    \/ OpenConnectAsks(s) \/ OpenConnectTunnelUp(s)
    \/ OpenConnectForks(s) \/ OpenConnectExits(s)

Poll(p) == PollSeesDrop(p) \/ PollSavesDrop(p)

AutoReconnect == AutoReconnectWakes \/ AutoReconnectConnects \/ AutoReconnectReturns

Restore == RestoreReads \/ RestoreApplies

Next ==
    \/ User \/ Locked \/ AutoReconnect \/ Restore \/ Crash
    \/ PollPromotes \/ PromoteReturns \/ DirectNAT
    \/ \E s \in Sessions : Work(s) \/ Prompts(s) \/ MonitorTimesOut(s) \/ OpenConnect(s)
    \/ \E p \in Pollers : Poll(p)

Spec == Init /\ [][Next]_vars

\* Goroutines are scheduled and hold vpnMu for a bounded time (WF); a starved
\* waiter of a sync.Mutex is handed it (SF where vpnMu is taken: each kind of
\* Work step happens once a session, so SF of their disjunction is SF of each).
\* GetVPNState is polled by the dashboard and the maintenance loop.
GoroutineFairness ==
    /\ WF_vars(Locked) /\ WF_vars(Restore) /\ WF_vars(DirectNAT)
    /\ WF_vars(PollPromotes) /\ WF_vars(PromoteReturns)
    /\ \A p \in Pollers : WF_vars(Poll(p))
    /\ SF_vars(AutoReconnect)
    /\ SF_vars(\E s \in Sessions : Work(s))
    /\ SF_vars(\E s \in Sessions : Prompts(s))

\* No assumption on how soon connectTimeout passes.
UntimedSpec == Spec /\ GoroutineFairness

\* The three minutes of connectTimeout do pass.
DeadlinePasses == SF_vars(\E s \in Sessions : MonitorTimesOut(s))

FairSpec == UntimedSpec /\ DeadlinePasses

-----------------------------------------------------------------------------
(* Safety.                                                                 *)

\* At most one openconnect runs, whoever starts, fails, drops or restarts:
\* disconnectLocked kills what runs before cmd.Start, in the same section.
AtMostOneOpenConnect == \A s, t \in Live : s = t

\* An openconnect no session owns would hold vpn0 with nobody to monitor or
\* end it: while vpnMu is free and no session is active, none runs.
NoOrphanOpenConnect == Free /\ activeVPNSession = None => ~Running

\* No goroutine of an ended attempt writes "connecting", "need_input" or
\* "connected": whoever saves such a state saves the active session's, across
\* every unlocked stretch of finishConnected and monitorVPNSession.
OnlyCurrentSessionPublishes ==
    [][stateFile' # stateFile /\ stateFile'.sess # None
        => activeVPNSession' = stateFile'.sess]_vars

\* The promise of VPNLifecycle, whose attempts are the sessions.
Stage(s) ==
    IF s > made THEN "fresh"
    ELSE IF ~Current(s) THEN "over"
    ELSE IF connectApplied[s] = "done" THEN "up"
    ELSE "attempting"

Lifecycle == INSTANCE VPNLifecycle WITH
    Attempts <- Sessions, Nobody <- None,
    current <- activeVPNSession,
    stage <- [s \in Sessions |-> Stage(s)],
    shown <- stateFile.sess

\* Sessions run one at a time, connect at most once, end for good, and are
\* shown only while current.
ImplementsLifecycle == Lifecycle!Spec

-----------------------------------------------------------------------------
(* Liveness.                                                               *)

\* The dashboard does not show "connected" for long after openconnect died,
\* though the watcher that should notice it waits for the stdin copier.
DropIsNoticed ==
    (stateFile.phase = "connected" /\ ~Running)
        ~> (stateFile.phase # "connected" \/ Running)

\* An attempt does not stay in progress: it connects, fails or is ended, by
\* connectTimeout if nothing else ends it.
AttemptResolves ==
    DeadlinePasses => (ReportedPhase \in InProgress ~> ReportedPhase \notin InProgress)

\* The first token prompt is shown, unless a token was already sent or the
\* attempt ends first; it does not need the deadline for that.
FirstPromptShown ==
    \A s \in Sessions :
        (Current(s) /\ proc[s] = "asking" /\ ~inputSent)
            ~> (stateFile.phase = "need_input" \/ inputSent \/ ~Current(s)
                \/ proc[s] # "asking")

\* Disconnect leaves no goroutine of the session behind (as long as vpnMu is
\* not wedged by SubmitVPNInput).
DisconnectReapsGoroutines ==
    \A s \in Sessions :
        copier[s] = "closed" /\ monitor[s] # "off"
            ~> \/ monitor[s] \in {"done", "off"} /\ watcher[s] \in {"done", "off"}
                    /\ pw[s] # "writing"
               \/ vpnMu = "submit"

-----------------------------------------------------------------------------
(* What the documents say of the program and its code does not do.         *)

\* vpn.go:625 tells the user that a dropped session with a saved password is
\* retried.
DropStartsAutoReconnect ==
    \A s \in Sessions :
        (Current(s) /\ stateFile.phase = "connected" /\ ~Running)
            ~> (autoReconnect # "idle" \/ ~Current(s))

\* README.md:136 "(async; poll status)": a request for vpnMu is answered.
LockIsReleased == ~Free ~> Free

\* Nothing is on its way to the forwarding rules.
NATQuiet ==
    /\ Free /\ direct = 0 /\ boot = "running" /\ autoReconnect = "idle"
    /\ \A p \in Pollers : ~poll[p]
    /\ \A s \in Sessions :
         /\ connectApplied[s] \in {"new", "done"} /\ after[s] = "none"
         /\ monitor[s] \in {"off", "tick", "done"}

\* app.js:60: while disconnected, the LAN uses direct WAN NAT.
DisconnectedIsDirect ==
    NATQuiet /\ stateFile.phase = "disconnected" /\ ~Running => nat = "direct"
=============================================================================
