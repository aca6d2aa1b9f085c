# raspberry-vpn-connector in TLA+

The program (Go, `src/`) turns a Raspberry Pi into a router whose clients reach
the internet either directly through the WAN or through an OpenConnect VPN. A
web service on port 5000 sets the router up once, starts and stops the VPN,
and keeps firewall, DNS and routes in step with it. This directory holds
models of the parts of that service where order matters, the TLC runs that
check them and TLAPS proofs of the main safety properties.

## 1. Inventory

### Components, state and operations

| component | source | state | operations |
|---|---|---|---|
| VPN session manager | `handlers/vpn.go` | `vpnMu`, `activeVPNSession` (a `vpnConn`: stdin pipe, `passwordSent`, `inputSent`, `connectApplied`), `autoReconnecting`, `state.json`, the openconnect process | `StartConnect`, `SubmitVPNInput`, `Disconnect`, `GetVPNState`, `monitorVPNSession`, `finishConnected`, `failSession`, `watchOpenConnectProcess`, `watchOpenConnectPID`, `scheduleAutoReconnect`, `promoteActiveSession` |
| Service start and restart | `main.go`, the systemd unit | none of its own | `EnsureIPForwarding`, `EnsureRouterServices`, `restoreVPNState` |
| NAT and management firewall | `handlers/nat.go` | chains `VPN-CONNECTOR-FWD`, `VPN-CONNECTOR-NAT`, `VPN-CONNECTOR-IN`, the jumps to them, MSS clamps in mangle | `ApplyDirectNAT`, `ApplyVPNNAT`, `ensureManagementFirewall`, `flushRouterRules`, `ensureMSSClamp` |
| DNS forwarding | `handlers/dns.go` | dnsmasq's file, `lastDnsmasqConfig`, the running dnsmasq | `ApplyDirectDNS`, `ApplyVPNDNS`, `EnsureVPNDNSIfNeeded`, `writeDnsmasqConfig` |
| Management maintenance | `handlers/routing.go` | watchdog flag, policy rules and routes | `MaintainManagementAccess`, `StartManagementWatchdog`, `resolvedWANGateway` |
| Router configuration | `handlers/config.go` | `routerConfig`, `configMu`, `config.json` | `LoadRouterConfig`, `GetRouterConfig`, `SaveRouterConfig` |
| Setup and bootstrap | `handlers/setup.go`, `bootstrap.go` | what its steps leave on the host: addresses, `/etc/dhcpcd.conf`, NetworkManager's connection, hostapd's and dnsmasq's files, and `lastDnsmasqConfig` | `SetupApplyHandler`, `parseSetupRequest`, `ApplyBootstrapWithProgress` and its steps |
| Login | `handlers/auth.go` | `defaultUsername`, `defaultPassword`, sessions | `SetRuntimeCredentials`, login, logout |
| VPN profiles | `handlers/profiles.go` | `profiles.json` | `UpsertProfile`, `DeleteProfile` |
| Subnet selection | `handlers/subnet.go` | none | `SuggestLANSubnet`, `validateLANDoesNotOverlapWAN` |
| WiFi access point | `wifi_ap.go` | hostapd's file and unit | `EnsureRouterServices`, `EnsureWiFiAccessPoint`, `activateHostapd` |
| Network snapshot, packages | `network.go`, `packages.go` | none | one sequence of host commands each |
| HTTP handlers, dashboard | `handlers.go`, `templates/` | browser | call the above |
| vpnc wrapper, installers | `scripts/` | host | shell scripts |

### Interactions

* The handlers run one goroutine per request. `vpnMu` serialises `StartConnect`,
  `Disconnect`, `SubmitVPNInput` and parts of the session's goroutines;
  `GetVPNState` takes no lock although it writes `state.json` when it sees that
  the process has gone.
* A session has four goroutines: the password writer, the monitor, the watcher,
  and the one `exec.Cmd` starts to copy the stdin pipe to openconnect.
* `ApplyDirectNAT` is mostly started with `go`, `ApplyVPNNAT` is called with
  `vpnMu` released: the two can overlap, and the management watchdog with both.
  Nothing serialises their iptables commands or the writes of dnsmasq's file.
* Nearly every caller of `SaveRouterConfig` read its configuration earlier:
  `configMu` covers each read and each save, not the pair. A caller's own copy never
  learns of a save made on its way (`resolvedWANGateway`), so it is saved again.
* A session starts a management watchdog when its rules are applied and stops it
  by clearing a flag that the watchdog does not read: it ends when it finds the VPN
  down, and clears the flag itself. A `state.json` that is just being rewritten does
  not parse, and is a VPN that is down.
* A setup's steps change the host one after the other and undo nothing: the next
  attempt runs on what a failed one left. The start of the service repeats a few of
  them.
* `state.json`, `config.json`, firewall rules, dnsmasq's file, and in some
  configurations openconnect itself outlive the service; memory does not. A restart
  of the host also takes addresses that no manager keeps.

### What is hard

Concurrency without one lock over it (session goroutines, NAT jobs,
configuration copies); process exit noticed through pipes; the token prompt
read from a log while the user is typing; restarts in the middle of a firewall
refill or a file write; time-outs against late success; a cache of a file that
somebody else writes. `PROJECT.json` lists each hazard at its line under
`hazards`, with the properties that cover it or the reason none does yet.

### What makes each component correct

* Session manager: one openconnect at most, none that no session owns; only
  the active session is published; a drop is noticed, an attempt ends, a
  prompt is shown, a disconnect leaves no goroutine; the rules follow the state.
* Firewall: after whatever overlap or crash, port 5000 stays reachable and the
  LAN keeps the WAN's internet; jumps do not pile up; a job that ran alone leaves
  exactly its rules.
* DNS: dnsmasq serves what its file holds; direct mode has no VPN zones; missing
  zones come back.
* Store: the file is never older than memory; a configured router stays so; the
  login typed at setup works; nobody's save undoes another's.
* Profiles: one profile per id, no password sent to another's server, changes
  made one after the other all kept.
* Watchdogs: a set flag has its watchdog; a connection has one, with two named
  exceptions; none stays when the VPN stays down.
* Setup: the LAN shares no address with the WAN and is refused for nothing else; the
  suggestion is accepted; dnsmasq's netmask is the interface's.
  After failed attempts and restarts a configured LAN has its address, the access
  point follows it, dnsmasq serves it, and other interfaces are left alone.

## 2. Modules

| module | models | composed with |
|---|---|---|
| `VPNLifecycle` | abstract: what a reader of the VPN state is promised about attempts | refined by `VPNSession` |
| `VPNSession` | `vpn.go`, the openconnect process, `restoreVPNState` | `INSTANCE VPNLifecycle` |
| `MCVPNSession` | the constraints of one run | extends `VPNSession` |
| `VPNSessionProofs` | theorems on `VPNSession` | extends `VPNSession`, `TLAPS` |
| `Watchdog` | the watchdog of `routing.go` beside the steps that start and stop it | extends `VPNSession`: each of its steps with what it does to watchdogs |
| `MCWatchdog` | the constraints of one run | extends `Watchdog` |
| `WatchdogProofs` | theorems on `Watchdog` | extends `Watchdog`, `VPNSessionProofs` |
| `Forwarding` | `nat.go`, `dns.go`, `MaintainManagementAccess`, boot | |
| `MCForwarding` | the symmetry of `Forwarding`'s run | extends `Forwarding` |
| `ForwardingProofs` | what holds once all jobs are done | extends `Forwarding`, `SequenceTheorems`, `FiniteSetTheorems`, `TLAPS` |
| `ForwardingJobsProofs` | types, and what a job leaves that nothing overlaps | extends `ForwardingProofs` |
| `RouterStore` | `config.go`, the saves of setup, bootstrap, `resolvedWANGateway` and `finishConnected`, the login | |
| `RouterStoreProofs` | theorems on `RouterStore` | extends `RouterStore`, `TLAPS` |
| `Profiles` | `profiles.go`, the requests to `/api/profiles` | |
| `ProfilesProofs` | theorems on `Profiles` | extends `Profiles`, `TLAPS` |
| `Subnets` | operators of `subnet.go` and the netmask, with their reference definitions | |
| `Setup` | `setup.go`, the steps of `bootstrap.go`, `wifi_ap.go`, restarts | extends `Subnets` |
| `MCSetup` | the suggested subnets on four-bit addresses, the run's constraint | extends `Setup` |
| `SubnetsProofs` | lemmas on the arithmetic of `Subnets` | extends `Subnets`, `WellFoundedInduction`, `TLAPS` |
| `SetupProofs` | theorems on `Setup` | extends `Setup`, `SubnetsProofs` |

Definitions whose comment begins with "Mutant" are not part of a
specification: each is a defect somebody could plausibly introduce, named in
`PROJECT.json` next to the property that would catch it.

### VPNSession

Sessions are numbered in the order in which they are made; 0 is `nil`. `proc[s]`
is the openconnect of session `s`: logging in, asking for a token, answered, with
its tunnel, or (openconnect's own background mode, `AllowFork`) as the child of
the process that was started. An action is one critical section of `vpnMu`, or
one unlocked stretch between two. Where others can see a half-done change
although `vpnMu` is held (openconnect killed, state not yet saved), the section is
split and `vpnMu` names who holds it.

| code | actions |
|---|---|
| `StartConnect` | `Connect`, then `Spawn` and `Publish`, or `EndTeardown` when `cmd.Start` fails |
| `Disconnect` | `Disconnect`, `EndTeardown` |
| `SubmitVPNInput` | `SubmitVPNInput`, or `SubmitVPNInputBlocks` |
| password goroutine | `SendPassword` |
| `monitorVPNSession`, `failSession` | `Monitor*`, `FailSession*` |
| `finishConnected` under `sync.Once` | `FinishEnter`, `FinishAppliesVPNNAT`, `FinishPublishes` |
| `watchOpenConnectProcess`, `watchOpenConnectPID`, `handleOpenConnectStoppedLocked` | `WaitReturns`, `Watcher*`, `AfterStopAppliesDirectNAT` |
| `scheduleAutoReconnect` | `ScheduleAutoReconnect`, `AutoReconnect*` |
| `GetVPNState`, `promoteActiveSession` | `Poll*`, `Promote*`, operator `ReportedPhase` |
| `go ApplyDirectNAT()` | the counter `direct`, `DirectNAT` |
| service stop and start, `restoreVPNState` | `Crash`, `RestoreReads`, `RestoreApplies` |

Abstractions. SIGTERM, the pause and SIGKILL are one step after which the newest
openconnect is dead; the grace period for a dead parent process is a free delay.
A save of `state.json` is part of the step that makes it, but
a restart may interrupt it wherever somebody is about to save (`Saving`) and leave a
file that does not parse (`TornFile`); that watchdogs read the file in the middle of a
save is in `Watchdog`. The profile shown in a state that is
not up is not tracked; `inputSent` is kept for the active session only, the only
one for which it is read. The password's write and the flag set after it
are one step. Early returns of `StartConnect` that change nothing are stutters.
`nat` is the last set of rules applied as a whole; `Forwarding` has the commands.

### Forwarding

A goroutine is the sequence of commands it has still to run; a command is one
step, because iptables is atomic. `ApplyDirectNAT`, `ApplyVPNNAT` and a
maintenance pass are such sequences, built from the sequences of the functions
they call in the order of the code. `maintain` is a watchdog's first passes, which
apply the DNS again, `tick` one of its ticker's, which do not. `Boot` is what `main`
does before its own job: the firewall, a maintenance pass, a second look for the zones,
and a restart of dnsmasq where its unit is enabled. Rules are names for the sets of
rules the code appends together; appending one that is there leaves the set as it is
(the chains hold no duplicates that matter, while MSS clamps and jumps are
counted). `clean[w]` is a history variable: nothing overlapped or failed the job
of `w`.

Abstractions. Policy routes and sysctls are set to the same values by every job
and are left out. The `-C`, then `-A` that links a chain is one step with the
append that follows it. The dnsmasq configuration is with or without VPN zones; a
write that fails, is interrupted or is read while it is under way leaves or shows the
file in `part`. Two writes at once
happen one after the other: a file mixed of both is not modelled.
`lastDnsmasqConfig` is a Go string read while another goroutine may assign it: a
torn read (new pointer, old length) is modelled as comparing unequal.

### RouterStore

A caller reads a configuration, changes a field of a copy and saves that.
`SaveRouterConfig` is four steps: lock and truncate; write, assign, unlock; put
the login in force; or fail. `pc`, `cfg`, `given` and `then` are each caller's place,
what it has read, what it saves and where that returns to: `cfg` and `given` differ
because `resolvedWANGateway` saves a copy of its own, and its caller (a watchdog,
`ApplyDirectNAT`, `ApplyVPNNAT`) goes on with what it read when it began. `LoginHandler`
is a caller too: it puts the login of a configuration it read in force, without saving.
A setup saves its configuration, then what it read again in `ApplyDirectNAT`, then its
own with the gateway; before all that, where the WAN has no name servers, its dnsmasq
step asks `resolvedWANGateway`, which saves the request's copy while it is not
`Configured` yet (`SetupSavesEarly`). A restart parses the file, or starts unconfigured
when the file is torn. `requests` is a history of the setups that were accepted.

Abstractions: a configuration is four fields, of which `admin` stands for all that a
setup request sets, its WAN among them; keepers and sessions are at work only where a
configured router is; a write that returned is on the disk.

### Profiles

A request loads the list (`Create`, `Edit` and `Remove` are the load with the
edit of the copy, since nothing else can change the copy), then waits for
`profilesMu` and saves it: `SaveBegins` truncates the file, `SaveEnds` has
written it, `SaveFails` returns an error with the file whole or torn. `promised`
is the list as the answered requests describe it and `typed` the passwords ever
sent for an id; both are history. Abstractions: name, server, protocol and dates
are the request that sent them; the list is a set, since its order only decides
which of two profiles with one id is found, and there are none (`UniqueIds`); a
random id is one not returned before.

### Watchdog

Every action of `VPNSession` is taken together with what the code at that point
does to the watchdogs: `Starts` (`finishConnected`, `restoreVPNState`), `Stops`
(`disconnectLocked`, `failSession`, `handleOpenConnectStoppedLocked`), `Quiet`
nothing. A watchdog asks `GetVPNState`: `WatchdogSeesDown` finds the VPN down;
`WatchdogSeesDrop` finds a process gone that was connected, in which case the
watchdog is the caller that saves it (`CallerSavesDrop`) and so is one of
`VPNSession`'s pollers; `WatchdogLeaves` is the deferred reset of the flag. The steps
that save `state.json` (`Saves`, and with a stop `SavesThenStops`) may be read by any
number of watchdogs in the middle (`MayReadTorn`), who then leave. `lost` is a history of
how the last watchdog went: by such a read, or because a start met only watchdogs on
their way out.
Watchdogs are counted, since nothing else distinguishes them; what they do while
the VPN is up is a job of `Forwarding` and a save of `RouterStore`.

### Subnets and Setup

An address is a number of `Bits` bits and a subnet an address with a prefix, as
in `192.168.50.1/24`. The suggested subnets keep the relation that matters: two
near each other, the third in the other half of the address space. The reference
(`Hosts`) divides where the code masks. Text forms are left out, but for two searches:
the check whether an interface has its address looks for it in the text that `ip`
prints, and finds `192.168.50.1` in `192.168.50.10` (`Shows`, constant `Prolongs`); and
`appendUniqueBlock` looks for an interface in the text of `dhcpcd.conf`.

| code | actions |
|---|---|
| `SetupApplyHandler`, `parseSetupRequest` | `ParseGiven`, `ParseSuggested`; `Again` for the corrected form |
| checks of `ApplyBootstrapWithProgress` | `Reject` (something is missing), `Validate` (with the WAN detected again where the form has none) |
| `installSystemPackages` | `InstallPackages` |
| `configureLANInterface` | `ConfigureByIP`, `ConfigureByDhcpcd`, `DhcpcdFails`, `ConfigureByNM`, `NMFails` |
| `prepareHostapd`, `activateHostapd`, `disableHostapd` | `PrepareHostapd`, `ActivateHostapd`, `DisableHostapd` |
| `configureDnsmasq`, `writeDnsmasqConfig` with its cache | `ConfigureDnsmasq`, operator `WritesDnsmasq` |
| `SaveRouterConfig` | `SaveConfig`, `SaveFails` |
| initial routing, with `ApplyDirectDNS`, which clears the cache | `InitialRouting` |
| an error of another step | its disjunct that goes to "failed" |
| `EnsureRouterServices`, `EnsureWiFiAccessPoint` | `StartServiceOfAP`, or `StartService` where the LAN is not wireless |
| `restoreVPNState` | `RestoreVPNState` |
| DHCP on a WAN | `LeaseChanges` (external) |
| loss of power, restart of the service | `RestartHost`, `RestartService` |

What the host keeps is the point. `static` are the interfaces that no longer follow
DHCP; `dhcpcdConf` and `nmConns` is what the two managers will give again after a
restart. `hostapd.conf` is the file, `hostapd.enabled` the unit, `hostapd.on` the
interface on which the daemon runs: writing the file moves no daemon. `dnsmasqConf` is
the file and `lastDnsmasqConfig` the text that the service believes is in it.
`appendUniqueBlock` looks for `interface <lan>` in the whole of that text: it
finds a block of that interface, one of an interface with a longer name
(`LongerNames`), a comment (`Mentioned`), and what the host's file held at first
(`FirstBlocks`). `given` is a history of what that file and the attempts gave; `faults`
a history of commands whose errors the code ignores, so that the properties can leave
them out: stopping and disabling hostapd, the address and access point at a start, the
DNS of `ApplyDirectNAT`.

Assumptions on the host: a fresh one has no access point; a hostapd that was started
runs until it is stopped or the host is; taking a wireless interface from
NetworkManager leaves its addresses; dhcpcd gives an interface its block's address
when it is restarted. The DHCP range is not modelled. One request runs at a time;
concurrent saves are `RouterStore`'s matter. A restart of the service ends a request
wherever it is.

## 3. Runs

| run | question | bounds |
|---|---|---|
| `session_two` | two sessions, any connect, disconnect, failure, drop, auto-reconnect between them: one openconnect, no orphan, only the active one published, `VPNLifecycle` implemented | 2 sessions, 1 pending direct NAT, no poller; a restart that openconnect does not survive, and its fork, with one session |
| `session_restart` | the same with a restart that openconnect survives, a poller and watchdogs: a flag has its watchdog, a connection too | the second session follows a restart or is made by auto-reconnect; 2 watchdogs at once, no fork |
| `session_live` | drop noticed, attempt resolved, prompt shown, goroutines reaped, watchdogs ended, under fairness | 1 session, 1 poller, 1 watchdog |
| `forwarding_overlap` | any interleaving of two jobs with boot, failures of dnsmasq and restarts | 2 goroutines; two events besides boot (`MaxEvents`) |
| `store_save` | saves by setup (its early one and its repetition after a failure), gateway keeper, finished session and login, with a failed write, a restart, a change of gateway | one of each, one gateway address or none |
| `profiles_edit` | creates, edits and deletes over each other with a failed write and a restart: unique ids, passwords kept apart, serial changes kept | 3 requests, 2 ids, 2 passwords |
| `setup_retry` | every WAN, LAN and prefix of a first form up to its checks, also prefixes out of range and addresses that are none; then attempts that fail anywhere, their retry, restarts of service and host, under each manager | 4 bits; 4 interfaces, two wired of which one name starts with the other, two wireless, one uplink; 3 attempts, 2 restarts; the steps are followed for three LANs, with two attempts and two restarts, or three attempts of which the third is for a LAN tried before (`FollowSome`) |
| `session_noretry`, `session_wedge`, `session_natdisc`, `forwarding_cache`, `store_lost` | a statement of the documents or of the code's messages that the code does not keep | the smallest that shows it |

Why the bounds are enough. The hazards of a session are steps of its goroutines
after the next one has begun, and every goroutine acts on its own session and the
active one: two sessions give every pair of an old and a new one; for the safety
of more the theorems hold for any number. Two pending NAT goroutines are the
fewest that can end in the wrong order; only `session_natdisc`, whose property is
about the rules in force, has them. Two overlapping jobs give every pairwise
order of the commands; for what holds once all jobs are done, the theorems cover
three-way overlaps and longer histories.
In the store the interesting conflict is between one stale copy and one other
save. Three profile requests are the fewest with a stale save followed by an edit
of what it left. Four bits give candidates of four addresses, WANs larger, equal
and smaller than them, and both edges of the prefix; the theorems hold for 32. Two
attempts are one that leaves something and one that finds it, and a third is what it
takes to come back to the first's text with the second's file in place (A, B, A again);
the three LANs that are followed are the default, one whose text prolongs it and one
that `ip` refuses. Two wireless interfaces are the fewest on which an access point can
be left on the wrong one.
A third watchdog would meet what a second does: only the flag connects them. A restart
forgets every session, so that one during a second session finds what one during the
first does. With two sessions these two runs let a pending `ApplyDirectNAT` go first
(`DirectNATFirst`): it changes `nat` alone, which none of their properties and no guard
reads.

`CHECK_DEADLOCK FALSE` is in every configuration because the system may really
stop: users need do nothing, bounds are reached, and after
`SubmitVPNInputBlocks` the service is wedged for ever (`session_wedge`).

Fairness. A goroutine that can go on does (weak fairness): the Go scheduler
guarantees it. Steps that take `vpnMu` get strong fairness because a `sync.Mutex`
in starvation mode hands itself to the waiter; each kind of `Work` step happens
at most once a session, so strong fairness of their disjunction gives each of
them. `GetVPNState` is polled by the dashboard every few seconds and by the
watchdog, so the poller's steps are fair. A watchdog wakes every thirty seconds at
the latest (weak fairness); saving a drop it saw has strong fairness because the
bound on pending NAT goroutines (`MaxDirect`), not the code, may disable it for a
while. That much is `UntimedSpec`, under
which `session_live` runs: were the deadline part of it, it would end every attempt
and hide a prompt that is never shown. `DeadlinePasses` says that the three minutes
of `connectTimeout` pass; `AttemptResolves` assumes it, and so does `FairSpec`, under
which the two temporal findings are shown. Users and openconnect are never fair.

## 4. What the checks found

Each is a run that TLC finds violated, listed under `findings`:

1. `session_noretry`: after openconnect drops, `cmd.Wait` stays blocked on the
   goroutine that copies stdin, so the drop is seen only by `GetVPNState`, which
   schedules no reconnect; or a poll saves "disconnected" first and the watcher
   then takes the session for one that need not be retried.
2. `session_wedge`: `SubmitVPNInput` writes to a pipe that nobody reads with
   `vpnMu` held; only a holder of `vpnMu` would close the pipe.
3. `session_natdisc`: a disconnect during `ApplyVPNNAT` leaves the VPN rules in
   force while the state is disconnected.
4. `forwarding_cache`: overlapping DNS jobs leave `lastDnsmasqConfig` different from
   the file; missing VPN zones are then found and skipped as unchanged.
5. `store_lost`: a save of an older copy takes `LastProfileID` out again, so
   reconnect does not use the last profile.

The passing runs show more that a user would want to know, in the conditions that
`Setup`'s and `Watchdog`'s properties had to be given:

* `OthersAreLeftAlone`: NetworkManager's connection of a failed wired attempt is
  deleted only by a later wired attempt; when a wireless LAN succeeds it stays and
  gives the old interface its address at every boot. A block in `dhcpcd.conf` is never
  changed or removed.
* `LANHasItsAddress`: a wired LAN has no address after a restart of the host when
  there is no manager, when setup fell back on `ip`, or when `dhcpcd.conf` named the
  interface in a comment or as the start of a longer name, so that no block was written;
  `EnsureWiFiAccessPoint` repairs only a wireless one. `ensureLANAddress` may be content
  with an address that merely begins with the wanted one, if an earlier attempt or a
  lease put it there.
* `APFollowsTheLAN`: when hostapd fails after the save, the router is
  configured although setup reported an error, and setup can not be repeated; the next
  start of the service starts the access point. If the service dies between the save
  and `activateHostapd` while the access point of an earlier attempt still runs, that one
  stays on its old interface until the host is restarted: a start of the service
  rewrites hostapd's file and leaves a running daemon alone.
* `DnsmasqServesTheLAN`: between the dnsmasq step and `ApplyDirectDNS` the file may be
  that of another attempt (A, then B which fails, then A again is skipped as unchanged);
  the router is right because `ApplyDirectDNS` clears the cache, at the end of a setup
  and at every start of the service. If that one write fails, the error is dropped and
  the other attempt's file stays.
* `ConnectedIsWatched`: a connection has no watchdog at all when it starts while a
  watchdog has seen the VPN down but not yet cleared the flag, or when its watchdog's
  first look at `state.json` falls into the save of "connected" that follows the start.
  Both windows are short, and `session_restart` reaches both. A watchdog that outlives
  its session keeps serving the next with the server of its own.
* `StaysConfigured` and `LoginIsTheSavedOne` are about one accepted setup. A second,
  accepted while the first was at work, can take the configuration back: its dnsmasq
  step saves a copy that is not `Configured`.

## 5. Proofs

For every value of the constants, from each module's named assumption alone unless
said otherwise:

* `VPNSessionProofs!TypeCorrect`, `RouterStoreProofs!TypeCorrect`: types.
* `OneOpenConnect`: `AtMostOneOpenConnect` is not inductive, since `Spawn` adds a
  process; `OneInv` adds that between the kill and the spawn of one section of
  `vpnMu` nothing runs. With at most one process, killing the newest kills all
  (`KillLeavesNone`).
* `NoOpenConnectWithoutSession`, under `~Survives`: `OwnInv` says that what runs
  belongs to the active session, and that a watcher which waited for the parent
  never sees it alive again. With `Survives` the property is false after a restart,
  by design of `restoreVPNState`, which adopts the process for the rules only.
* `CurrentSessionPublishes` and `LifecycleImplemented`: `LifeInv` says where the
  active session may be in each split section, and that sessions not made yet have
  no goroutine; every step is then shown to be a step of `VPNLifecycle` or a stutter.
* `FileIsNeverOlder`: `FileInv` says that the file is torn exactly while, and after,
  somebody holds `configMu` in the middle of a save. Every step that neither saves nor
  restarts is one shape of step (`Turn`), so that an invariant is shown for it once.
* `SavedLoginWorks` is about one accepted setup, `s` (`Requested`: only accepted ones
  are at work). `AdminInv` says that memory, file and all copies then name no other
  admin, and that where memory names him his login is in force or a caller is about to
  put it in force.
* `ConfiguredStays` needs more, because the early save of the dnsmasq step does put an
  unconfigured copy on its way. `PhaseInv` divides the setup at the save that sets
  `Configured` (`Before`, `After`): before it the router is unconfigured and nobody else
  at work; after it every copy that is read (`Resolving`) or saved is a configured one.
* `ProfilesProofs!TypeCorrect` needs that a request on its way to a save has asked
  for something (`AskedInv`). `IdsAreUnique` and `PasswordsStay` follow from
  `ListInv`: the file and every loaded copy have unique ids and only passwords typed
  for them, which `Upsert` and `Delete` preserve (`UpsertUnique`, `UpsertOwned`), so
  it does not matter which copy is saved last. `SerialChangesStay`: a request does to the
  list of a map what it promises about the map (`ListIsMap`); `MapInv` says that while
  nothing failed the file is the map's list and a copy that is not stale is what its
  request makes of that list.

* `ForwardingProofs`, from `ForwardingAssumption` (finitely many goroutines): what holds
  when nobody has anything to do is, before that, in force or still to be done.
  `JobShape` says of a goroutine's remaining commands that a flushed chain's rules and a
  deleted jump are put back later in the same job, that a jump is inserted only right
  after a deletion, and that the commands of `writeDnsmasqConfig` stand together in
  their order; every job has the shape (`JobsAreShaped`, `BootIsShaped`), and doing,
  inserting or leaving out commands the way the code does keeps it (`RestShape`,
  `TailPasses`, `ReturnPasses`, `ZonesPasses`). `FirewallInv` adds, for each rule of
  `Kept`, for the link and for a jump, that it is there or `Pending`, and (`ServeInv`)
  that a `dnsmasq` that does not serve its file has a restart to come: its writer's, or,
  after a crash, that of a write which the empty cache cannot skip. `ManagementStaysOpen`, `InternetStaysReachable` and `FileIsServed` are that
  invariant where nothing is pending. `JumpsDoNotGrow` counts, with the jumps there are,
  the goroutines about to insert one.
* `ForwardingJobsProofs` counts a goroutine's commands from the end, where no step moves
  them (`Leaves`): the first one goes, together with others of `writeDnsmasqConfig` when
  that returns early, and a search for the zones puts its commands there (`StepLeaves`).
  `TypeCorrect`: `Room` says that such a search always leaves the sequence within its
  bound, `ClampInv` adds to the clamps in mangle those still ahead; together they are at
  most two for each job begun, started or booted. The bound in `TypeOK` is that one: it
  once was two for each *started* job and restart, which `forwarding_overlap` could not
  refute, because its two events leave no room for the boot's own two, and which the
  proof showed to be no invariant. `SoloJobsSetTheirRules` and `SoloDirectForgetsZones` are action
  properties of the last step of a job; `SoloInv` is what they need of every earlier
  one: while nothing has disturbed a job, it is alone, what is in a chain with what is
  still to be appended after the last flush ahead is the job's rules (`Sets`,
  `SetsStep`), and of `ApplyDirectDNS` what remains tells what was done (`DirectAhead`:
  the cache is empty at the comparison, so that it is never skipped).
* `SessionUndisturbed`: every step of `Watchdog` is one of `VPNSession` or stutters
  (`WatchedStep`), so its theorems hold with watchdogs (`OneOpenConnectWatched`,
  `LifecycleWatched`). `FlagOwned` needs only that the counts are natural numbers.
  `ConnectedWatched`: between `StartManagementWatchdog` and the save of "connected" the
  session must still be watched, so `WatchInv` speaks of a session in `finishConnected`
  whose openconnect runs. That needs `TunnelInv`: only the active session's openconnect
  runs beside it, and from the moment its tunnel was found it stays one or dies, so a
  stop that takes the watchdog away takes the openconnect too. A torn read takes the
  last watchdog only with a trace in `lost` (`TornReadIsKept`).
* `SetupProofs!TypeCorrect` needs that a request under way names two interfaces
  (`UnderWay`), and that the suggestion, which is a `CHOOSE` of the least candidate, is
  one of the candidates: the least exists by well-foundedness of `<`
  (`SuggestionIsCandidate`). `DnsmasqServes`: nothing is configured before the save, and
  after it the file is right from the end of `ApplyDirectDNS` on, whatever the cache held
  (`DnsmasqInv`). `APFollows`: `APInv` says that hostapd is written for, and runs on,
  interfaces of attempts only, what the access point's step leaves (`APReady`), and that
  once a wireless LAN is configured the file names that LAN, so that a restart of the
  host can start it on no other (`RunsFor`).
  `OthersLeftAlone` and `LANKeepsItsAddress` need to know where blocks of `dhcpcd.conf`,
  connections and addresses come from: `GivenInv` traces each to an attempt, or to the
  host's own file, in `given`. `OthersInv` adds that NetworkManager keeps one connection of a wired LAN, and
  that after a restart of the host a configured router has no fixed address but its LAN's
  and those a manager kept. `AddressInv` says of the LAN of a request whose address was taken, and of the
  configured one, where nothing else ever gave the interface an address (`Fresh`), that a
  manager which took the address gives it back (`KeepsAddress`), that a wireless LAN lacks
  it at most until the next start of the service (`StillHasAddress`), or that
  `ensureLANAddress` was content with a lease (`ByChance`).

* `SubnetsProofs` has the arithmetic that the checks of a form rest on, for any width of
  addresses. That `Pow2` is a function at all, and a power of two a product of smaller
  ones (`Pow2Sum`), is shown by induction over sets of natural numbers
  (`InductionOverSet`). Blocks therefore divide each other, which gives
  `OverlapIsSharing`: the code's test, two network addresses and two masks, is true
  exactly for subnets that have an address in common. `SomeCandidateIsApart`: a WAN lies
  within one half of the address space, the candidates do not (`SubnetsAssumption`).
  `NetmaskOfPrefix`: the mask shifted in a word of `Bits` bits is the block's complement.
* `LANIsApart`, `RefusalsAreRight`, `SuggestionPasses` and `NetmaskMatches` follow with
  `ChecksInv`: what `Validate` decided is about the addresses the request still has.

Every invariant and action property of a passing run is so a theorem. Only
model-checked are the five liveness properties of `session_live` (temporal logic with
fairness is beyond the prover) and that the statements of section 4 are violated.

## 6. Not modelled, and what is left

* Policy rules and host routes (`routing.go` 152-330): each pass sets them to the same
  values of the configuration, so only commands that fail could tell two orders apart.
  `ip route del` is given a whole route as one argument (165), so that tunnel defaults
  stay: one command's syntax, which a model would only repeat.
* The grace period in which a dead openconnect is looked for by name is a free delay.
  A read of `state.json` in the middle of a save is modelled where a reader acts on it
  (watchdogs, `restoreVPNState` after a restart); what a user's page shows for that
  moment is not.
* A dnsmasq file mixed of two writes at once, and the DHCP range, which nothing checks
  for a LAN that was given.
* `Forwarding` is driven by arbitrary jobs, not by the sessions: which job is the last
  one is then not known. `session_natdisc` has that question with the rules as a whole.
* Cookies of a login are gorilla/sessions'; a stored password without the option
  "Save password" is in `Profiles` (`Upsert`), with no property about it.
* Text generation, the network snapshot, the host's package manager, the shell scripts
  and the browser's code are input and output.
* Concurrent setups act on the host at once in the code; in `Setup` there is one, and
  `RouterStore` has their saves.
