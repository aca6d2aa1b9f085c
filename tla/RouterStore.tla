---------------------------- MODULE RouterStore -----------------------------
(***************************************************************************)
(* The router's configuration: SaveRouterConfig and its callers.           *)
(*                                                                         *)
(*   src/handlers/config.go     memory (routerConfig) and config.json      *)
(*   src/handlers/auth.go       the login in force, LoginHandler           *)
(*   src/handlers/setup.go, bootstrap.go   a setup request                 *)
(*   src/handlers/routing.go, dns.go   resolvedWANGateway, and who runs it *)
(*   src/handlers/vpn.go        finishConnected's LastProfileID            *)
(*                                                                         *)
(* Each caller reads a RouterConfig, changes a field of its copy and saves *)
(* the copy; configMu is held by each read and each save, not across both. *)
(***************************************************************************)
EXTENDS Naturals

CONSTANTS
    Setups,      \* requests to /setup/apply, each with its admin login
    Keepers,     \* goroutines that run resolvedWANGateway
    Profiles,    \* VPN profiles
    Gateways,    \* addresses the WAN's gateway may have
    MaxChanges,  \* bound: changes of the gateway
    MaxFailures, \* bound: failures of the disk or of a setup step
    MaxRestarts  \* bound: restarts of the service

None == "none"
Finish == "finish"   \* finishConnected; vpnMu lets one run at a time
Login == "login"     \* a request to LoginHandler
Callers == Setups \cup Keepers \cup {Finish, Login}

ASSUME StoreAssumption ==
    /\ Setups # {}
    /\ None \notin Setups \cup Keepers \cup Profiles \cup Gateways /\ "torn" \notin Gateways
    /\ {Finish, Login} \cap (Setups \cup Keepers) = {} /\ Setups \cap Keepers = {}
    /\ MaxChanges \in Nat /\ MaxFailures \in Nat /\ MaxRestarts \in Nat

VARIABLES
    routerConfig,   \* in memory
    configFile,     \* config.json; Torn once truncated and not yet written
    configMu,       \* the caller that writes the file, or None
    login,          \* defaultUsername and defaultPassword
    gateway,        \* what the kernel's routes say
    pc, cfg,        \* of each caller: where it is, and the copy it has read
    given, then,    \* of each caller: what it saves, and where that returns to
    requests,       \* history: the setups that were accepted
    lastConnected,  \* history: the last profile finishConnected saved
    changes, failures, restarts

storeVars == <<routerConfig, configFile, configMu, login>>
callVars == <<pc, cfg, given, then>>
historyVars == <<requests, lastConnected>>
countVars == <<changes, failures, restarts>>
vars == <<storeVars, callVars, gateway, historyVars, countVars>>

\* admin stands for all that a setup request sets, WANInterface among it.
Config == [configured : BOOLEAN, admin : Setups \cup {None},
           last : Profiles \cup {None}, gw : Gateways \cup {None}]
NoConfig == [configured |-> FALSE, admin |-> None, last |-> None, gw |-> None]
Torn == [NoConfig EXCEPT !.gw = "torn"]

Places == {"idle", "dnsmasq", "steps", "save", "writing", "creds", "nat", "resolve", "learn",
           "ap", "login", "done", "failed"}
Returns == {"idle", "steps", "nat", "resolve", "learn", "ap"}

TypeOK ==
    /\ routerConfig \in Config /\ configFile \in Config \cup {Torn}
    /\ configMu \in Callers \cup {None}
    /\ login \in Setups \cup {None}
    /\ gateway \in Gateways \cup {None}
    /\ pc \in [Callers -> Places] /\ then \in [Callers -> Returns]
    /\ cfg \in [Callers -> Config] /\ given \in [Callers -> Config]
    /\ requests \subseteq Setups
    /\ lastConnected \in Profiles \cup {None}
    /\ changes \in 0 .. MaxChanges /\ failures \in 0 .. MaxFailures
    /\ restarts \in 0 .. MaxRestarts

\* Mutant: what could be read of a broken file is used.
LoadAnyway(file) == file

\* LoadRouterConfig: a file that does not parse is no configuration.
LoadRouterConfig(file) == IF file = Torn THEN NoConfig ELSE file

Init ==
    /\ routerConfig = NoConfig /\ configFile = NoConfig
    /\ configMu = None /\ login = None
    /\ gateway \in Gateways \cup {None}
    /\ pc = [c \in Callers |-> "idle"] /\ then = [c \in Callers |-> "idle"]
    /\ cfg = [c \in Callers |-> NoConfig] /\ given = cfg
    /\ requests = {} /\ lastConnected = None
    /\ changes = 0 /\ failures = 0 /\ restarts = 0

-----------------------------------------------------------------------------
(* The steps of a caller.                                                  *)

Unlocked == configMu = None

Goes(c, from, to) == pc[c] = from /\ pc' = [pc EXCEPT ![c] = to]

\* c calls SaveRouterConfig(copy), and goes on at next when it has returned; what
\* it has read itself stays as it is.
CallsSave(c, from, copy, next) ==
    /\ Goes(c, from, "save")
    /\ given' = [given EXCEPT ![c] = copy]
    /\ then' = [then EXCEPT ![c] = next]
    /\ UNCHANGED cfg

\* A caller that has its save behind it forgets what it gave, and with its last
\* step what it has read.
Drops(c) ==
    /\ cfg' = [cfg EXCEPT ![c] = IF pc'[c] = "idle" THEN NoConfig ELSE @]
    /\ given' = [given EXCEPT ![c] = NoConfig]
    /\ then' = [then EXCEPT ![c] = "idle"]

\* SaveRouterConfig: lock, truncate the file ...
SaveBegins(c) ==
    /\ Unlocked /\ Goes(c, "save", "writing")
    /\ configMu' = c
    /\ configFile' = Torn
    /\ UNCHANGED <<routerConfig, login, cfg, given, then, gateway, historyVars, countVars>>

\* Mutant: the lock is released before memory is assigned.
SaveEndsEarly(c) ==
    /\ configMu = c /\ Goes(c, "writing", "creds")
    /\ configMu' = None
    /\ configFile' = given[c]
    /\ UNCHANGED <<routerConfig, login, cfg, given, then, gateway, historyVars, countVars>>

\* ... write it, assign memory, unlock ...
SaveEnds(c) ==
    /\ configMu = c /\ Goes(c, "writing", "creds")
    /\ configMu' = None
    /\ configFile' = given[c]
    /\ routerConfig' = given[c]
    /\ lastConnected' = IF c = Finish THEN given[c].last ELSE lastConnected
    /\ UNCHANGED <<login, cfg, given, then, gateway, requests, countVars>>

\* Mutant: the login is left to SetRuntimeCredentials.
SaveLeavesLogin(c) ==
    /\ Goes(c, "creds", then[c]) /\ Drops(c)
    /\ UNCHANGED <<storeVars, gateway, historyVars, countVars>>

\* ... and, unlocked, put the login of the copy in force (applyAuthCredentials).
SaveAppliesLogin(c) ==
    /\ Goes(c, "creds", then[c]) /\ Drops(c)
    /\ login' = IF given[c].admin # None THEN given[c].admin ELSE login
    /\ UNCHANGED <<routerConfig, configFile, configMu, gateway, historyVars, countVars>>

\* MkdirAll or WriteFile fails, with or without having truncated the file; only
\* the first save of a setup minds.
SaveFails(c) ==
    /\ failures < MaxFailures /\ failures' = failures + 1
    /\ pc' = [pc EXCEPT ![c] = IF then[c] = "nat" THEN "failed" ELSE then[c]]
    /\ \/ Unlocked /\ pc[c] = "save" /\ UNCHANGED configMu
       \/ pc[c] = "writing" /\ configMu = c /\ configMu' = None
    /\ Drops(c)
    /\ UNCHANGED <<routerConfig, configFile, login, gateway, historyVars,
                   changes, restarts>>

-----------------------------------------------------------------------------
(* resolvedWANGateway(cfg), with the copy its caller took when it began.   *)

ResolvesGateway(c, next) ==
    \/ /\ gateway # None /\ gateway # cfg[c].gw /\ cfg[c].admin # None
       /\ CallsSave(c, "resolve", [cfg[c] EXCEPT !.gw = gateway], next)
    \/ /\ gateway \in {None, cfg[c].gw} \/ cfg[c].admin = None
       /\ Goes(c, "resolve", next)
       /\ cfg' = [cfg EXCEPT ![c] = IF next = "idle" THEN NoConfig ELSE @]
       /\ UNCHANGED <<given, then>>

\* ApplyDirectNAT, ApplyVPNNAT, a watchdog: GetRouterConfig, and then, more than
\* once with that copy, resolvedWANGateway, which leaves it as it is.  Sessions and
\* main's own jobs are those of a configured router.
KeeperReads(k) ==
    /\ Unlocked /\ routerConfig.configured /\ Goes(k, "idle", "resolve")
    /\ cfg' = [cfg EXCEPT ![k] = routerConfig]
    /\ UNCHANGED <<storeVars, given, then, gateway, historyVars, countVars>>

KeeperResolves(k) ==
    /\ \E next \in {"resolve", "idle"} : ResolvesGateway(k, next)
    /\ UNCHANGED <<storeVars, gateway, historyVars, countVars>>

-----------------------------------------------------------------------------
(* A session has connected: LastProfileID is saved.  Only a user who has   *)
(* logged in to a configured router can have started it.                   *)

FinishSavesProfile ==
    /\ Unlocked /\ routerConfig.configured
    /\ \E p \in Profiles : CallsSave(Finish, "idle", [routerConfig EXCEPT !.last = p], "idle")
    /\ UNCHANGED <<storeVars, gateway, historyVars, countVars>>

\* LoginHandler puts the login of the configuration it reads in force again.
LoginReads ==
    /\ Unlocked /\ Goes(Login, "idle", "creds")
    /\ given' = [given EXCEPT ![Login] = routerConfig]
    /\ then' = [then EXCEPT ![Login] = "idle"]
    /\ UNCHANGED <<storeVars, cfg, gateway, historyVars, countVars>>

-----------------------------------------------------------------------------
(* SetupApplyHandler and ApplyBootstrapWithProgress.                       *)

SetupConfig(s) == [NoConfig EXCEPT !.configured = TRUE, !.admin = s]

\* What the request asked for, before Configured is set.
EarlyConfig(s, gw) == [NoConfig EXCEPT !.admin = s, !.gw = gw]

SetupStep(s, from, to) ==
    /\ Goes(s, from, to)
    /\ UNCHANGED <<storeVars, cfg, given, then, gateway, lastConnected, countVars>>

\* A request, or the same sent again; 409 once the router is configured.
SetupAccepted(s) ==
    /\ Unlocked /\ ~routerConfig.configured
    /\ \E from \in {"idle", "failed"} : SetupStep(s, from, "dnsmasq")
    /\ requests' = requests \cup {s}

\* Packages, forwarding, LAN interface and access point, then dnsmasq: where the
\* WAN has no DNS servers resolvedWANGateway is asked, and saves the request's
\* copy, which is not Configured yet.
SetupSavesEarly(s) ==
    /\ gateway # None
    /\ CallsSave(s, "dnsmasq", EarlyConfig(s, gateway), "steps")
    /\ UNCHANGED <<storeVars, gateway, historyVars, countVars>>

SetupKnowsServers(s) == SetupStep(s, "dnsmasq", "steps") /\ UNCHANGED requests

SetupSaves(s) ==
    /\ CallsSave(s, "steps", SetupConfig(s), "nat")
    /\ UNCHANGED <<storeVars, gateway, historyVars, countVars>>

\* A step before the save fails, or the access point does not start after it.
SetupFails(s) ==
    /\ failures < MaxFailures /\ failures' = failures + 1
    /\ pc[s] \in {"dnsmasq", "steps", "ap"} /\ pc' = [pc EXCEPT ![s] = "failed"]
    /\ UNCHANGED <<storeVars, cfg, given, then, gateway, historyVars, changes, restarts>>

\* ApplyDirectNAT reads the configuration again, and its ApplyDirectDNS once more.
SetupAppliesNAT(s) ==
    /\ Unlocked /\ \E from \in {"nat", "resolve"} : Goes(s, from, "resolve")
    /\ cfg' = [cfg EXCEPT ![s] = routerConfig]
    /\ UNCHANGED <<storeVars, given, then, gateway, historyVars, countVars>>

SetupResolves(s) ==
    /\ \E next \in {"resolve", "learn"} : ResolvesGateway(s, next)
    /\ UNCHANGED <<storeVars, gateway, historyVars, countVars>>

\* Mutant: Configured is set on a copy that only the first save is given.
LearnsWithRequest(s) ==
    /\ gateway # None
    /\ CallsSave(s, "learn", EarlyConfig(s, gateway), "ap")
    /\ UNCHANGED <<storeVars, gateway, historyVars, countVars>>

\* The gateway is saved with the request's own copy.
SetupLearnsGateway(s) ==
    /\ gateway # None
    /\ CallsSave(s, "learn", [SetupConfig(s) EXCEPT !.gw = gateway], "ap")
    /\ UNCHANGED <<storeVars, gateway, historyVars, countVars>>

SetupKnowsNoGateway(s) ==
    gateway = None /\ SetupStep(s, "learn", "ap") /\ UNCHANGED requests

SetupStartsAP(s) == SetupStep(s, "ap", "login") /\ UNCHANGED requests

SetupSetsLogin(s) ==
    /\ Goes(s, "login", "done")
    /\ login' = s
    /\ UNCHANGED <<routerConfig, configFile, configMu, cfg, given, then, gateway,
                   historyVars, countVars>>

-----------------------------------------------------------------------------
(* The host.                                                               *)

GatewayChanges ==
    /\ changes < MaxChanges /\ changes' = changes + 1
    /\ gateway' \in Gateways \cup {None} /\ gateway' # gateway
    /\ UNCHANGED <<storeVars, callVars, historyVars, failures, restarts>>

Crash ==
    LET loaded == LoadRouterConfig(configFile) IN
    /\ restarts < MaxRestarts /\ restarts' = restarts + 1
    /\ routerConfig' = loaded
    /\ configMu' = None
    /\ login' = loaded.admin
    /\ pc' = [c \in Callers |-> "idle"]
    /\ cfg' = [c \in Callers |-> NoConfig] /\ given' = cfg'
    /\ then' = [c \in Callers |-> "idle"]
    /\ lastConnected' = loaded.last
    /\ UNCHANGED <<configFile, gateway, requests, changes, failures>>

Save(c) == SaveBegins(c) \/ SaveEnds(c) \/ SaveAppliesLogin(c) \/ SaveFails(c)

Setup(s) ==
    \/ SetupAccepted(s) \/ SetupSavesEarly(s) \/ SetupKnowsServers(s)
    \/ SetupSaves(s) \/ SetupFails(s) \/ SetupAppliesNAT(s)
    \/ SetupResolves(s) \/ SetupLearnsGateway(s) \/ SetupKnowsNoGateway(s)
    \/ SetupStartsAP(s) \/ SetupSetsLogin(s)

Next ==
    \/ \E c \in Callers : Save(c)
    \/ \E s \in Setups : Setup(s)
    \/ \E k \in Keepers : KeeperReads(k) \/ KeeperResolves(k)
    \/ FinishSavesProfile \/ LoginReads
    \/ GatewayChanges \/ Crash

Spec == Init /\ [][Next]_vars

-----------------------------------------------------------------------------
(* Properties.                                                             *)

\* A restart never falls back to an older configuration than the one the
\* service ran with: the file holds what memory holds, or, after a failed or
\* interrupted write, does not parse.
FileFollowsMemory == Unlocked => configFile \in {routerConfig, Torn}

\* A configured router goes back to first-boot setup only by a restart that finds
\* the file torn: whoever saves a copy without Configured, as the dnsmasq step of a
\* setup may, does so before the router is configured.  A second setup, accepted
\* while the first was at work, is left out: its dnsmasq step takes it back.
OneSetup(s) == requests \subseteq {s}
StaysConfigured ==
    [][routerConfig.configured /\ ~routerConfig'.configured
         => \/ configFile = Torn /\ restarts' # restarts
            \/ \A s \in Setups : ~OneSetup(s)]_vars

\* Whoever set the router up can log in with what was typed, and still can
\* after a restart, also if the setup failed after its save: no save and no
\* login request puts an older login in force; two setups are left out.
SaveAtRest == \A c \in Callers : pc[c] \notin {"save", "writing", "creds"}
LoginIsTheSavedOne ==
    \A s \in Setups :
        SaveAtRest /\ OneSetup(s) /\ routerConfig.admin = s => login = s

-----------------------------------------------------------------------------
\* README.md:139: reconnect "uses last profile".  A save of an older copy takes
\* the profile that connected last out of the configuration again.
ReconnectUsesLastProfile == SaveAtRest => routerConfig.last = lastConnected
=============================================================================
