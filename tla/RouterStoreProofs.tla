------------------------- MODULE RouterStoreProofs --------------------------
(***************************************************************************)
(* Proofs about RouterStore, for any callers, profiles and bounds.         *)
(***************************************************************************)
EXTENDS RouterStore, TLAPS

\* Steps of the callers other than those of SaveRouterConfig.
Quietly ==
    \/ \E s \in Setups : Setup(s)
    \/ \E k \in Keepers : KeeperReads(k) \/ KeeperResolves(k)
    \/ FinishSavesProfile \/ LoginReads

LEMMA CallersAre ==
    /\ Setups \subseteq Callers /\ Keepers \subseteq Callers
    /\ Finish \in Callers /\ Login \in Callers /\ None \notin Callers
  BY StoreAssumption DEF Callers, None, Finish, Login

LEMMA NextCases ==
    Next <=> \/ \E c \in Callers : Save(c)
             \/ Quietly \/ GatewayChanges \/ Crash
  BY DEF Next, Quietly

LEMMA ConfigsAre ==
    /\ NoConfig \in Config /\ Torn \notin Config
    /\ Torn.configured = FALSE /\ Torn.admin = None /\ NoConfig.admin = None
    /\ \A s \in Setups : SetupConfig(s) \in Config /\ SetupConfig(s).configured
                            /\ SetupConfig(s).admin = s
    /\ \A s \in Setups, g \in Gateways :
         /\ EarlyConfig(s, g) \in Config /\ ~EarlyConfig(s, g).configured
         /\ EarlyConfig(s, g).admin = s
         /\ [SetupConfig(s) EXCEPT !.gw = g] \in Config
         /\ [SetupConfig(s) EXCEPT !.gw = g].configured
         /\ [SetupConfig(s) EXCEPT !.gw = g].admin = s
    /\ \A c \in Config, g \in Gateways :
         /\ [c EXCEPT !.gw = g] \in Config
         /\ [c EXCEPT !.gw = g].configured = c.configured
         /\ [c EXCEPT !.gw = g].admin = c.admin
    /\ \A c \in Config, p \in Profiles :
         /\ [c EXCEPT !.last = p] \in Config
         /\ [c EXCEPT !.last = p].configured = c.configured
         /\ [c EXCEPT !.last = p].admin = c.admin
  <1> USE StoreAssumption DEF Config, None
  <1>1. NoConfig \in Config /\ NoConfig.admin = None
    BY DEF NoConfig
  <1>2. Torn \notin Config /\ Torn.configured = FALSE /\ Torn.admin = None
    BY DEF Torn, NoConfig
  <1>3. ASSUME NEW s \in Setups
        PROVE  SetupConfig(s) \in Config /\ SetupConfig(s).configured /\ SetupConfig(s).admin = s
    BY DEF SetupConfig, NoConfig
  <1>4. ASSUME NEW s \in Setups, NEW g \in Gateways
        PROVE  /\ EarlyConfig(s, g) \in Config /\ ~EarlyConfig(s, g).configured
               /\ EarlyConfig(s, g).admin = s
    BY DEF EarlyConfig, NoConfig
  <1>5. ASSUME NEW c \in Config, NEW g \in Gateways
        PROVE  /\ [c EXCEPT !.gw = g] \in Config
               /\ [c EXCEPT !.gw = g].configured = c.configured
               /\ [c EXCEPT !.gw = g].admin = c.admin
    OBVIOUS
  <1>6. ASSUME NEW c \in Config, NEW p \in Profiles
        PROVE  /\ [c EXCEPT !.last = p] \in Config
               /\ [c EXCEPT !.last = p].configured = c.configured
               /\ [c EXCEPT !.last = p].admin = c.admin
    OBVIOUS
  <1>7. ASSUME NEW s \in Setups, NEW g \in Gateways
        PROVE  /\ [SetupConfig(s) EXCEPT !.gw = g] \in Config
               /\ [SetupConfig(s) EXCEPT !.gw = g].configured
               /\ [SetupConfig(s) EXCEPT !.gw = g].admin = s
    BY <1>3, <1>5
  <1>8. QED
    BY <1>1, <1>2, <1>3, <1>4, <1>5, <1>6, <1>7

-----------------------------------------------------------------------------
LEMMA SaveTypes ==
    ASSUME TypeOK, NEW c \in Callers, Save(c) PROVE TypeOK'
  <1> USE ConfigsAre DEF TypeOK, Goes
  <1>1. CASE SaveBegins(c)
    BY <1>1 DEF SaveBegins, Places, countVars, historyVars
  <1>2. CASE SaveEnds(c)
    BY <1>2 DEF SaveEnds, Places, countVars, Config
  <1>3. CASE SaveAppliesLogin(c)
    <2>1. login' \in Setups \cup {None}
      BY <1>3 DEF SaveAppliesLogin, Config
    <2>2. cfg' \in [Callers -> Config] /\ given' \in [Callers -> Config]
      BY <1>3 DEF SaveAppliesLogin, Drops
    <2>3. QED
      BY <1>3, <2>1, <2>2 DEF SaveAppliesLogin, Drops, countVars, historyVars, Places, Returns
  <1>4. CASE SaveFails(c)
    <2>1. cfg' \in [Callers -> Config] /\ given' \in [Callers -> Config]
      BY <1>4 DEF SaveFails, Drops
    <2>2. QED
      BY <1>4, <2>1, StoreAssumption DEF SaveFails, Drops, historyVars, Places, Returns
  <1>5. QED
    BY <1>1, <1>2, <1>3, <1>4 DEF Save

LEMMA QuietTypes ==
    ASSUME TypeOK, Quietly PROVE TypeOK'
  <1> USE CallersAre, ConfigsAre DEF TypeOK, Goes, Places, Returns, CallsSave, storeVars, countVars,
        historyVars, SetupStep
  <1>1. ASSUME NEW c \in Callers, NEW next \in Returns, ResolvesGateway(c, next)
        PROVE  /\ pc' \in [Callers -> Places] /\ then' \in [Callers -> Returns]
               /\ cfg' \in [Callers -> Config] /\ given' \in [Callers -> Config]
    BY <1>1 DEF ResolvesGateway
  <1>2. CASE \E k \in Keepers : KeeperReads(k) \/ KeeperResolves(k)
    <2>1. PICK k \in Keepers : KeeperReads(k) \/ KeeperResolves(k)
      BY <1>2
    <2>2. CASE KeeperReads(k)
      BY <2>2 DEF KeeperReads
    <2>3. CASE KeeperResolves(k)
      BY <1>1, <2>3 DEF KeeperResolves
    <2>4. QED
      BY <2>1, <2>2, <2>3
  <1>3. CASE FinishSavesProfile \/ LoginReads
    BY <1>3 DEF FinishSavesProfile, LoginReads
  <1>4. ASSUME NEW s \in Setups, Setup(s) PROVE TypeOK'
    <2>1. CASE SetupAccepted(s) \/ SetupKnowsServers(s) \/ SetupKnowsNoGateway(s) \/ SetupStartsAP(s)
      BY <2>1 DEF SetupAccepted, SetupKnowsServers, SetupKnowsNoGateway, SetupStartsAP
    <2>2. CASE SetupSaves(s) \/ SetupLearnsGateway(s)
      BY <2>2 DEF SetupSaves, SetupLearnsGateway
    <2>3. CASE SetupSavesEarly(s)
      <3>1. EarlyConfig(s, gateway) \in Config
        BY <2>3 DEF SetupSavesEarly
      <3>2. QED
        BY <2>3, <3>1 DEF SetupSavesEarly
    <2>4. CASE SetupFails(s)
      BY <2>4, StoreAssumption DEF SetupFails
    <2>5. CASE SetupAppliesNAT(s) \/ SetupSetsLogin(s)
      BY <2>5 DEF SetupAppliesNAT, SetupSetsLogin
    <2>6. CASE SetupResolves(s)
      BY <1>1, <2>6 DEF SetupResolves
    <2>7. QED
      BY <1>4, <2>1, <2>2, <2>3, <2>4, <2>5, <2>6 DEF Setup
  <1>5. QED
    BY <1>2, <1>3, <1>4 DEF Quietly

LEMMA HostTypes ==
    ASSUME TypeOK, GatewayChanges \/ Crash PROVE TypeOK'
  <1>1. CASE GatewayChanges
    BY <1>1, StoreAssumption DEF TypeOK, GatewayChanges, storeVars, callVars, historyVars
  <1>2. CASE Crash
    <2>1. LoadRouterConfig(configFile) \in Config
      BY ConfigsAre DEF LoadRouterConfig, TypeOK
    <2>2. QED
      BY <1>2, <2>1, ConfigsAre, StoreAssumption DEF TypeOK, Crash, Config, Places, Returns
  <1>3. QED
    BY <1>1, <1>2

\* Memory and file are configurations, or the file is torn, and every caller is
\* at one of its places.
THEOREM TypeCorrect == Spec => []TypeOK
  <1>1. Init => TypeOK
    BY ConfigsAre, StoreAssumption DEF Init, TypeOK, Places, Returns
  <1>2. TypeOK /\ [Next]_vars => TypeOK'
    BY NextCases, SaveTypes, QuietTypes, HostTypes
       DEF vars, storeVars, callVars, historyVars, countVars, TypeOK
  <1>3. QED
    BY <1>1, <1>2, PTL DEF Spec

-----------------------------------------------------------------------------
\* The file is torn exactly while, and after, somebody writes it; and whoever
\* writes it holds the lock.
FileInv ==
    /\ IF Unlocked THEN configFile \in {routerConfig, Torn} ELSE configFile = Torn
    /\ \A c \in Callers : pc[c] = "writing" <=> configMu = c

\* Only an accepted setup is at work.
Requested == \A t \in Setups : pc[t] # "idle" => t \in requests

StoreInv == FileInv /\ Requested

LEMMA SaveKeepsInv ==
    ASSUME TypeOK, StoreInv, NEW c \in Callers, Save(c) PROVE StoreInv' /\ requests' = requests
  <1> USE CallersAre DEF TypeOK, Goes, StoreInv, FileInv, Requested, Unlocked, Returns, historyVars
  <1>1. CASE SaveBegins(c)
    BY <1>1 DEF SaveBegins
  <1>2. CASE SaveEnds(c)
    BY <1>2 DEF SaveEnds
  <1>3. CASE SaveAppliesLogin(c)
    BY <1>3 DEF SaveAppliesLogin
  <1>4. CASE SaveFails(c)
    BY <1>4 DEF SaveFails
  <1>5. QED
    BY <1>1, <1>2, <1>3, <1>4 DEF Save

\* What the other steps of a caller have in common: only c moves, and it neither
\* begins nor ends a write; what it reads or gives names an admin that it or memory
\* knew, or itself.
Turn(c) ==
    /\ pc[c] \notin {"save", "writing", "creds"} /\ pc'[c] # "writing"
    /\ \A d \in Callers \ {c} : /\ pc'[d] = pc[d] /\ then'[d] = then[d]
                                /\ cfg'[d] = cfg[d] /\ given'[d] = given[d]
    /\ UNCHANGED <<routerConfig, configFile, configMu, restarts>>
    /\ requests' = requests \/ (c \in Setups /\ requests' = requests \cup {c})
    /\ c \in Setups => c \in requests'
    /\ login' = login \/ (c \in Setups /\ login' = c)
    /\ \A x \in {cfg'[c], given'[c]} :
          \/ x.admin \in {None, cfg[c].admin, given[c].admin, routerConfig.admin}
          \/ c \in Setups /\ x.admin = c

LEMMA SavingTurns ==
    ASSUME TypeOK, NEW c \in Callers, NEW from \in Places \ {"save", "writing", "creds"},
           NEW copy \in Config, NEW next,
           CallsSave(c, from, copy, next), UNCHANGED <<storeVars, historyVars, countVars>>,
           c \in Setups => c \in requests,
           \/ copy.admin \in {cfg[c].admin, routerConfig.admin}
           \/ c \in Setups /\ copy.admin = c
    PROVE  Turn(c)
  BY DEF TypeOK, CallsSave, Goes, Turn, storeVars, historyVars, countVars

LEMMA ResolvingTurns ==
    ASSUME TypeOK, NEW c \in Callers, NEW next \in Returns, ResolvesGateway(c, next),
           UNCHANGED <<storeVars, historyVars, countVars>>, c \in Setups => c \in requests
    PROVE  Turn(c)
  <1>1. CASE gateway # None /\ CallsSave(c, "resolve", [cfg[c] EXCEPT !.gw = gateway], next)
    <2>1. gateway \in Gateways /\ cfg[c] \in Config
      BY <1>1 DEF TypeOK
    <2>2. /\ [cfg[c] EXCEPT !.gw = gateway] \in Config
          /\ [cfg[c] EXCEPT !.gw = gateway].admin = cfg[c].admin
      BY <2>1, ConfigsAre
    <2>3. QED
      BY <1>1, <2>2, SavingTurns DEF Places
  <1>2. CASE /\ Goes(c, "resolve", next) /\ UNCHANGED <<given, then>>
             /\ cfg' = [cfg EXCEPT ![c] = IF next = "idle" THEN NoConfig ELSE @]
    BY <1>2, ConfigsAre DEF TypeOK, Goes, Turn, Returns, storeVars, historyVars, countVars
  <1>3. QED
    BY <1>1, <1>2 DEF ResolvesGateway

LEMMA SetupTurns ==
    ASSUME TypeOK, Requested, NEW s \in Setups, Setup(s) PROVE Turn(s)
  <1> USE CallersAre, ConfigsAre
  <1>1. CASE SetupAccepted(s)
    BY <1>1 DEF SetupAccepted, SetupStep, Goes, Turn, TypeOK, storeVars, countVars
  <1>2. CASE ~SetupAccepted(s)
    <2>1. pc[s] # "idle" /\ requests' = requests
      BY <1>2 DEF Setup, SetupSavesEarly, SetupKnowsServers, SetupSaves, SetupFails,
           SetupAppliesNAT, SetupResolves, ResolvesGateway, SetupLearnsGateway,
           SetupKnowsNoGateway, SetupStartsAP, SetupSetsLogin, SetupStep, CallsSave, Goes,
           historyVars
    <2>2. s \in requests
      BY <2>1 DEF Requested
    <2>3. CASE SetupKnowsServers(s) \/ SetupKnowsNoGateway(s) \/ SetupStartsAP(s)
      BY <2>1, <2>2, <2>3 DEF SetupKnowsServers, SetupKnowsNoGateway, SetupStartsAP, SetupStep,
           Goes, Turn, TypeOK, storeVars, countVars
    <2>4. CASE SetupSavesEarly(s)
      <3>1. gateway \in Gateways
        BY <2>4 DEF SetupSavesEarly, TypeOK
      <3>2. EarlyConfig(s, gateway) \in Config /\ EarlyConfig(s, gateway).admin = s
        BY <3>1
      <3>3. QED
        BY <2>2, <2>4, <3>2, SavingTurns DEF SetupSavesEarly, Places
    <2>5. CASE SetupSaves(s)
      BY <2>2, <2>5, SavingTurns DEF SetupSaves, Places
    <2>6. CASE SetupLearnsGateway(s)
      <3>1. gateway \in Gateways
        BY <2>6 DEF SetupLearnsGateway, TypeOK
      <3>2. /\ [SetupConfig(s) EXCEPT !.gw = gateway] \in Config
            /\ [SetupConfig(s) EXCEPT !.gw = gateway].admin = s
        BY <3>1
      <3>3. QED
        BY <2>2, <2>6, <3>2, SavingTurns DEF SetupLearnsGateway, Places
    <2>7. CASE SetupFails(s)
      BY <2>1, <2>2, <2>7 DEF SetupFails, Turn, TypeOK, storeVars
    <2>8. CASE SetupAppliesNAT(s)
      BY <2>1, <2>2, <2>8 DEF SetupAppliesNAT, Goes, Turn, TypeOK, storeVars, countVars
    <2>9. CASE SetupSetsLogin(s)
      BY <2>1, <2>2, <2>9 DEF SetupSetsLogin, Goes, Turn, TypeOK, countVars
    <2>10. CASE SetupResolves(s)
      BY <2>2, <2>10, ResolvingTurns DEF SetupResolves, Returns
    <2>11. QED
      BY <1>2, <2>3, <2>4, <2>5, <2>6, <2>7, <2>8, <2>9, <2>10 DEF Setup
  <1>3. QED
    BY <1>1, <1>2

LEMMA QuietTurns ==
    ASSUME TypeOK, Requested, Quietly PROVE \E c \in Callers : Turn(c)
  <1> USE CallersAre
  <1>1. ASSUME NEW k \in Keepers, KeeperReads(k) \/ KeeperResolves(k) PROVE Turn(k)
    <2>1. k \notin Setups
      BY StoreAssumption
    <2>2. CASE KeeperReads(k)
      BY <2>1, <2>2 DEF KeeperReads, Goes, Turn, TypeOK, storeVars, historyVars, countVars
    <2>3. CASE KeeperResolves(k)
      BY <2>1, <2>3, ResolvingTurns DEF KeeperResolves, Returns, GatewayChanges
    <2>4. QED
      BY <1>1, <2>2, <2>3
  <1>2. CASE FinishSavesProfile
    <2>1. PICK p \in Profiles : CallsSave(Finish, "idle", [routerConfig EXCEPT !.last = p], "idle")
      BY <1>2 DEF FinishSavesProfile
    <2>2. /\ [routerConfig EXCEPT !.last = p] \in Config
          /\ [routerConfig EXCEPT !.last = p].admin = routerConfig.admin
      BY ConfigsAre DEF TypeOK
    <2>3. Finish \notin Setups
      BY StoreAssumption
    <2>4. Turn(Finish)
      BY <1>2, <2>1, <2>2, <2>3, SavingTurns DEF FinishSavesProfile, Places
    <2>5. QED
      BY <2>4
  <1>3. CASE LoginReads
    <2>1. Login \notin Setups
      BY StoreAssumption
    <2>2. Turn(Login)
      BY <1>3, <2>1 DEF LoginReads, Goes, Turn, TypeOK, storeVars, historyVars, countVars
    <2>3. QED
      BY <2>2
  <1>4. QED
    BY <1>1, <1>2, <1>3, SetupTurns DEF Quietly

LEMMA InvStep == TypeOK /\ StoreInv /\ [Next]_vars => StoreInv'
  <1> SUFFICES ASSUME TypeOK, StoreInv, [Next]_vars PROVE StoreInv'
    OBVIOUS
  <1> USE CallersAre DEF StoreInv, FileInv, Requested, Unlocked
  <1>1. CASE Quietly
    <2>1. PICK c \in Callers : Turn(c)
      BY <1>1, QuietTurns
    <2>2. QED
      BY <2>1 DEF Turn
  <1>2. CASE Crash
    BY <1>2 DEF Crash, LoadRouterConfig
  <1>3. CASE GatewayChanges \/ UNCHANGED vars
    BY <1>3 DEF GatewayChanges, vars, storeVars, callVars, historyVars
  <1>4. QED
    BY <1>1, <1>2, <1>3, NextCases, SaveKeepsInv

LEMMA InvHolds == Spec => []StoreInv
  <1>1. Init => StoreInv
    BY CallersAre DEF Init, StoreInv, FileInv, Requested, Unlocked
  <1>2. QED
    BY <1>1, InvStep, TypeCorrect, PTL DEF Spec

\* Between two saves the file holds what memory holds or does not parse, so a
\* restart never brings an older configuration back.
THEOREM FileIsNeverOlder == Spec => []FileFollowsMemory
  <1>1. StoreInv => FileFollowsMemory
    BY DEF StoreInv, FileInv, FileFollowsMemory
  <1>2. QED
    BY <1>1, InvHolds, PTL

-----------------------------------------------------------------------------
(* The login.                                                              *)

\* While s is the only setup that was accepted, memory, file and copies name no
\* other admin; his login is in force, or somebody is about to put it in force.
AdminInv(s) ==
    /\ routerConfig.admin \in {None, s} /\ configFile.admin \in {None, s}
    /\ \A c \in Callers : cfg[c].admin \in {None, s} /\ given[c].admin \in {None, s}
    /\ routerConfig.admin = s =>
         login = s \/ \E c \in Callers : pc[c] = "creds" /\ given[c].admin = s

LoginInv == \A s \in Setups : OneSetup(s) => AdminInv(s)

LEMMA TurnKeepsLogin ==
    ASSUME NEW c \in Callers, Turn(c), LoginInv, NEW s \in Setups, OneSetup(s)'
    PROVE  AdminInv(s)'
  <1>1. OneSetup(s) /\ (c \in Setups => c = s)
    BY DEF Turn, OneSetup
  <1>2. AdminInv(s)
    BY <1>1 DEF LoginInv
  <1>3. cfg'[c].admin \in {None, s} /\ given'[c].admin \in {None, s}
    BY <1>1, <1>2 DEF AdminInv, Turn
  <1>4. QED
    BY <1>1, <1>2, <1>3 DEF AdminInv, Turn

LEMMA SaveKeepsLogin ==
    ASSUME TypeOK, NEW c \in Callers, Save(c), NEW s \in Setups, AdminInv(s) PROVE AdminInv(s)'
  <1> USE CallersAre, ConfigsAre DEF TypeOK
  <1>0. s # None
    BY StoreAssumption
  <1>1. CASE SaveBegins(c)
    <2>1. /\ \A d \in Callers : pc[d] = "creds" => pc'[d] = "creds"
          /\ UNCHANGED <<routerConfig, login, cfg, given>> /\ configFile' = Torn
      BY <1>1 DEF SaveBegins, Goes
    <2>2. QED
      BY <2>1 DEF AdminInv
  <1>2. CASE SaveEnds(c)
    <2>1. /\ pc'[c] = "creds" /\ routerConfig' = given[c] /\ configFile' = given[c]
          /\ UNCHANGED <<cfg, given>>
      BY <1>2 DEF SaveEnds, Goes
    <2>2. QED
      BY <2>1 DEF AdminInv
  <1>3. CASE SaveAppliesLogin(c) \/ SaveFails(c)
    <2>1. /\ \A d \in Callers \ {c} : pc'[d] = pc[d] /\ given'[d] = given[d] /\ cfg'[d] = cfg[d]
          /\ cfg'[c] \in {NoConfig, cfg[c]} /\ given'[c] = NoConfig
          /\ UNCHANGED <<routerConfig, configFile>>
      BY <1>3 DEF SaveAppliesLogin, SaveFails, Drops, Goes
    <2>2. \/ login' = login /\ pc[c] # "creds"
          \/ /\ pc[c] = "creds"
             /\ login' = IF given[c].admin # None THEN given[c].admin ELSE login
      BY <1>3 DEF SaveAppliesLogin, SaveFails, Goes
    <2>3. QED
      BY <1>0, <2>1, <2>2 DEF AdminInv
  <1>4. QED
    BY <1>1, <1>2, <1>3 DEF Save

LEMMA LoginStep == TypeOK /\ StoreInv /\ LoginInv /\ [Next]_vars => LoginInv'
  <1> SUFFICES ASSUME TypeOK, StoreInv, LoginInv, [Next]_vars, NEW s \in Setups, OneSetup(s)'
               PROVE  AdminInv(s)'
    BY DEF LoginInv
  <1>1. CASE Quietly
    <2>1. PICK c \in Callers : Turn(c)
      BY <1>1, QuietTurns DEF StoreInv
    <2>2. QED
      BY <2>1, TurnKeepsLogin
  <1>2. ASSUME requests' = requests PROVE AdminInv(s)
    BY <1>2 DEF LoginInv, OneSetup
  <1>3. CASE Crash
    BY <1>2, <1>3, ConfigsAre, CallersAre DEF Crash, LoadRouterConfig, AdminInv
  <1>4. CASE GatewayChanges \/ UNCHANGED vars
    BY <1>2, <1>4 DEF GatewayChanges, vars, storeVars, callVars, historyVars, AdminInv
  <1>5. CASE \E c \in Callers : Save(c)
    BY <1>2, <1>5, SaveKeepsInv, SaveKeepsLogin
  <1>6. QED
    BY <1>1, <1>3, <1>4, <1>5, NextCases

LEMMA LoginHolds == Spec => []LoginInv
  <1>1. Init => LoginInv
    BY ConfigsAre, StoreAssumption DEF Init, LoginInv, AdminInv
  <1>2. QED
    BY <1>1, LoginStep, TypeCorrect, InvHolds, PTL DEF Spec

\* As long as one setup is at work, whoever else saves, reads, fails or restarts, the
\* login in force is the one that was saved.
THEOREM SavedLoginWorks == Spec => []LoginIsTheSavedOne
  <1>1. LoginInv => LoginIsTheSavedOne
    BY DEF LoginInv, AdminInv, LoginIsTheSavedOne, SaveAtRest
  <1>2. QED
    BY <1>1, LoginHolds, PTL

-----------------------------------------------------------------------------
(* Configured.                                                             *)

Saving(c) == pc[c] \in {"save", "writing"}

\* Where s is before the save that sets Configured, and after it.
Before(s) ==
    \/ pc[s] \in {"dnsmasq", "steps"}
    \/ (Saving(s) \/ pc[s] = "creds") /\ then[s] = "steps"
After(s) ==
    \/ pc[s] \in {"nat", "resolve", "learn", "ap", "login", "done"}
    \/ pc[s] = "creds" /\ then[s] # "steps"
    \/ Saving(s) /\ then[s] \in {"resolve", "learn", "ap"}

\* c is at work with a copy it read.
Resolving(c) ==
    pc[c] = "resolve" \/ ((Saving(c) \/ pc[c] = "creds") /\ then[c] = "resolve")

\* While s is the only setup that was accepted, the router is configured exactly from
\* its save on; until then nobody else is at work, and later every copy that is read
\* or saved is a configured one: all but what the dnsmasq step of s saves.
PhaseInv(s) ==
    /\ Before(s) => ~routerConfig.configured
    /\ After(s) => routerConfig.configured
    /\ ~routerConfig.configured => \A k \in Keepers \cup {Finish} : pc[k] = "idle"
    /\ \A c \in Keepers \cup {s} : Resolving(c) => cfg[c].configured
    /\ \A c \in Callers : Saving(c) => (given[c].configured <=> ~(c = s /\ then[c] = "steps"))
    /\ pc[Login] \in {"idle", "creds"} /\ then[Login] = "idle"

PhasesInv == \A s \in Setups : OneSetup(s) => PhaseInv(s)

LEMMA Distinct ==
    /\ Finish # Login /\ \A s \in Setups : s # Finish /\ s # Login /\ s \notin Keepers
    /\ Finish \notin Keepers /\ Login \notin Keepers
    /\ Callers = Setups \cup Keepers \cup {Finish, Login}
  BY StoreAssumption DEF Callers, Finish, Login

\* c alone moves, and memory stays.
Moves(c) ==
    /\ UNCHANGED routerConfig
    /\ \A d \in Callers \ {c} : /\ pc'[d] = pc[d] /\ then'[d] = then[d]
                                /\ cfg'[d] = cfg[d] /\ given'[d] = given[d]

LEMMA MovesKeepPhases ==
    ASSUME NEW s \in Setups, PhaseInv(s), NEW c \in Callers, Moves(c),
           c \in Setups => c = s,
           c = s => /\ Before(s)' => ~routerConfig.configured
                    /\ After(s)' => routerConfig.configured,
           c \in Keepers \cup {Finish} => pc[c] # "idle" \/ routerConfig.configured,
           c \in Keepers \cup {s} => (Resolving(c)' => cfg'[c].configured),
           Saving(c)' => (given'[c].configured <=> ~(c = s /\ then'[c] = "steps")),
           c = Login => pc'[c] \in {"idle", "creds"} /\ then'[c] = "idle"
    PROVE  PhaseInv(s)'
  <1> USE CallersAre, Distinct
  <1>1. Before(s)' => ~routerConfig'.configured
    BY DEF PhaseInv, Moves, Before, Saving
  <1>2. After(s)' => routerConfig'.configured
    BY DEF PhaseInv, Moves, After, Saving
  <1>3. ~routerConfig'.configured => \A k \in Keepers \cup {Finish} : pc'[k] = "idle"
    BY DEF PhaseInv, Moves
  <1>4. \A d \in Keepers \cup {s} : Resolving(d)' => cfg'[d].configured
    BY DEF PhaseInv, Moves, Resolving, Saving
  <1>5. \A d \in Callers : Saving(d)' => (given'[d].configured <=> ~(d = s /\ then'[d] = "steps"))
    BY DEF PhaseInv, Moves, Saving
  <1>6. pc'[Login] \in {"idle", "creds"} /\ then'[Login] = "idle"
    BY DEF PhaseInv, Moves
  <1>7. QED
    BY <1>1, <1>2, <1>3, <1>4, <1>5, <1>6 DEF PhaseInv

LEMMA SaveKeepsPhases ==
    ASSUME TypeOK, StoreInv, NEW s \in Setups, OneSetup(s), PhaseInv(s),
           NEW c \in Callers, Save(c)
    PROVE  PhaseInv(s)'
  <1> USE CallersAre, Distinct
  <1>1. c \in Setups => c = s
    <2>1. pc[c] # "idle"
      BY DEF Save, SaveBegins, SaveEnds, SaveAppliesLogin, SaveFails, Goes
    <2>2. QED
      BY <2>1 DEF StoreInv, Requested, OneSetup
  <1>2. CASE SaveBegins(c)
    <2>1. /\ pc[c] = "save" /\ pc'[c] = "writing"
          /\ UNCHANGED <<cfg, given, then>> /\ Moves(c)
      BY <1>2 DEF SaveBegins, Goes, Moves, TypeOK
    <2>2. QED
      BY <1>1, <2>1, MovesKeepPhases DEF PhaseInv, Before, After, Resolving, Saving
  <1>3. CASE SaveEnds(c)
    <2>1. /\ pc[c] = "writing" /\ pc'[c] = "creds" /\ routerConfig' = given[c]
          /\ \A d \in Callers \ {c} : pc'[d] = pc[d]
          /\ UNCHANGED <<cfg, given, then>>
      BY <1>3 DEF SaveEnds, Goes, TypeOK
    <2>2. c # Login
      BY <2>1 DEF PhaseInv
    <2>3. CASE c = s /\ then[s] = "steps"
      <3>1. ~given[s].configured /\ ~routerConfig.configured
        BY <2>1, <2>3 DEF PhaseInv, Saving, Before
      <3>2. QED
        BY <2>1, <2>3, <3>1 DEF PhaseInv, Before, After, Resolving, Saving
    <2>4. CASE ~(c = s /\ then[s] = "steps")
      <3>1. given[c].configured
        BY <2>1, <2>4 DEF PhaseInv, Saving
      <3>2. ~Before(s)'
        <4>1. CASE c = s
          BY <2>1, <2>4, <4>1 DEF Before, Saving
        <4>2. CASE c # s
          <5>1. c \in Keepers \cup {Finish}
            BY <1>1, <2>2, <4>2
          <5>2. ~Before(s)
            BY <2>1, <5>1 DEF PhaseInv
          <5>3. QED
            BY <2>1, <4>2, <5>2 DEF Before, Saving
        <4>3. QED
          BY <4>1, <4>2
      <3>3. \A d \in Keepers \cup {s} : Resolving(d)' => Resolving(d)
        BY <2>1 DEF Resolving, Saving
      <3>4. \A d \in Callers : Saving(d)' => Saving(d)
        BY <2>1 DEF Saving
      <3>5. QED
        BY <2>1, <2>2, <3>1, <3>2, <3>3, <3>4 DEF PhaseInv
    <2>5. QED
      BY <2>3, <2>4
  <1>4. CASE SaveAppliesLogin(c) \/ SaveFails(c)
    <2>1. /\ pc[c] \in {"save", "writing", "creds"} /\ then[c] \in Returns
          /\ pc'[c] \in {then[c], IF pc[c] # "creds" /\ then[c] = "nat" THEN "failed" ELSE then[c]}
          /\ pc[c] # "creds" /\ then[c] = "nat" => pc'[c] = "failed"
          /\ then'[c] = "idle"
          /\ cfg'[c] = IF pc'[c] = "idle" THEN NoConfig ELSE cfg[c]
      BY <1>4 DEF SaveAppliesLogin, SaveFails, Drops, Goes, TypeOK
    <2>2. Moves(c)
      BY <1>4 DEF SaveAppliesLogin, SaveFails, Drops, Goes, TypeOK, Moves
    <2>3. ~Saving(c)'
      BY <2>1 DEF Saving, Returns
    <2>4. ASSUME c = s
          PROVE  (Before(s)' => ~routerConfig.configured) /\ (After(s)' => routerConfig.configured)
      BY <2>1, <2>4 DEF PhaseInv, Before, After, Saving, Returns
    <2>5. c \in Keepers \cup {s} => (Resolving(c)' => cfg'[c].configured)
      BY <2>1 DEF PhaseInv, Resolving, Saving, Returns
    <2>6. c = Login => pc'[c] \in {"idle", "creds"}
      BY <2>1 DEF PhaseInv
    <2>7. QED
      BY <1>1, <2>1, <2>2, <2>3, <2>4, <2>5, <2>6, MovesKeepPhases
  <1>5. QED
    BY <1>2, <1>3, <1>4 DEF Save

LEMMA ResolvingKeepsPhases ==
    ASSUME TypeOK, NEW s \in Setups, PhaseInv(s), NEW c \in Keepers \cup {s},
           NEW next \in {"resolve", "idle", "learn"}, c = s => next # "idle",
           ResolvesGateway(c, next), UNCHANGED routerConfig
    PROVE  PhaseInv(s)'
  <1> USE CallersAre, Distinct
  <1>1. /\ pc[c] = "resolve" /\ cfg[c].configured /\ cfg[c] \in Config
        /\ c \in Setups => c = s /\ c \in Callers /\ c # Login /\ c # Finish
      BY DEF ResolvesGateway, CallsSave, Goes, PhaseInv, Resolving, TypeOK
  <1>2. c = s => routerConfig.configured
    BY <1>1 DEF PhaseInv, After
  <1>3. CASE gateway # None /\ CallsSave(c, "resolve", [cfg[c] EXCEPT !.gw = gateway], next)
    <2>1. [cfg[c] EXCEPT !.gw = gateway].configured
      BY <1>1, <1>3, ConfigsAre DEF TypeOK
    <2>2. /\ pc'[c] = "save" /\ then'[c] = next /\ cfg'[c] = cfg[c] /\ given'[c].configured
          /\ Moves(c)
      BY <1>3, <2>1 DEF CallsSave, Goes, Moves, TypeOK
    <2>3. QED
      BY <1>1, <1>2, <2>2, MovesKeepPhases DEF Before, After, Resolving, Saving
  <1>4. CASE /\ Goes(c, "resolve", next) /\ UNCHANGED <<given, then>>
             /\ cfg' = [cfg EXCEPT ![c] = IF next = "idle" THEN NoConfig ELSE @]
    <2>1. /\ pc'[c] = next /\ (next # "idle" => cfg'[c] = cfg[c])
          /\ Moves(c)
      BY <1>4 DEF Goes, Moves, TypeOK
    <2>2. QED
      BY <1>1, <1>2, <2>1, MovesKeepPhases DEF Before, After, Resolving, Saving
  <1>5. QED
    BY <1>3, <1>4 DEF ResolvesGateway

LEMMA SetupKeepsPhases ==
    ASSUME TypeOK, NEW s \in Setups, PhaseInv(s), Setup(s) PROVE PhaseInv(s)'
  <1> USE CallersAre, Distinct
  <1>1. s \in Callers /\ s \notin Keepers \cup {Finish, Login}
    OBVIOUS
  <1>2. CASE SetupAccepted(s) \/ SetupKnowsServers(s) \/ SetupKnowsNoGateway(s)
                \/ SetupStartsAP(s) \/ SetupFails(s) \/ SetupSetsLogin(s)
    <2>1. /\ UNCHANGED <<then, given, cfg>> /\ Moves(s)
          /\ \/ ~routerConfig.configured /\ pc'[s] = "dnsmasq"
             \/ pc[s] = "dnsmasq" /\ pc'[s] = "steps"
             \/ pc[s] \in {"learn", "ap", "login"} /\ pc'[s] \in {"ap", "login", "done"}
             \/ pc'[s] = "failed"
      BY <1>2 DEF SetupAccepted, SetupKnowsServers, SetupKnowsNoGateway, SetupStartsAP,
           SetupFails, SetupSetsLogin, SetupStep, Goes, Moves, storeVars, TypeOK
    <2>2. QED
      BY <1>1, <2>1, MovesKeepPhases DEF PhaseInv, Before, After, Resolving, Saving
  <1>3. CASE SetupAppliesNAT(s)
    <2>1. /\ pc[s] \in {"nat", "resolve"} /\ pc'[s] = "resolve" /\ cfg'[s] = routerConfig
          /\ Moves(s)
      BY <1>3 DEF SetupAppliesNAT, Goes, Moves, storeVars, TypeOK
    <2>2. QED
      BY <1>1, <2>1, MovesKeepPhases DEF PhaseInv, Before, After, Resolving, Saving
  <1>4. CASE SetupResolves(s)
    BY <1>4, ResolvingKeepsPhases DEF SetupResolves, storeVars
  <1>5. CASE SetupSavesEarly(s)
    <2>1. ~EarlyConfig(s, gateway).configured
      BY <1>5, ConfigsAre DEF SetupSavesEarly, TypeOK
    <2>2. /\ pc[s] = "dnsmasq" /\ pc'[s] = "save" /\ then'[s] = "steps"
          /\ ~given'[s].configured /\ Moves(s)
      BY <1>5, <2>1 DEF SetupSavesEarly, CallsSave, Goes, Moves, storeVars, TypeOK
    <2>3. QED
      BY <1>1, <2>2, MovesKeepPhases DEF PhaseInv, Before, After, Resolving, Saving
  <1>6. CASE SetupSaves(s)
    <2>1. /\ pc[s] = "steps" /\ pc'[s] = "save" /\ then'[s] = "nat"
          /\ given'[s].configured /\ Moves(s)
      BY <1>6, ConfigsAre DEF SetupSaves, CallsSave, Goes, Moves, storeVars, TypeOK
    <2>2. QED
      BY <1>1, <2>1, MovesKeepPhases DEF Before, After, Resolving, Saving
  <1>7. CASE SetupLearnsGateway(s)
    <2>1. [SetupConfig(s) EXCEPT !.gw = gateway].configured
      BY <1>7, ConfigsAre DEF SetupLearnsGateway, TypeOK
    <2>2. /\ pc[s] = "learn" /\ pc'[s] = "save" /\ then'[s] = "ap"
          /\ given'[s].configured /\ Moves(s)
      BY <1>7, <2>1 DEF SetupLearnsGateway, CallsSave, Goes, Moves, storeVars, TypeOK
    <2>3. QED
      BY <1>1, <2>2, MovesKeepPhases DEF PhaseInv, Before, After, Resolving, Saving
  <1>8. QED
    BY <1>2, <1>3, <1>4, <1>5, <1>6, <1>7 DEF Setup

LEMMA QuietKeepsPhases ==
    ASSUME TypeOK, StoreInv, PhasesInv, Quietly, NEW s \in Setups, OneSetup(s)'
    PROVE  PhaseInv(s)'
  <1> USE CallersAre, Distinct
  <1>1. PICK c \in Callers : Turn(c)
    BY QuietTurns DEF StoreInv
  <1>2. PhaseInv(s)
    BY <1>1 DEF Turn, OneSetup, PhasesInv
  <1>3. ASSUME NEW t \in Setups, Setup(t) PROVE PhaseInv(s)'
    <2>1. t = s
      BY <1>3, SetupTurns DEF StoreInv, Turn, OneSetup
    <2>2. QED
      BY <1>2, <1>3, <2>1, SetupKeepsPhases
  <1>4. ASSUME NEW k \in Keepers, KeeperReads(k) PROVE PhaseInv(s)'
    <2>1. /\ routerConfig.configured /\ pc'[k] = "resolve" /\ cfg'[k] = routerConfig
          /\ Moves(k)
      BY <1>4 DEF KeeperReads, Goes, Moves, storeVars, TypeOK
    <2>2. QED
      BY <1>2, <2>1, MovesKeepPhases DEF Resolving, Saving
  <1>5. ASSUME NEW k \in Keepers, KeeperResolves(k) PROVE PhaseInv(s)'
    BY <1>2, <1>5, ResolvingKeepsPhases DEF KeeperResolves, storeVars
  <1>6. CASE FinishSavesProfile
    <2>1. PICK p \in Profiles : CallsSave(Finish, "idle", [routerConfig EXCEPT !.last = p], "idle")
      BY <1>6 DEF FinishSavesProfile
    <2>2. routerConfig.configured /\ [routerConfig EXCEPT !.last = p].configured
      BY <1>6, ConfigsAre DEF FinishSavesProfile, TypeOK
    <2>3. given'[Finish].configured /\ Moves(Finish)
      BY <1>6, <2>1, <2>2 DEF FinishSavesProfile, CallsSave, Goes, Moves, storeVars, TypeOK
    <2>4. QED
      BY <1>2, <2>2, <2>3, MovesKeepPhases
  <1>7. CASE LoginReads
    <2>1. pc'[Login] = "creds" /\ then'[Login] = "idle" /\ Moves(Login)
      BY <1>7 DEF LoginReads, Goes, Moves, storeVars, TypeOK
    <2>2. QED
      BY <1>2, <2>1, MovesKeepPhases DEF Saving
  <1>8. QED
    BY <1>3, <1>4, <1>5, <1>6, <1>7 DEF Quietly

LEMMA PhasesStep == TypeOK /\ StoreInv /\ PhasesInv /\ [Next]_vars => PhasesInv'
  <1> SUFFICES ASSUME TypeOK, StoreInv, PhasesInv, [Next]_vars, NEW s \in Setups, OneSetup(s)'
               PROVE  PhaseInv(s)'
    BY DEF PhasesInv
  <1> USE CallersAre, Distinct
  <1>1. CASE Quietly
    BY <1>1, QuietKeepsPhases
  <1>2. CASE Crash
    <2>1. \A c \in Callers : pc'[c] = "idle" /\ then'[c] = "idle"
      BY <1>2 DEF Crash
    <2>2. QED
      BY <2>1 DEF PhaseInv, Before, After, Resolving, Saving
  <1>3. CASE GatewayChanges \/ UNCHANGED vars
    <2>1. UNCHANGED <<routerConfig, pc, then, cfg, given, requests>>
      BY <1>3 DEF GatewayChanges, vars, storeVars, callVars, historyVars
    <2>2. QED
      BY <2>1 DEF PhasesInv, OneSetup, PhaseInv, Before, After, Resolving, Saving
  <1>4. CASE \E c \in Callers : Save(c)
    BY <1>4, SaveKeepsInv, SaveKeepsPhases DEF PhasesInv, OneSetup
  <1>5. QED
    BY <1>1, <1>2, <1>3, <1>4, NextCases

LEMMA PhasesHold == Spec => []PhasesInv
  <1>1. Init => PhasesInv
    BY CallersAre, Distinct DEF Init, PhasesInv, PhaseInv, Before, After, Resolving, Saving, NoConfig
  <1>2. QED
    BY <1>1, PhasesStep, TypeCorrect, InvHolds, PTL DEF Spec

\* As long as one setup is at work, no caller takes "configured" away again; only a
\* restart that finds the file torn does.
THEOREM ConfiguredStays == Spec => StaysConfigured
  <1>1. ASSUME TypeOK, StoreInv, PhasesInv, [Next]_vars, NEW s \in Setups, OneSetup(s),
               routerConfig.configured, ~routerConfig'.configured
        PROVE  configFile = Torn /\ restarts' # restarts
    <2>1. PhaseInv(s)
      BY <1>1 DEF PhasesInv
    <2>2. ASSUME NEW c \in Callers, Save(c) PROVE FALSE
      <3>1. SaveEnds(c)
        BY <1>1, <2>2 DEF Save, SaveBegins, SaveAppliesLogin, SaveFails
      <3>2. pc[c] = "writing" /\ ~given[c].configured
        BY <1>1, <3>1 DEF SaveEnds, Goes
      <3>3. c = s /\ Before(s)
        BY <2>1, <3>2 DEF PhaseInv, Before, Saving
      <3>4. QED
        BY <1>1, <2>1, <3>3 DEF PhaseInv
    <2>3. CASE Crash
      BY <1>1, <2>3, StoreAssumption
         DEF Crash, LoadRouterConfig, StoreInv, FileInv, Unlocked, TypeOK
    <2>4. CASE GatewayChanges \/ UNCHANGED vars
      BY <1>1, <2>4 DEF GatewayChanges, storeVars, vars
    <2>5. CASE Quietly
      BY <1>1, <2>5, QuietTurns DEF StoreInv, Turn
    <2>6. QED
      BY <1>1, <2>2, <2>3, <2>4, <2>5, NextCases
  <1>2. TypeOK /\ StoreInv /\ PhasesInv /\ [Next]_vars
          => [routerConfig.configured /\ ~routerConfig'.configured
                => \/ configFile = Torn /\ restarts' # restarts
                   \/ \A s \in Setups : ~OneSetup(s)]_vars
    BY <1>1
  <1>3. QED
    BY <1>2, PhasesHold, InvHolds, TypeCorrect, PTL DEF Spec, StaysConfigured
=============================================================================
