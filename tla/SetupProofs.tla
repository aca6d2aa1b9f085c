---------------------------- MODULE SetupProofs ----------------------------
(***************************************************************************)
(* What the run of Setup shows of a few addresses and attempts, for any    *)
(* width of addresses, interfaces, attempts and restarts.                  *)
(***************************************************************************)
EXTENDS Setup, SubnetsProofs

-----------------------------------------------------------------------------
(* Subnets.                                                                *)

LEMMA DefaultIsGiven == DefaultPrefix \in GivenPrefixes \ {0} /\ Bits \in Nat \ {0}
  <1>1. DefaultPrefix \in Prefixes /\ Bits \in Nat \ {0}
    BY SubnetsAssumption, Zenon DEF SubnetsAssumption
  <1>2. QED
    BY <1>1 DEF GivenPrefixes, Prefixes

\* What a LAN and an interface's address may be.
LEMMA SubnetTypes ==
    /\ Suggestible \subseteq LANs /\ Suggestible \subseteq CIDRs
    /\ NoAddress \in CIDRs
    /\ \A n \in LANs : IsSubnet(n) => n \in CIDRs
  <1>0. DefaultPrefix \in Prefixes /\ Bits \in Nat \ {0}
        /\ RetriedLANs \subseteq [ip : Addresses \cup {Nil}, prefix : Int]
    BY SubnetsAssumption, SetupAssumption, Zenon DEF SubnetsAssumption, SetupAssumption
  <1>1. Suggestible \subseteq CIDRs /\ NoAddress \in CIDRs
    BY <1>0 DEF Suggestible, CIDRs
  <1>2. Suggestible \subseteq LANs
    BY DefaultIsGiven DEF Suggestible, LANs, GivenAddresses
  <1>3. \A n \in LANs : IsSubnet(n) => n \in CIDRs
    <2> SUFFICES ASSUME NEW n \in LANs, IsSubnet(n) PROVE n \in CIDRs
      OBVIOUS
    <2>1. n \in [ip : Addresses \cup {Nil}, prefix : Int]
      BY <1>0 DEF LANs, GivenAddresses, GivenPrefixes
    <2>2. QED
      BY <2>1 DEF IsSubnet, CIDRs
  <1>5. QED
    BY <1>1, <1>2, <1>3

-----------------------------------------------------------------------------
(* Types.                                                                  *)

\* What every leaf below expands.
LEMMA LANTypes ==
    /\ Candidates[1] \in LANs /\ NoConfig \in Configs
    /\ \A w : SuggestLANSubnet(w) \in LANs
    /\ 0 \in 0 .. MaxRestarts /\ 0 \in 0 .. MaxAttempts
  <1>1. Candidates[1] \in LANs
    BY CandidateTypes, SubnetTypes
  <1>2. NoConfig \in Configs
    BY <1>1 DEF NoConfig, Configs, Ifaces
  <1>3. \A w : SuggestLANSubnet(w) \in LANs
    BY SuggestionIsSuggestible, SubnetTypes
  <1>4. MaxAttempts \in Nat /\ MaxRestarts \in Nat
    BY SetupAssumption DEF SetupAssumption
  <1>5. QED
    BY <1>1, <1>2, <1>3, <1>4

LEMMA InitTypes == Init => TypeOK
  <1> SUFFICES ASSUME Init PROVE TypeOK
    OBVIOUS
  <1>1. HostTypes
    <2>1. dhcpcdConf \in [Interfaces -> CIDRs]
      BY SetupAssumption, SubnetTypes DEF SetupAssumption, Init
    <2>2. addr \in [Interfaces -> CIDRs]
      BY <2>1 DEF Init
    <2>3. static \in SUBSET Interfaces
      BY DEF Init, HasBlock
    <2>4. QED
      BY <2>1, <2>2, <2>3 DEF Init, HostTypes
  <1>2. HostapdType
    BY DEF Init, HostapdType, Ifaces
  <1>3. RequestTypes
    BY LANTypes DEF Init, RequestTypes
  <1>4. HistoryTypes
    <2>1. given \in SUBSET [lan : Interfaces, subnet : LANs \cup CIDRs]
      <3>1. given = {[lan |-> i, subnet |-> dhcpcdConf[i]] : i \in static}
        BY Zenon DEF Init
      <3>2. static \in SUBSET Interfaces /\ dhcpcdConf \in [Interfaces -> LANs \cup CIDRs]
        BY <1>1 DEF HostTypes
      <3>3. QED
        BY <3>1, <3>2
    <2>2. /\ given \in SUBSET [lan : Interfaces, subnet : LANs \cup CIDRs]
          /\ defaulted = FALSE /\ moved = FALSE /\ fellBack = FALSE /\ rebooted = FALSE
          /\ faults = {}
      BY <2>1 DEF Init
    <2>3. QED
      BY <2>2 DEF HistoryTypes
  <1>5. QED
    BY <1>1, <1>2, <1>3, <1>4 DEF TypeOK

\* The steps of the form, of a setup and of a restart.
FormStep ==
    \/ ParseGiven \/ ParseSuggested \/ Reject \/ Validate \/ Again
    \/ \E i \in Uplinks : LeaseChanges(i)

QuietStep == InstallPackages \/ SaveFails

ServiceStep ==
    PrepareHostapd \/ DisableHostapd \/ ConfigureDnsmasq \/ InitialRouting \/ ActivateHostapd

StartStep == StartServiceOfAP \/ StartService \/ RestoreVPNState

LEMMA NextCases ==
    [Next]_vars =>
        \/ FormStep \/ QuietStep \/ configureLANInterface \/ ServiceStep \/ SaveConfig
        \/ RestartService \/ RestartHost \/ StartStep \/ UNCHANGED vars
  BY DEF Next, FormStep, QuietStep, ServiceStep, StartStep

\* Whatever way the LAN is configured, this is what happens beside its addresses.
LEMMA LANStepTaken ==
    configureLANInterface =>
        \E ok, fallback \in BOOLEAN : pc = "lan" /\ LANStep(ok, fallback)
  BY DEF configureLANInterface, ConfigureByIP, ConfigureByDhcpcd, DhcpcdFails,
         ConfigureByNM, NMFails, IPResults

\* What is prepared is of hostapd's type.
LEMMA PreparedTypes ==
    ASSUME HostapdType, NEW lan \in Ifaces, NEW h \in Prepared(lan) \cup Unprepared
    PROVE  /\ h \in [conf : Ifaces, enabled : BOOLEAN, on : Ifaces]
           /\ h.on = hostapd.on
           /\ h \in Prepared(lan) => h.conf = lan
           /\ h \in Unprepared => h.conf \in {hostapd.conf, NoInterface}
                                  /\ h.enabled = hostapd.enabled
  <1>0. hostapd \in [conf : Ifaces, enabled : BOOLEAN, on : Ifaces] /\ NoInterface \in Ifaces
    BY DEF HostapdType, Ifaces
  <1>1. CASE h \in Prepared(lan)
    <2>1. PICK on \in {hostapd.enabled, TRUE} :
              h = [hostapd EXCEPT !.conf = lan, !.enabled = on]
      BY <1>1 DEF Prepared
    <2>2. on \in BOOLEAN
      BY <1>0, <2>1
    <2>3. h.conf = lan /\ h.on = hostapd.on
          /\ h \in [conf : Ifaces, enabled : BOOLEAN, on : Ifaces]
      BY <1>0, <2>1, <2>2
    <2>4. CASE h \in Unprepared
      BY <1>0, <2>3, <2>4 DEF Unprepared
    <2>5. QED
      BY <2>3, <2>4
  <1>2. CASE h \notin Prepared(lan)
    BY <1>0, <1>2 DEF Unprepared
  <1>3. QED
    BY <1>1, <1>2

\* What EnsureWiFiAccessPoint leaves of hostapd.
LEMMA EnsuredHostapd ==
    ASSUME HostapdType, config.lan \in Ifaces, NEW ok \in BOOLEAN, EnsuresHostapd(ok)
    PROVE  /\ hostapd' \in [conf : Ifaces, enabled : BOOLEAN, on : Ifaces]
           /\ hostapd'.conf \in {hostapd.conf, NoInterface, config.lan}
           /\ hostapd'.on \in {hostapd.on, config.lan}
           /\ ok => /\ hostapd'.conf = config.lan
                    /\ hostapd'.on = NoInterface => config.lan = NoInterface
  <1>1. CASE ok
    <2>1. PICK h \in Prepared(config.lan) :
              hostapd' = IF h.on = NoInterface THEN [h EXCEPT !.on = h.conf] ELSE h
      BY <1>1 DEF EnsuresHostapd
    <2>2. h \in [conf : Ifaces, enabled : BOOLEAN, on : Ifaces]
          /\ h.on = hostapd.on /\ h.conf = config.lan
      BY <2>1, PreparedTypes
    <2>3. QED
      BY <2>1, <2>2
  <1>2. CASE ~ok
    <2>1. hostapd' \in Prepared(config.lan) \cup Unprepared
      BY <1>2 DEF EnsuresHostapd
    <2>2. QED
      BY <1>2, <2>1, PreparedTypes
  <1>3. QED
    BY <1>1, <1>2

LEMMA HostapdTypes == TypeOK /\ [Next]_vars => HostapdType'
  <1> SUFFICES ASSUME TypeOK, [Next]_vars PROVE HostapdType'
    OBVIOUS
  <1>0. HostapdType /\ cfg.lan \in Ifaces /\ config.lan \in Ifaces /\ NoInterface \in Ifaces
    BY DEF TypeOK, RequestTypes, Configs, Ifaces
  <1>1. CASE UNCHANGED hostapd
    BY <1>0, <1>1 DEF HostapdType
  <1>2. CASE PrepareHostapd
    <2>1. hostapd' \in Prepared(cfg.lan) \cup Unprepared
      BY <1>2 DEF PrepareHostapd
    <2>2. QED
      BY <1>0, <2>1, PreparedTypes DEF HostapdType
  <1>3. CASE DisableHostapd
    BY <1>0, <1>3 DEF DisableHostapd, HostapdType
  <1>4. CASE ActivateHostapd
    BY <1>0, <1>4 DEF ActivateHostapd, HostapdType
  <1>5. CASE RestartHost
    <2>1. PICK on \in {NoInterface} \cup IF hostapd.enabled THEN {hostapd.conf} ELSE {} :
              hostapd' = [hostapd EXCEPT !.on = on]
      BY <1>5, Zenon DEF RestartHost
    <2>2. QED
      BY <1>0, <2>1 DEF HostapdType
  <1>6. CASE StartServiceOfAP
    <2>1. PICK ap \in BOOLEAN : EnsuresHostapd(ap)
      BY <1>6, Zenon DEF StartServiceOfAP
    <2>2. QED
      BY <1>0, <2>1, EnsuredHostapd DEF HostapdType
  <1>7. FormStep \/ QuietStep \/ SaveConfig \/ ConfigureDnsmasq \/ InitialRouting
        \/ RestartService \/ StartService \/ RestoreVPNState \/ UNCHANGED vars
        => UNCHANGED hostapd
    BY DEF FormStep, ParseGiven, ParseSuggested, Parses, Reject, Validate, Again,
           LeaseChanges, QuietStep, InstallPackages, SaveFails, SaveConfig, InitialRouting,
           ConfigureDnsmasq, RestartService, StartService, RestoreVPNState, services, vars
  <1>8. configureLANInterface => UNCHANGED hostapd
    BY LANStepTaken DEF LANStep, services
  <1>9. QED
    BY <1>1, <1>2, <1>3, <1>4, <1>5, <1>6, <1>7, <1>8, NextCases DEF ServiceStep, StartStep

\* A setup under way has its two interfaces, and its attempt is not yet counted.
UnderWay ==
    /\ pc \in Steps => cfg.wan \in Interfaces /\ cfg.lan \in Interfaces
    /\ pc \in {"parsed", "packages", "lan"} => attempts < MaxAttempts

TypeInv == TypeOK /\ UnderWay

\* The LAN that a setup names for the interface it is to configure.
LEMMA LANNamed ==
    TypeInv /\ pc = "lan" => cfg.lan \in Interfaces /\ cfg.subnet \in LANs
  BY DEF TypeInv, TypeOK, RequestTypes, UnderWay, Configs, Ifaces, Steps

\* What the form's steps do to the request.
LEMMA ParsesRequest ==
    ASSUME TypeInv, ParseGiven \/ ParseSuggested
    PROVE  /\ pc' = "parsed" /\ cfg' \in Configs /\ defaulted' \in BOOLEAN
           /\ attempts < MaxAttempts /\ ~IsConfigured
           /\ moved' = FALSE
           /\ UNCHANGED <<manager, addr, static, keepers, services, config, restarts,
                          attempts, given, fellBack, rebooted, faults>>
  <1> DEFINE Named(ip, prefix) == [ip |-> ip, prefix |-> GivenPrefix(prefix)]
  <1>1. ASSUME NEW wan \in Ifaces, NEW lan \in Ifaces, NEW ip, NEW prefix,
               Named(ip, prefix) \in LANs,
               Parses(wan, lan, ip, prefix)
        PROVE  cfg' \in Configs
    BY <1>1 DEF Parses, Configs
  <1>2. FormIfaces \subseteq Ifaces
    BY DEF FormIfaces, Ifaces
  <1>3. \A ip \in GivenAddresses, prefix \in GivenPrefixes : Named(ip, prefix) \in LANs
    BY DefaultIsGiven DEF GivenPrefix, LANs
  <1>4. CASE ParseGiven
    <2>1. PICK wan \in FormIfaces, lan \in FormIfaces, n \in FormLANs :
              Parses(wan, lan, n.ip, n.prefix)
      BY <1>4 DEF ParseGiven
    <2>2. Named(n.ip, n.prefix) \in LANs
      <3>1. CASE n \in [ip : GivenAddresses, prefix : GivenPrefixes]
        BY <1>3, <3>1
      <3>2. CASE n \in RetriedLANs
        <4>1. n \in [ip : GivenAddresses, prefix : Int]
          BY <3>2, SetupAssumption DEF SetupAssumption, GivenAddresses
        <4>2. CASE n.prefix = 0
          BY <4>1, <4>2, DefaultIsGiven DEF GivenPrefix, LANs
        <4>3. CASE n.prefix # 0
          <5>1. Named(n.ip, n.prefix) = n
            BY <4>1, <4>3 DEF GivenPrefix
          <5>2. QED
            BY <3>2, <5>1 DEF LANs
        <4>4. QED
          BY <4>2, <4>3
      <3>3. QED
        BY <3>1, <3>2 DEF FormLANs
    <2>3. cfg' \in Configs
      BY <1>1, <1>2, <2>1, <2>2
    <2>4. defaulted' \in BOOLEAN
      BY <1>4, Zenon DEF ParseGiven
    <2>5. QED
      BY <2>1, <2>3, <2>4, Zenon DEF Parses
  <1>5. CASE ParseSuggested
    <2>1. PICK wan \in FormIfaces, lan \in FormIfaces, prefix \in FormPrefixes :
              Parses(wan, lan, SuggestLANSubnet(WANAddress(wan)).ip, prefix)
      BY <1>5 DEF ParseSuggested
    <2>2. SuggestLANSubnet(WANAddress(wan)).ip \in GivenAddresses
      BY SuggestionIsSuggestible DEF Suggestible, GivenAddresses
    <2>3. prefix \in GivenPrefixes
      BY DefaultIsGiven DEF FormPrefixes, GivenPrefixes
    <2>4. Named(SuggestLANSubnet(WANAddress(wan)).ip, prefix) \in LANs
      BY <1>3, <2>2, <2>3
    <2>5. cfg' \in Configs
      BY <1>1, <1>2, <2>1, <2>4
    <2>6. defaulted' \in BOOLEAN
      BY <1>5, Zenon DEF ParseSuggested
    <2>7. QED
      BY <2>1, <2>5, <2>6, Zenon DEF Parses
  <1>6. QED
    BY <1>4, <1>5

\* writeDnsmasqConfig leaves the configuration that it was called with, or that was.
LEMMA DnsmasqTypes ==
    ASSUME RequestTypes, NEW c \in Configs, NEW last \in Configs, NEW ok \in BOOLEAN,
           NoConfig \in Configs, WritesDnsmasq(c, last, ok)
    PROVE  dnsmasqConf' \in Configs /\ lastDnsmasqConfig' \in Configs
  BY DEF WritesDnsmasq, RequestTypes

LEMMA RequestStep == TypeInv /\ [Next]_vars => RequestTypes' /\ UnderWay'
  <1> SUFFICES ASSUME TypeInv, [Next]_vars PROVE RequestTypes' /\ UnderWay'
    OBVIOUS
  <1>0. RequestTypes /\ UnderWay /\ MaxAttempts \in Nat /\ MaxRestarts \in Nat
        /\ NoConfig \in Configs /\ cfg \in Configs /\ config \in Configs
        /\ lastDnsmasqConfig \in Configs
    BY LANTypes, SetupAssumption DEF TypeInv, TypeOK, SetupAssumption, RequestTypes
  <1> USE <1>0 DEF RequestTypes, UnderWay, Steps, Ended, Goes, Moves, services, dnsmasq
  <1>1. CASE ParseGiven \/ ParseSuggested
    BY <1>1, ParsesRequest DEF services
  <1>2. CASE Reject \/ Again \/ \E i \in Uplinks : LeaseChanges(i)
    BY <1>2 DEF Reject, Again, LeaseChanges, Forget, IsConfigured, history
  <1>3. CASE Validate
    <2>1. PICK wan \in IF cfg.wan = NoInterface THEN Interfaces ELSE {cfg.wan} :
            /\ cfg.lan \notin {NoInterface, wan} /\ cfg' = [cfg EXCEPT !.wan = wan]
            /\ pc = "parsed" /\ pc' \in {"packages", "refused"}
      BY <1>3, Zenon DEF Validate
    <2>2. wan \in Interfaces /\ cfg.lan \in Interfaces
      BY <2>1 DEF Configs, Ifaces
    <2>3. cfg' \in Configs /\ cfg'.wan \in Interfaces /\ cfg'.lan \in Interfaces
      BY <2>1, <2>2 DEF Configs, Ifaces
    <2>4. UNCHANGED <<dnsmasqConf, lastDnsmasqConfig, config, restarts, attempts>>
      BY <1>3 DEF Validate
    <2>5. QED
      BY <2>1, <2>3, <2>4
  <1>4. CASE QuietStep
    BY <1>4 DEF QuietStep, InstallPackages, SaveFails
  <1>5. CASE configureLANInterface
    BY <1>5, LANStepTaken DEF LANStep
  <1>6. CASE PrepareHostapd \/ DisableHostapd \/ ActivateHostapd
    <2>1. UNCHANGED <<dnsmasqConf, lastDnsmasqConfig, config, cfg, restarts, attempts>>
      BY <1>6, Zenon DEF PrepareHostapd, DisableHostapd, ActivateHostapd
    <2>2. \/ pc = "ap" /\ pc' \in {"dnsmasq", "failed"}
          \/ pc = "hostapd" /\ pc' \in {"done", "failed"}
      BY <1>6, Zenon DEF PrepareHostapd, DisableHostapd, ActivateHostapd
    <2>3. QED
      BY <2>1, <2>2
  <1>7. CASE ConfigureDnsmasq
    <2>1. dnsmasqConf' \in Configs /\ lastDnsmasqConfig' \in Configs
      BY <1>7, DnsmasqTypes, Zenon DEF ConfigureDnsmasq
    <2>2. pc = "dnsmasq" /\ pc' \in {"save", "failed"}
          /\ UNCHANGED <<cfg, config, restarts, attempts>>
      BY <1>7 DEF ConfigureDnsmasq
    <2>3. QED
      BY <2>1, <2>2
  <1>8. CASE InitialRouting
    <2>1. dnsmasqConf' \in Configs /\ lastDnsmasqConfig' \in Configs
      BY <1>8, DnsmasqTypes, Zenon DEF InitialRouting, ApplyDirectDNS
    <2>2. pc = "nat" /\ pc' \in {"hostapd", "done"}
          /\ UNCHANGED <<cfg, config, restarts, attempts>>
      BY <1>8 DEF InitialRouting
    <2>3. QED
      BY <2>1, <2>2
  <1>9. CASE SaveConfig
    BY <1>9 DEF SaveConfig
  <1>10. CASE RestartService \/ RestartHost
    BY <1>10 DEF RestartService, RestartHost, ServiceStops, Forget
  <1>11. CASE StartServiceOfAP
    <2>1. pc' = "restore" /\ UNCHANGED <<dnsmasq, config, cfg, restarts, attempts>>
      BY <1>11, Zenon DEF StartServiceOfAP, Goes, Moves
    <2>2. QED
      BY <2>1
  <1>12. CASE StartService
    BY <1>12 DEF StartService
  <1>13. CASE RestoreVPNState
    <2>1. dnsmasqConf' \in Configs /\ lastDnsmasqConfig' \in Configs
      BY <1>13, DnsmasqTypes, Zenon DEF RestoreVPNState, ApplyDirectDNS
    <2>2. pc' = "form" /\ UNCHANGED <<cfg, config, restarts, attempts>>
      BY <1>13 DEF RestoreVPNState
    <2>3. QED
      BY <2>1, <2>2
  <1>14. CASE UNCHANGED vars
    BY <1>14 DEF vars
  <1>15. QED
    BY <1>1, <1>2, <1>3, <1>4, <1>5, <1>6, <1>7, <1>8, <1>9, <1>10, <1>11, <1>12, <1>13,
       <1>14, NextCases DEF FormStep, ServiceStep, StartStep

LEMMA HistoryStep == TypeInv /\ [Next]_vars => HistoryTypes'
  <1> SUFFICES ASSUME TypeInv, [Next]_vars PROVE HistoryTypes'
    OBVIOUS
  <1>0. HistoryTypes
    BY DEF TypeInv, TypeOK
  <1> USE <1>0 DEF HistoryTypes
  <1>1. CASE ParseGiven \/ ParseSuggested
    BY <1>1, ParsesRequest, Zenon
  <1>2. CASE Reject \/ Validate \/ Again \/ \E i \in Uplinks : LeaseChanges(i)
    <2>1. UNCHANGED <<given, fellBack, rebooted, faults>>
          /\ defaulted' \in {defaulted, FALSE}
          /\ moved' \in {moved, FALSE, moved \/ cfg.wan = NoInterface, pc = "parsed"}
      BY <1>2, Zenon DEF Reject, Validate, Again, LeaseChanges, Forget, history
    <2>2. QED
      BY <2>1
  <1>3. CASE QuietStep \/ SaveConfig \/ ConfigureDnsmasq \/ ActivateHostapd \/ StartService
        \/ UNCHANGED vars
    BY <1>3, Zenon
    DEF QuietStep, InstallPackages, SaveFails, SaveConfig, ConfigureDnsmasq,
        ActivateHostapd, StartService, vars, history
  <1>4. CASE configureLANInterface
    <2>1. PICK ok \in BOOLEAN, fallback \in BOOLEAN : pc = "lan" /\ LANStep(ok, fallback)
      BY <1>4, LANStepTaken
    <2>2. given' \in SUBSET [lan : Interfaces, subnet : LANs \cup CIDRs]
      BY <2>1, LANNamed DEF LANStep
    <2>3. QED
      BY <2>1, <2>2, Zenon DEF LANStep
  <1>5. CASE PrepareHostapd
    BY <1>5 DEF PrepareHostapd
  <1>6. CASE DisableHostapd \/ InitialRouting \/ RestoreVPNState
    <2>1. \E ok : faults' \in {Noted("ap", ok), Noted("dns", ok)}
      <3>1. DisableHostapd => \E ok : faults' = Noted("ap", ok)
        BY Zenon DEF DisableHostapd
      <3>2. InitialRouting \/ RestoreVPNState => \E ok : faults' = Noted("dns", ok)
        BY Zenon DEF InitialRouting, RestoreVPNState, ApplyDirectDNS
      <3>3. QED
        BY <1>6, <3>1, <3>2
    <2>2. faults' \in SUBSET {"address", "ap", "dns"}
      BY <2>1 DEF Noted
    <2>3. UNCHANGED <<given, defaulted, moved, fellBack, rebooted>>
      BY <1>6, Zenon DEF DisableHostapd, InitialRouting, RestoreVPNState
    <2>4. QED
      BY <2>2, <2>3
  <1>7. CASE RestartService \/ RestartHost
    BY <1>7, Zenon DEF RestartService, RestartHost, ServiceStops, Forget
  <1>8. CASE StartServiceOfAP
    <2>1. faults' \subseteq faults \cup {"address", "ap"}
      BY <1>8, Zenon DEF StartServiceOfAP
    <2>2. UNCHANGED <<given, defaulted, moved, fellBack, rebooted>>
      BY <1>8, Zenon DEF StartServiceOfAP
    <2>3. QED
      BY <2>1, <2>2
  <1>9. QED
    BY <1>1, <1>2, <1>3, <1>4, <1>5, <1>6, <1>7, <1>8, NextCases
    DEF FormStep, ServiceStep, StartStep

\* What ip leaves on an interface is an address.
LEMMA ResultTypes ==
    ASSUME NEW n \in LANs, NEW ok \in IPResults(n)
    PROVE  (IF ok THEN n ELSE NoAddress) \in CIDRs
  BY SubnetTypes DEF IPResults

LEMMA AppliesTypes ==
    ASSUME NEW a \in [Interfaces -> CIDRs], NEW i \in Interfaces, NEW n \in LANs,
           NEW ok \in IPResults(n), static \in SUBSET Interfaces, AppliesStatic(a, i, n, ok)
    PROVE  addr' \in [Interfaces -> CIDRs] /\ static' \in SUBSET Interfaces
  <1>1. (IF ok THEN n ELSE NoAddress) \in CIDRs
    BY ResultTypes
  <1>2. QED
    BY <1>1 DEF AppliesStatic

\* What the managers leave on the interfaces are addresses.
LEMMA DhcpcdTypes ==
    ASSUME NEW conf \in [Interfaces -> LANs \cup CIDRs],
           NEW a \in [Interfaces -> CIDRs]
    PROVE  DhcpcdGives(conf, a) \in [Interfaces -> CIDRs] /\ HasBlock(conf) \subseteq Interfaces
  <1>1. ASSUME NEW i \in Interfaces
        PROVE  (IF conf[i] = NoAddress THEN a[i]
                ELSE IF IsSubnet(conf[i]) THEN conf[i] ELSE NoAddress) \in CIDRs
    BY SubnetTypes
  <1>2. QED
    BY <1>1 DEF DhcpcdGives, HasBlock

LEMMA KeptTypes == HostTypes => Kept \in [Interfaces -> LANs \cup CIDRs]
  <1> SUFFICES ASSUME HostTypes PROVE Kept \in [Interfaces -> LANs \cup CIDRs]
    OBVIOUS
  <1>1. ASSUME NEW i \in Interfaces
        PROVE  (IF \E c \in nmConns : c.lan = i
                  THEN (CHOOSE c \in nmConns : c.lan = i).subnet ELSE NoAddress)
                \in LANs \cup CIDRs
    <2>1. CASE \E c \in nmConns : c.lan = i
      <3>1. (CHOOSE c \in nmConns : c.lan = i) \in nmConns
        BY <2>1
      <3>2. QED
        BY <2>1, <3>1 DEF HostTypes
    <2>2. QED
      BY <2>1, SubnetTypes
  <1>2. CASE manager = "dhcpcd"
    BY <1>2 DEF Kept, HostTypes
  <1>3. CASE manager = "NetworkManager"
    BY <1>1, <1>3 DEF Kept
  <1>4. CASE manager \notin {"dhcpcd", "NetworkManager"}
    BY <1>4, SubnetTypes DEF Kept
  <1>5. QED
    BY <1>2, <1>3, <1>4

\* Every way to configure the LAN leaves addresses, blocks and connections.
LEMMA LANHostTypes == TypeInv /\ configureLANInterface => HostTypes'
  <1> SUFFICES ASSUME TypeInv, configureLANInterface PROVE HostTypes'
    OBVIOUS
  <1>0. HostTypes /\ cfg.lan \in Interfaces /\ cfg.subnet \in LANs /\ NoAddress \in CIDRs
    BY LANNamed, SubnetTypes DEF TypeInv, TypeOK, configureLANInterface
  <1> DEFINE conn == [lan |-> cfg.lan, subnet |-> cfg.subnet]
  <1>1. manager' = manager
    BY LANStepTaken DEF LANStep, Goes, Moves
  <1>2. appendUniqueBlock \in [Interfaces -> LANs \cup CIDRs]
    BY <1>0 DEF appendUniqueBlock, HostTypes
  <1>3. WithoutConns \in [Interfaces -> CIDRs] /\ Freed \subseteq Interfaces
        /\ DeleteConns \cup {conn} \in SUBSET [lan : Interfaces, subnet : LANs]
    BY <1>0 DEF WithoutConns, Freed, DeleteConns, HostTypes
  <1>4. CASE ConfigureByIP
    BY <1>0, <1>1, <1>4, AppliesTypes DEF ConfigureByIP, HostTypes, keepers
  <1>5. CASE ConfigureByDhcpcd
    <2> DEFINE a == DhcpcdGives(appendUniqueBlock, addr)
    <2>1. a \in [Interfaces -> CIDRs] /\ HasBlock(appendUniqueBlock) \subseteq Interfaces
      BY <1>0, <1>2, DhcpcdTypes DEF HostTypes
    <2>2. dhcpcdConf' = appendUniqueBlock /\ nmConns' = nmConns
      BY <1>5 DEF ConfigureByDhcpcd
    <2>3. \/ addr' = a /\ static' = static \cup HasBlock(appendUniqueBlock)
          \/ \E ok \in IPResults(cfg.subnet) : AppliesStatic(a, cfg.lan, cfg.subnet, ok)
      BY <1>5, Zenon DEF ConfigureByDhcpcd
    <2>4. addr' \in [Interfaces -> CIDRs] /\ static' \in SUBSET Interfaces
      <3> HIDE DEF a
      <3>1. static \in SUBSET Interfaces
        BY <1>0 DEF HostTypes
      <3>2. QED
        BY <1>0, <2>1, <2>3, <3>1, AppliesTypes
    <2>5. QED
      BY <1>0, <1>1, <1>2, <2>1, <2>2, <2>4 DEF HostTypes
  <1>6. CASE DhcpcdFails
    BY <1>0, <1>1, <1>2, <1>6, AppliesTypes DEF DhcpcdFails, HostTypes
  <1>7. CASE ConfigureByNM
    <2>1. cfg.subnet \in CIDRs
      BY <1>0, <1>7, SubnetTypes DEF ConfigureByNM
    <2>2. QED
      BY <1>0, <1>1, <1>3, <1>7, <2>1 DEF ConfigureByNM, HostTypes
  <1>8. CASE NMFails
    <2>1. PICK ok \in IPResults(cfg.subnet) :
              addr' = [WithoutConns EXCEPT ![cfg.lan] = IF ok THEN cfg.subnet ELSE NoAddress]
      BY <1>8, Zenon DEF NMFails
    <2>2. addr' \in [Interfaces -> CIDRs]
      BY <1>0, <1>3, <2>1, ResultTypes
    <2>3. nmConns' \in {DeleteConns, DeleteConns \cup {conn}}
          /\ static' = (static \ Freed) \cup {cfg.lan} /\ dhcpcdConf' = dhcpcdConf
      BY <1>8 DEF NMFails
    <2>4. QED
      BY <1>0, <1>1, <1>3, <2>2, <2>3 DEF HostTypes, DeleteConns
  <1>9. QED
    BY <1>4, <1>5, <1>6, <1>7, <1>8 DEF configureLANInterface

LEMMA HostStep == TypeInv /\ [Next]_vars => HostTypes'
  <1> SUFFICES ASSUME TypeInv, [Next]_vars PROVE HostTypes'
    OBVIOUS
  <1>0. HostTypes /\ HostapdType /\ RequestTypes
    BY DEF TypeInv, TypeOK
  <1>1. CASE UNCHANGED <<manager, addr, static, keepers>>
    BY <1>0, <1>1 DEF HostTypes, keepers
  <1>2. ParseGiven \/ ParseSuggested => UNCHANGED <<manager, addr, static, keepers>>
    BY ParsesRequest
  <1>3. ASSUME NEW i \in Uplinks, LeaseChanges(i) PROVE HostTypes'
    <2>1. Leases \subseteq CIDRs
      BY CandidateTypes, SubnetTypes DEF Leases
    <2>2. QED
      BY <1>0, <1>3, <2>1 DEF LeaseChanges, HostTypes, keepers
  <1>4. CASE RestartHost
    <2>1. Kept \in [Interfaces -> LANs \cup CIDRs]
      BY <1>0, KeptTypes
    <2>2. [i \in Interfaces |-> NoAddress] \in [Interfaces -> CIDRs]
      BY SubnetTypes
    <2>3. addr' \in [Interfaces -> CIDRs] /\ static' \in SUBSET Interfaces
      BY <1>4, <2>1, <2>2, DhcpcdTypes DEF RestartHost
    <2>4. QED
      BY <1>0, <1>4, <2>3 DEF RestartHost, ServiceStops, HostTypes, keepers
  <1>5. CASE StartServiceOfAP
    <2>1. \/ UNCHANGED <<addr, static>>
          \/ /\ config.lan \in Wireless
             /\ \E ok \in IPResults(config.subnet) :
                  AppliesStatic(addr, config.lan, config.subnet, ok)
      BY <1>5, Zenon DEF StartServiceOfAP
    <2>2. Wireless \subseteq Interfaces /\ config.subnet \in LANs
      BY <1>0, SetupAssumption DEF SetupAssumption, RequestTypes, Configs
    <2>3. addr' \in [Interfaces -> CIDRs] /\ static' \in SUBSET Interfaces
      BY <1>0, <2>1, <2>2, AppliesTypes DEF HostTypes
    <2>4. UNCHANGED <<manager, keepers>>
      BY <1>5, Zenon DEF StartServiceOfAP, Goes, Moves
    <2>5. QED
      BY <1>0, <2>3, <2>4 DEF HostTypes, keepers
  <1>6. Reject \/ Validate \/ Again \/ QuietStep \/ ServiceStep \/ SaveConfig
        \/ RestartService \/ StartService \/ RestoreVPNState \/ UNCHANGED vars
        => UNCHANGED <<manager, addr, static, keepers>>
    BY Zenon DEF Reject, Validate, Again, QuietStep, InstallPackages, InitialRouting,
       SaveFails, ServiceStep, PrepareHostapd, DisableHostapd, ConfigureDnsmasq,
       ActivateHostapd, SaveConfig, RestartService, ServiceStops, StartService,
       RestoreVPNState, Goes, Moves, vars
  <1>7. QED
    BY <1>1, <1>2, <1>3, <1>4, <1>5, <1>6, LANHostTypes, NextCases DEF FormStep, StartStep

LEMMA TypeInvariant == Spec => []TypeInv
  <1>1. Init => TypeInv
    BY InitTypes DEF TypeInv, Init, UnderWay, Steps
  <1>2. TypeInv /\ [Next]_vars => TypeInv'
    BY HostStep, HostapdTypes, RequestStep, HistoryStep DEF TypeInv, TypeOK
  <1>3. QED
    BY <1>1, <1>2, PTL DEF Spec

\* Every step of a setup and every restart keeps the types of the host's and the
\* request's state, for any addresses, interfaces and bounds.
THEOREM TypeCorrect == Spec => []TypeOK
  <1>1. TypeInv => TypeOK
    BY DEF TypeInv
  <1>2. QED
    BY <1>1, TypeInvariant, PTL

-----------------------------------------------------------------------------
(* The checks of the form.                                                 *)

\* What the check is made of: the WAN has an address and overlaps.
Overlaps == addr[cfg.wan].ip # Nil /\ subnetsOverlap(addr[cfg.wan], cfg.subnet)

\* What the check found still holds of the WAN and the LAN, and a LAN that was
\* suggested passes it unless the WAN has changed or is detected only then.
ChecksInv ==
    /\ pc = "packages" => ~Overlaps
    /\ pc = "refused" => Overlaps /\ cfg.wan \in Interfaces /\ (~defaulted \/ moved)
    /\ pc = "parsed" /\ defaulted /\ ~moved /\ cfg.wan # NoInterface => ~Overlaps

LEMMA ParsesSuggestion ==
    ASSUME TypeInv, ParseSuggested, defaulted', cfg'.wan # NoInterface
    PROVE  ~Overlaps'
  <1>1. PICK wan \in FormIfaces, lan \in FormIfaces, prefix \in FormPrefixes :
          /\ Parses(wan, lan, SuggestLANSubnet(WANAddress(wan)).ip, prefix)
          /\ defaulted' = (prefix = 0)
    BY Zenon DEF ParseSuggested
  <1> DEFINE s == SuggestLANSubnet(WANAddress(wan))
  <1>2. s \in Suggestible
    BY SuggestionIsSuggestible
  <1>3. prefix = 0 /\ addr' = addr
    BY <1>1 DEF Parses
  <1>4. cfg'.wan = wan /\ cfg'.subnet = [ip |-> s.ip, prefix |-> DefaultPrefix]
    <2>1. Parses(wan, lan, s.ip, prefix)
      BY <1>1
    <2> HIDE DEF s
    <2>2. QED
      BY <1>3, <2>1 DEF GivenPrefix, Parses
  <1>5. cfg'.subnet = s
    BY <1>2, <1>4 DEF Suggestible
  <1>6. wan \in Interfaces /\ s = SuggestLANSubnet(addr[wan])
    BY <1>4, SetupAssumption DEF WANAddress, FormIfaces, Ifaces
  <1>7. addr[wan] \in CIDRs
    BY <1>6 DEF TypeInv, TypeOK, HostTypes
  <1>8. addr[wan].ip = Nil \/ addr[wan] \in SubnetSet
    BY <1>7 DEF CIDRs, SubnetSet, NoAddress
  <1>9. addr[wan].ip = Nil \/ ~subnetsOverlap(addr[wan], s)
    BY <1>6, <1>8, SuggestionIsApart, Zenon
  <1>10. QED
    BY <1>3, <1>4, <1>5, <1>9, Zenon DEF Overlaps

LEMMA ChecksStep == TypeInv /\ ChecksInv /\ [Next]_vars => ChecksInv'
  <1> SUFFICES ASSUME TypeInv, ChecksInv, [Next]_vars PROVE ChecksInv'
    OBVIOUS
  <1> USE DEF ChecksInv
  <1>1. CASE ParseGiven
    <2>1. pc' = "parsed" /\ defaulted' = FALSE
      BY <1>1, ParsesRequest, Zenon DEF ParseGiven
    <2>2. QED
      BY <2>1
  <1>2. CASE ParseSuggested
    <2>1. pc' = "parsed"
      BY <1>2, ParsesRequest
    <2>2. QED
      BY <1>2, <2>1, ParsesSuggestion
  <1>3. CASE Validate
    <2>1. PICK wan \in IF cfg.wan = NoInterface THEN Interfaces ELSE {cfg.wan} :
            /\ cfg' = [cfg EXCEPT !.wan = wan] /\ pc = "parsed"
            /\ pc' = IF addr[wan].ip # Nil /\ subnetsOverlap(addr[wan], cfg.subnet)
                       THEN "refused" ELSE "packages"
      BY <1>3, Zenon DEF Validate, Moves
    <2>2. /\ UNCHANGED <<addr, defaulted>> /\ moved' = (moved \/ cfg.wan = NoInterface)
          /\ cfg \in Configs
      BY <1>3 DEF Validate, TypeInv, TypeOK, RequestTypes
    <2>3. wan \in Interfaces /\ cfg'.wan = wan /\ cfg'.subnet = cfg.subnet
      BY <2>1, <2>2 DEF Configs, Ifaces
    <2>4. /\ Overlaps' <=> addr[wan].ip # Nil /\ subnetsOverlap(addr[wan], cfg.subnet)
          /\ cfg.wan # NoInterface => (Overlaps' <=> Overlaps)
      BY <2>1, <2>2, <2>3 DEF Overlaps
    <2>5. CASE pc' = "packages"
      BY <2>1, <2>4, <2>5
    <2>6. CASE pc' = "refused"
      <3>1. Overlaps'
        BY <2>1, <2>4, <2>6
      <3>2. ~defaulted' \/ moved'
        BY <2>1, <2>2, <2>4, <3>1
      <3>3. QED
        BY <2>3, <2>6, <3>1, <3>2
    <2>7. QED
      BY <2>1, <2>5, <2>6
  <1>4. ASSUME NEW i \in Uplinks, LeaseChanges(i) PROVE ChecksInv'
    BY <1>4 DEF LeaseChanges
  <1>5. CASE UNCHANGED vars
    <2>1. UNCHANGED <<pc, addr, cfg, defaulted, moved>>
      BY <1>5 DEF vars, history
    <2>2. QED
      BY <2>1 DEF Overlaps
  <1>6. Reject \/ Again \/ QuietStep \/ ServiceStep \/ SaveConfig \/ RestartService
        \/ RestartHost \/ StartStep => pc' \notin {"parsed", "packages", "refused"}
    <2>1. Reject \/ Again \/ QuietStep \/ SaveConfig \/ RestartService \/ RestartHost
            => pc' \in {"rejected", "form", "lan", "failed", "nat", "boot"}
      BY DEF Reject, Again, Forget, QuietStep, InstallPackages, SaveFails, SaveConfig,
             RestartService, RestartHost, ServiceStops, Goes, Moves
    <2>2. PrepareHostapd \/ DisableHostapd \/ ActivateHostapd
            => pc' \in {"dnsmasq", "failed", "done"}
      BY Zenon DEF PrepareHostapd, DisableHostapd, ActivateHostapd, Goes, Moves
    <2>3. ConfigureDnsmasq \/ InitialRouting
            => pc' \in {"save", "failed", "hostapd", "done"}
      BY DEF ConfigureDnsmasq, InitialRouting, Goes, Moves
    <2>4. StartStep => pc' \in {"restore", "form"}
      BY Zenon DEF StartStep, StartServiceOfAP, StartService, RestoreVPNState, Goes, Moves
    <2>5. QED
      BY <2>1, <2>2, <2>3, <2>4 DEF ServiceStep
  <1>7. configureLANInterface => pc' \notin {"parsed", "packages", "refused"}
    BY LANStepTaken DEF LANStep, Goes, Moves
  <1>8. QED
    BY <1>1, <1>2, <1>3, <1>4, <1>5, <1>6, <1>7, NextCases DEF FormStep

LEMMA ChecksInvariant == Spec => [](TypeInv /\ ChecksInv)
  <1>1. Init => ChecksInv
    BY DEF Init, ChecksInv
  <1>2. QED
    BY <1>1, ChecksStep, TypeInvariant, PTL DEF Spec

LEMMA RequestsSubnets ==
    ASSUME TypeInv, cfg.wan \in Interfaces
    PROVE  /\ addr[cfg.wan] \in [ip : Addresses \cup {Nil}, prefix : Int]
           /\ cfg.subnet \in [ip : Addresses \cup {Nil}, prefix : Int]
           /\ IsSubnet(addr[cfg.wan]) => addr[cfg.wan] \in SubnetSet
           /\ IsSubnet(cfg.subnet) => cfg.subnet \in SubnetSet
  <1>1. addr[cfg.wan] \in CIDRs /\ cfg.subnet \in LANs
    BY DEF TypeInv, TypeOK, HostTypes, RequestTypes, Configs
  <1>2. RetriedLANs \subseteq [ip : Addresses \cup {Nil}, prefix : Int] /\ Bits \in Nat
    BY SetupAssumption, WidthIs, Zenon DEF SetupAssumption
  <1>3. addr[cfg.wan] \in [ip : Addresses \cup {Nil}, prefix : Int]
    BY <1>1, <1>2 DEF CIDRs, NoAddress, Prefixes
  <1>4. cfg.subnet \in [ip : Addresses \cup {Nil}, prefix : Int]
    BY <1>1, <1>2 DEF LANs, GivenAddresses, GivenPrefixes
  <1>5. QED
    BY <1>3, <1>4 DEF IsSubnet, SubnetSet

\* A LAN that passed the check has no address in common with the WAN, for any
\* width of addresses and prefixes: that of IPv4 included.
THEOREM LANIsApart == Spec => []ConfiguredLANIsApart
  <1>1. ASSUME TypeInv, ChecksInv PROVE ConfiguredLANIsApart
    <2> SUFFICES ASSUME pc = "packages", IsSubnet(cfg.subnet), IsSubnet(addr[cfg.wan])
                 PROVE  ~Shares(cfg.subnet, addr[cfg.wan])
      BY DEF ConfiguredLANIsApart
    <2>1. cfg.wan \in Interfaces
      BY <1>1 DEF TypeInv, UnderWay, Steps
    <2>2. ~subnetsOverlap(addr[cfg.wan], cfg.subnet)
      BY <1>1 DEF ChecksInv, Overlaps, IsSubnet
    <2>3. addr[cfg.wan] \in SubnetSet /\ cfg.subnet \in SubnetSet
      BY <1>1, <2>1, RequestsSubnets
    <2>4. QED
      BY <2>2, <2>3, OverlapIsSharing, OverlapIsSymmetric
  <1>2. QED
    BY <1>1, ChecksInvariant, PTL

\* A LAN is refused only if it has an address in common with the WAN.
THEOREM RefusalsAreRight == Spec => []OnlySharedIsRefused
  <1>1. ASSUME TypeInv, ChecksInv PROVE OnlySharedIsRefused
    <2> SUFFICES ASSUME pc = "refused"
                 PROVE  /\ IsSubnet(cfg.subnet) /\ IsSubnet(addr[cfg.wan])
                        /\ Shares(cfg.subnet, addr[cfg.wan])
      BY DEF OnlySharedIsRefused
    <2>1. subnetsOverlap(addr[cfg.wan], cfg.subnet) /\ cfg.wan \in Interfaces
      BY <1>1 DEF ChecksInv, Overlaps
    <2>2. /\ IsSubnet(addr[cfg.wan]) /\ IsSubnet(cfg.subnet)
          /\ addr[cfg.wan] \in SubnetSet /\ cfg.subnet \in SubnetSet
      BY <1>1, <2>1, RequestsSubnets, OverlapOfSubnets
    <2>3. QED
      BY <2>1, <2>2, OverlapIsSharing, OverlapIsSymmetric
  <1>2. QED
    BY <1>1, ChecksInvariant, PTL

\* The suggestion is accepted whatever the WAN is, unless that changes or is detected
\* after it, for any candidates that are not all in one half of the address space.
THEOREM SuggestionPasses == Spec => []SuggestionIsAccepted
  <1>1. ChecksInv => SuggestionIsAccepted
    BY DEF ChecksInv, SuggestionIsAccepted
  <1>2. QED
    BY <1>1, ChecksInvariant, PTL

\* The netmask that dnsmasq hands out denotes the LAN's own subnet, at every width
\* and prefix.
THEOREM NetmaskMatches == Spec => []NetmaskIsTheLANs
  <1>1. ASSUME TypeInv PROVE NetmaskIsTheLANs
    <2> SUFFICES ASSUME pc = "packages", IsSubnet(cfg.subnet) PROVE NetmaskIsTheLANs
      BY DEF NetmaskIsTheLANs
    <2>1. cfg.subnet.prefix \in Prefixes
      BY DEF IsSubnet
    <2>2. Pow2[Bits] - prefixToNetmask(cfg.subnet.prefix) = Block(cfg.subnet.prefix)
      BY <2>1, NetmaskOfPrefix
    <2>3. QED
      BY <2>2, Zenon DEF NetmaskIsTheLANs, Hosts
  <1>2. QED
    BY <1>1, TypeInvariant, PTL

-----------------------------------------------------------------------------
(* The DHCP server of a configured router.                                 *)

BeforeSave == {"parsed", "rejected", "refused", "packages", "lan", "ap", "dnsmasq", "save"}

\* Nothing is configured before the save; after it, and after a start of the service,
\* ApplyDirectDNS writes dnsmasq's file whatever the cache held.
DnsmasqInv ==
    /\ pc \in BeforeSave => ~IsConfigured
    /\ IsConfigured /\ pc \notin {"nat", "boot", "restore"} /\ "dns" \notin faults
         => dnsmasqConf = config

LEMMA DirectDNSWrites ==
    ASSUME IsConfigured, ApplyDirectDNS, "dns" \notin faults'
    PROVE  dnsmasqConf' = config
  <1>1. PICK ok \in BOOLEAN : WritesDnsmasq(config, NoConfig, ok) /\ faults' = Noted("dns", ok)
    BY DEF ApplyDirectDNS
  <1>2. ok
    BY <1>1 DEF Noted
  <1>3. QED
    BY <1>1, <1>2 DEF WritesDnsmasq, IsConfigured

LEMMA DnsmasqStep == TypeInv /\ DnsmasqInv /\ [Next]_vars => DnsmasqInv'
  <1> SUFFICES ASSUME TypeInv, DnsmasqInv, [Next]_vars PROVE DnsmasqInv'
    OBVIOUS
  <1> USE DEF DnsmasqInv, BeforeSave, IsConfigured, Goes, Moves, services, dnsmasq, history
  <1>1. CASE ParseGiven \/ ParseSuggested
    BY <1>1, ParsesRequest
  <1>2. CASE Reject \/ Validate \/ Again \/ \E i \in Uplinks : LeaseChanges(i)
    <2>1. /\ UNCHANGED <<dnsmasqConf, config, faults>>
          /\ pc' \in BeforeSave => pc \in BeforeSave
          /\ IsConfigured => pc \notin {"nat", "boot", "restore"}
      BY <1>2 DEF Reject, Validate, Again, LeaseChanges, Forget, Ended
    <2>2. QED
      BY <2>1
  <1>3. CASE QuietStep
    BY <1>3 DEF QuietStep, InstallPackages, SaveFails
  <1>4. CASE configureLANInterface
    BY <1>4, LANStepTaken DEF LANStep
  <1>5. CASE PrepareHostapd \/ DisableHostapd \/ ConfigureDnsmasq
    <2>1. pc \in BeforeSave /\ config' = config
      BY <1>5, Zenon DEF PrepareHostapd, DisableHostapd, ConfigureDnsmasq
    <2>2. QED
      BY <2>1
  <1>6. CASE InitialRouting \/ RestoreVPNState
    <2>1. /\ pc' \in {"hostapd", "done", "form"} /\ config' = config
          /\ ApplyDirectDNS
      BY <1>6, Zenon DEF InitialRouting, RestoreVPNState
    <2>2. QED
      BY <2>1, DirectDNSWrites
  <1>7. CASE ActivateHostapd
    BY <1>7 DEF ActivateHostapd
  <1>8. CASE SaveConfig
    BY <1>8 DEF SaveConfig
  <1>9. CASE RestartService \/ RestartHost
    <2>1. pc' = "boot"
      BY <1>9, Zenon DEF RestartService, RestartHost, ServiceStops, Forget
    <2>2. QED
      BY <2>1
  <1>10. CASE StartServiceOfAP
    <2>1. pc' = "restore"
      BY <1>10, Zenon DEF StartServiceOfAP
    <2>2. QED
      BY <2>1
  <1>11. CASE StartService
    <2>1. pc' = (IF IsConfigured THEN "restore" ELSE "form") /\ config' = config
      BY <1>11, Zenon DEF StartService
    <2>2. QED
      BY <2>1
  <1>12. CASE UNCHANGED vars
    BY <1>12 DEF vars
  <1>13. QED
    BY <1>1, <1>2, <1>3, <1>4, <1>5, <1>6, <1>7, <1>8, <1>9, <1>10, <1>11, <1>12, NextCases
    DEF FormStep, ServiceStep, StartStep

\* No failure, no write skipped because of the cache and no loss of power leaves a
\* configured router whose DHCP server is set up for the LAN of another attempt, for
\* any number of attempts and restarts.
THEOREM DnsmasqServes == Spec => []DnsmasqServesTheLAN
  <1>1. Init => DnsmasqInv
    BY DEF Init, DnsmasqInv, BeforeSave, IsConfigured
  <1>2. DnsmasqInv => DnsmasqServesTheLAN
    BY DEF DnsmasqInv, DnsmasqServesTheLAN, Idle
  <1>3. QED
    BY <1>1, <1>2, DnsmasqStep, TypeInvariant, PTL DEF Spec

-----------------------------------------------------------------------------
(* The addresses of the host.                                              *)

\* What configureLANInterface was run with, as `given' notes it.
Named(c) == [lan |-> c.lan, subnet |-> c.subnet]

AfterLAN == {"ap", "dnsmasq", "save"}
AfterSave == {"nat", "hostapd"}

AddressesAreGiven ==
    \A i \in static : addr[i] = NoAddress \/ [lan |-> i, subnet |-> addr[i]] \in given

\* Blocks, connections, addresses that are not a lease and the configuration all come
\* from an attempt to configure a LAN or from the dhcpcd.conf there was at first;
\* nothing is configured before the save.
GivenInv ==
    /\ \A i \in HasBlock(dhcpcdConf) : [lan |-> i, subnet |-> dhcpcdConf[i]] \in given
    /\ nmConns \subseteq given
    /\ \A i \in static : \E g \in given : g.lan = i
    /\ AddressesAreGiven
    /\ pc \in AfterLAN \cup AfterSave => Named(cfg) \in given
    /\ IsConfigured => config.lan \in Interfaces /\ Named(config) \in given
    /\ pc \in BeforeSave => ~IsConfigured

\* NetworkManager keeps a connection for no interface but a wired LAN's.
OneConnection(c) ==
    manager = "NetworkManager" /\ c.lan \notin Wireless => \A n \in nmConns : n.lan = c.lan

\* A restart of the host frees what no manager keeps, and one that was seen by a
\* configured router came after its setup.
OthersInv ==
    /\ pc \in AfterLAN \cup AfterSave => ~rebooted
    /\ pc \in AfterLAN => OneConnection(cfg)
    /\ IsConfigured => OneConnection(config)
    /\ IsConfigured /\ rebooted => static \subseteq HasBlock(Kept) \cup {config.lan}

Fresh(c) == ~TriedBefore(c.lan, c.subnet)

HasAddress(c) == addr[c.lan] = c.subnet /\ c.lan \in static

\* ensureLANAddress was content with a lease.
ByChance(c) == c.lan \notin static /\ NoBlockFor(c.lan)

\* A manager that took the LAN's address gives it back after a restart of the host.
KeepsAddress(c) ==
    /\ manager # "nobody" /\ ~fellBack /\ ~NoBlockFor(c.lan)
    /\ c.lan \in Wireless => manager = "dhcpcd"
    => Kept[c.lan] = c.subnet

\* What a LAN step has left of the LAN's address for configuration c.
LANIsSet(c) ==
    /\ IsSubnet(c.subnet) \/ NoBlockFor(c.lan)
    /\ KeepsAddress(c)
    /\ HasAddress(c) \/ ByChance(c)

\* A wireless LAN has its address, or none until the next start of the service has
\* given it; a wired one until a restart of the host that nothing gives it after.
StillHasAddress(c) ==
    IF c.lan \in Wireless
      THEN /\ addr[c.lan] \in {c.subnet, NoAddress} \/ ByChance(c)
           /\ pc # "boot" \/ addr[c.lan] = c.subnet => c.lan \in static \/ NoBlockFor(c.lan)
           /\ pc # "boot" /\ "address" \notin faults => addr[c.lan] = c.subnet \/ ByChance(c)
      ELSE \/ HasAddress(c) \/ ByChance(c)
           \/ rebooted /\ (manager = "nobody" \/ fellBack \/ NoBlockFor(c.lan))

AddressInv ==
    /\ pc \in AfterLAN /\ Fresh(cfg) => LANIsSet(cfg)
    /\ IsConfigured /\ Fresh(config) =>
         /\ IsSubnet(config.subnet) \/ NoBlockFor(config.lan)
         /\ KeepsAddress(config) /\ StillHasAddress(config)

\* A step of the form, of a setup or of the service that leaves the addresses alone.
QuietWork ==
    Reject \/ Validate \/ Again \/ QuietStep \/ ServiceStep \/ SaveConfig \/ RestartService
    \/ StartService \/ RestoreVPNState \/ UNCHANGED vars

hostState == <<manager, addr, static, dhcpcdConf, nmConns, given, fellBack, rebooted>>

\* What such a step does to the request and the configuration.
Proceeds ==
    /\ UNCHANGED hostState
    /\ "address" \in faults => "address" \in faults'
    /\ pc' \in AfterLAN => pc \in AfterLAN /\ cfg' = cfg
    /\ pc' \in AfterSave => pc \in AfterSave \cup {"save"} /\ cfg' = cfg
    /\ config' = config \/ (pc = "save" /\ config' = cfg)
    /\ pc' \in BeforeSave => pc \in BeforeSave /\ config' = config
    /\ IsConfigured /\ config.lan \in Wireless /\ pc' # "boot" => pc # "boot"

LEMMA QuietProceeds == TypeInv /\ QuietWork => Proceeds
  <1> SUFFICES ASSUME TypeInv, QuietWork PROVE Proceeds
    OBVIOUS
  <1> USE DEF Proceeds, hostState, AfterLAN, AfterSave, BeforeSave, Goes, Moves, keepers,
              history
  <1>0. pc \in {"form", "parsed", "boot", "restore"} \cup Steps \cup Ended
    BY DEF TypeInv, TypeOK, RequestTypes
  <1>1. CASE Reject \/ Validate
    <2>1. pc = "parsed" /\ pc' \in {"rejected", "refused", "packages"}
          /\ UNCHANGED <<hostState, faults, config>>
      BY <1>1 DEF Reject, Validate
    <2>2. QED
      BY <2>1
  <1>2. CASE Again
    BY <1>0, <1>2 DEF Again, Forget, Ended
  <1>3. CASE QuietStep
    BY <1>3 DEF QuietStep, InstallPackages, SaveFails
  <1>4. CASE ServiceStep
    <2>1. UNCHANGED <<hostState, cfg, config>>
      BY <1>4, Zenon
      DEF ServiceStep, PrepareHostapd, DisableHostapd, ConfigureDnsmasq, InitialRouting,
          ActivateHostapd
    <2>2. \/ pc \in {"ap", "dnsmasq"} /\ pc' \in {"dnsmasq", "save", "failed"}
          \/ pc \in {"nat", "hostapd"} /\ pc' \in {"hostapd", "failed", "done"}
      <3>1. PrepareHostapd \/ DisableHostapd => pc = "ap" /\ pc' \in {"dnsmasq", "failed"}
        BY Zenon DEF PrepareHostapd, DisableHostapd
      <3>2. ConfigureDnsmasq => pc = "dnsmasq" /\ pc' \in {"save", "failed"}
        BY DEF ConfigureDnsmasq
      <3>3. InitialRouting \/ ActivateHostapd
              => pc \in {"nat", "hostapd"} /\ pc' \in {"hostapd", "failed", "done"}
        BY DEF InitialRouting, ActivateHostapd
      <3>4. QED
        BY <1>4, <3>1, <3>2, <3>3 DEF ServiceStep
    <2>3. "address" \in faults => "address" \in faults'
      <3>1. \/ faults' = faults \ {"ap"} \/ faults' = faults
            \/ \E ok : faults' \in {Noted("ap", ok), Noted("dns", ok)}
        BY <1>4, Zenon
        DEF ServiceStep, PrepareHostapd, DisableHostapd, ConfigureDnsmasq, InitialRouting,
            ActivateHostapd, ApplyDirectDNS
      <3>2. QED
        BY <3>1 DEF Noted
    <2>4. QED
      BY <2>1, <2>2, <2>3
  <1>5. CASE SaveConfig
    BY <1>5 DEF SaveConfig
  <1>6. CASE RestartService
    BY <1>6 DEF RestartService, ServiceStops, Forget
  <1>7. CASE StartService
    <2>1. UNCHANGED <<hostState, cfg, config, faults>> /\ pc' \in {"restore", "form"}
          /\ ~(IsConfigured /\ config.lan \in Wireless)
      BY <1>7 DEF StartService
    <2>2. QED
      BY <2>1
  <1>8. CASE RestoreVPNState
    <2>1. UNCHANGED <<hostState, cfg, config>> /\ pc' = "form" /\ pc = "restore"
      BY <1>8, Zenon DEF RestoreVPNState
    <2>2. \E ok : faults' = Noted("dns", ok)
      BY <1>8, Zenon DEF RestoreVPNState, ApplyDirectDNS
    <2>3. "address" \in faults => "address" \in faults'
      BY <2>2 DEF Noted
    <2>4. QED
      BY <2>1, <2>3
  <1>9. CASE UNCHANGED vars
    BY <1>9 DEF vars
  <1>10. QED
    BY <1>1, <1>2, <1>3, <1>4, <1>5, <1>6, <1>7, <1>8, <1>9 DEF QuietWork

LEMMA HostCases ==
    [Next]_vars =>
        \/ ParseGiven \/ ParseSuggested \/ QuietWork \/ configureLANInterface
        \/ RestartHost \/ StartServiceOfAP \/ \E i \in Uplinks : LeaseChanges(i)
  BY NextCases DEF FormStep, StartStep, QuietWork

\* What configureLANInterface leaves of blocks, connections and addresses.
LEMMA LANLeaves ==
    ASSUME TypeInv, configureLANInterface
    PROVE  /\ pc = "lan" /\ pc' \in {"ap", "failed"} /\ given' = given \cup {Named(cfg)}
           /\ ~rebooted' /\ UNCHANGED <<manager, cfg, config>>
           /\ dhcpcdConf' \in {dhcpcdConf, appendUniqueBlock}
           /\ nmConns' \subseteq nmConns \cup {Named(cfg)}
           /\ manager = "NetworkManager" /\ cfg.lan \notin Wireless
                => nmConns' \subseteq {Named(cfg)}
           /\ static' \subseteq static \cup {cfg.lan} \cup HasBlock(dhcpcdConf')
  <1>1. /\ pc = "lan" /\ pc' \in {"ap", "failed"} /\ given' = given \cup {Named(cfg)}
        /\ ~rebooted' /\ UNCHANGED <<manager, cfg, config>>
    BY LANStepTaken DEF LANStep, Goes, Moves, Named
  <1>2. CASE ConfigureByIP
    BY <1>1, <1>2 DEF ConfigureByIP, keepers, AppliesStatic
  <1>3. CASE ConfigureByDhcpcd
    <2>1. /\ dhcpcdConf' = appendUniqueBlock /\ nmConns' = nmConns /\ manager = "dhcpcd"
          /\ static' \in {static \cup HasBlock(dhcpcdConf'), static \cup {cfg.lan}}
      BY <1>3 DEF ConfigureByDhcpcd, AppliesStatic
    <2>2. QED
      BY <1>1, <2>1
  <1>4. CASE DhcpcdFails
    BY <1>1, <1>4 DEF DhcpcdFails, AppliesStatic
  <1>5. CASE ConfigureByNM
    BY <1>1, <1>5 DEF ConfigureByNM, DeleteConns, Named
  <1>6. CASE NMFails
    <2>1. nmConns' \in {DeleteConns, DeleteConns \cup {Named(cfg)}}
          /\ static' = (static \ Freed) \cup {cfg.lan} /\ dhcpcdConf' = dhcpcdConf
      BY <1>6 DEF NMFails, Named
    <2>2. QED
      BY <1>1, <2>1 DEF DeleteConns
  <1>7. QED
    BY <1>2, <1>3, <1>4, <1>5, <1>6 DEF configureLANInterface

\* The addresses that are no lease after it: those from before, the blocks', and the LAN's.
LEMMA LANLeavesAddresses ==
    ASSUME TypeInv, configureLANInterface, NEW i \in static'
    PROVE  \/ addr'[i] = NoAddress
           \/ i = cfg.lan /\ addr'[i] = cfg.subnet
           \/ i \in HasBlock(dhcpcdConf') /\ addr'[i] = dhcpcdConf'[i]
           \/ i \in static /\ addr'[i] = addr[i]
  <1>0. /\ cfg.lan \in Interfaces /\ static' \subseteq Interfaces
        /\ static \in SUBSET Interfaces /\ addr \in [Interfaces -> CIDRs]
    BY LANNamed, LANHostTypes, LANLeaves DEF TypeInv, TypeOK, HostTypes
  <1>1. ASSUME NEW a \in [Interfaces -> CIDRs], NEW ok, AppliesStatic(a, cfg.lan, cfg.subnet, ok)
        PROVE  \/ addr'[i] = NoAddress
               \/ i = cfg.lan /\ addr'[i] = cfg.subnet
               \/ i \in static /\ addr'[i] = a[i]
    BY <1>0, <1>1 DEF AppliesStatic
  <1>2. CASE ConfigureByIP
    BY <1>0, <1>1, <1>2 DEF ConfigureByIP
  <1>3. CASE ConfigureByDhcpcd
    <2> DEFINE a == DhcpcdGives(appendUniqueBlock, addr)
    <2>1. \/ addr' = a /\ static' = static \cup HasBlock(appendUniqueBlock)
          \/ \E ok \in IPResults(cfg.subnet) : AppliesStatic(a, cfg.lan, cfg.subnet, ok)
      BY <1>3, Zenon DEF ConfigureByDhcpcd
    <2>2. dhcpcdConf' = appendUniqueBlock
      BY <1>3 DEF ConfigureByDhcpcd
    <2>3. a \in [Interfaces -> CIDRs]
      <3>1. appendUniqueBlock \in [Interfaces -> LANs \cup CIDRs]
        BY <1>0, LANNamed, LANLeaves DEF appendUniqueBlock, TypeInv, TypeOK, HostTypes
      <3>2. QED
        BY <1>0, <3>1, DhcpcdTypes
    <2>4. \/ a[i] = NoAddress
          \/ i \in HasBlock(appendUniqueBlock) /\ a[i] = appendUniqueBlock[i]
          \/ i \notin HasBlock(appendUniqueBlock) /\ a[i] = addr[i]
      BY <1>0 DEF DhcpcdGives, HasBlock
    <2> HIDE DEF a
    <2>5. QED
      BY <1>0, <1>1, <2>1, <2>2, <2>3, <2>4
  <1>4. CASE DhcpcdFails
    BY <1>0, <1>1, <1>4 DEF DhcpcdFails
  <1>5. CASE ConfigureByNM \/ NMFails
    <2>1. static' = (static \ Freed) \cup {cfg.lan}
      BY <1>5 DEF ConfigureByNM, NMFails
    <2>2. \E n \in {cfg.subnet, NoAddress} : addr' = [WithoutConns EXCEPT ![cfg.lan] = n]
      BY <1>5 DEF ConfigureByNM, NMFails
    <2>3. QED
      BY <1>0, <2>1, <2>2 DEF WithoutConns
  <1>6. QED
    BY <1>2, <1>3, <1>4, <1>5 DEF configureLANInterface

\* What a manager keeps for an interface comes from an attempt.
LEMMA KeptIsGiven ==
    ASSUME TypeInv, GivenInv, NEW i \in Interfaces, Kept[i] # NoAddress
    PROVE  /\ [lan |-> i, subnet |-> Kept[i]] \in given
           /\ manager = "NetworkManager" => \E n \in nmConns : n.lan = i
           /\ manager # "nobody"
  <1>0. /\ manager \in {"NetworkManager", "dhcpcd", "nobody"}
        /\ nmConns \in SUBSET [lan : Interfaces, subnet : LANs]
    BY DEF TypeInv, TypeOK, HostTypes
  <1>1. CASE manager = "dhcpcd"
    BY <1>1 DEF Kept, GivenInv, HasBlock
  <1>2. CASE manager = "NetworkManager"
    <2>1. Kept[i] = IF \E n \in nmConns : n.lan = i
                      THEN (CHOOSE n \in nmConns : n.lan = i).subnet ELSE NoAddress
      BY <1>2 DEF Kept
    <2>2. \E n \in nmConns : n.lan = i
      BY <2>1
    <2> DEFINE n == CHOOSE n \in nmConns : n.lan = i
    <2>3. n \in nmConns /\ n.lan = i /\ Kept[i] = n.subnet
      BY <2>1, <2>2
    <2> HIDE DEF n
    <2>4. n = [lan |-> i, subnet |-> Kept[i]]
      BY <1>0, <2>3
    <2>5. QED
      BY <1>2, <2>2, <2>3, <2>4 DEF GivenInv
  <1>3. CASE manager = "nobody"
    BY <1>3 DEF Kept
  <1>4. QED
    BY <1>0, <1>1, <1>2, <1>3

LEMMA GivenStep == TypeInv /\ GivenInv /\ [Next]_vars => GivenInv'
  <1> SUFFICES ASSUME TypeInv, GivenInv, [Next]_vars PROVE GivenInv'
    OBVIOUS
  <1>0. \A i \in HasBlock(dhcpcdConf) : [lan |-> i, subnet |-> dhcpcdConf[i]] \in given
    BY DEF GivenInv
  <1>1. CASE ParseGiven \/ ParseSuggested
    BY <1>1, ParsesRequest
    DEF GivenInv, AddressesAreGiven, HasBlock, keepers, AfterLAN, AfterSave, BeforeSave,
        IsConfigured
  <1>2. CASE QuietWork
    <2>1. Proceeds
      BY <1>2, QuietProceeds
    <2>2. pc = "save" => cfg.lan \in Interfaces
      BY DEF TypeInv, UnderWay, Steps
    <2>3. HasBlock(dhcpcdConf)' = HasBlock(dhcpcdConf)
      BY <2>1 DEF Proceeds, hostState, HasBlock
    <2>4. /\ nmConns' \subseteq given' /\ \A i \in static' : \E g \in given' : g.lan = i
          /\ \A i \in HasBlock(dhcpcdConf)' :
               [lan |-> i, subnet |-> dhcpcdConf'[i]] \in given'
          /\ AddressesAreGiven'
      BY <2>1, <2>3 DEF GivenInv, AddressesAreGiven, Proceeds, hostState
    <2>5. pc' \in AfterLAN \cup AfterSave => Named(cfg)' \in given'
      BY <2>1 DEF GivenInv, Proceeds, hostState, Named, AfterLAN
    <2>6. IsConfigured' => config'.lan \in Interfaces /\ Named(config)' \in given'
      BY <2>1, <2>2 DEF GivenInv, Proceeds, hostState, Named, AfterLAN, IsConfigured
    <2>7. pc' \in BeforeSave => ~IsConfigured'
      BY <2>1 DEF GivenInv, Proceeds, IsConfigured
    <2>8. QED
      BY <2>4, <2>5, <2>6, <2>7 DEF GivenInv
  <1>3. CASE configureLANInterface
    <2>1. /\ pc = "lan" /\ pc' \in {"ap", "failed"} /\ given' = given \cup {Named(cfg)}
          /\ UNCHANGED <<cfg, config>> /\ cfg.lan \in Interfaces
          /\ dhcpcdConf' \in {dhcpcdConf, appendUniqueBlock}
          /\ nmConns' \subseteq nmConns \cup {Named(cfg)}
          /\ static' \subseteq static \cup {cfg.lan} \cup HasBlock(dhcpcdConf')
      BY <1>3, LANLeaves, LANNamed
    <2>2. \A i \in HasBlock(dhcpcdConf') : [lan |-> i, subnet |-> dhcpcdConf'[i]] \in given'
      <3>1. CASE dhcpcdConf' = dhcpcdConf
        BY <1>0, <2>1, <3>1
      <3>2. CASE dhcpcdConf' = [dhcpcdConf EXCEPT ![cfg.lan] = cfg.subnet]
        <4>1. dhcpcdConf \in [Interfaces -> LANs \cup CIDRs]
          BY DEF TypeInv, TypeOK, HostTypes
        <4> SUFFICES ASSUME NEW i \in HasBlock(dhcpcdConf')
                     PROVE  [lan |-> i, subnet |-> dhcpcdConf'[i]] \in given'
          OBVIOUS
        <4>2. i \in Interfaces /\ dhcpcdConf'[i] # NoAddress
          BY DEF HasBlock
        <4>3. CASE i = cfg.lan
          BY <2>1, <3>2, <4>1, <4>2, <4>3 DEF Named
        <4>4. CASE i # cfg.lan
          <5>1. dhcpcdConf'[i] = dhcpcdConf[i]
            BY <3>2, <4>1, <4>2, <4>4
          <5>2. QED
            BY <1>0, <2>1, <4>2, <5>1 DEF HasBlock
        <4>5. QED
          BY <4>3, <4>4
      <3>3. appendUniqueBlock
              \in {dhcpcdConf, [dhcpcdConf EXCEPT ![cfg.lan] = cfg.subnet]}
        BY DEF appendUniqueBlock
      <3>4. QED
        BY <2>1, <3>1, <3>2, <3>3, Zenon
    <2>3. \A i \in static' : \E g \in given' : g.lan = i
      <3> SUFFICES ASSUME NEW i \in static' PROVE \E g \in given' : g.lan = i
        OBVIOUS
      <3>1. CASE i \in static
        BY <2>1, <3>1 DEF GivenInv
      <3>2. CASE i = cfg.lan
        <4>1. Named(cfg) \in given' /\ Named(cfg).lan = i
          BY <2>1, <3>2 DEF Named
        <4>2. QED
          BY <4>1
      <3>3. CASE i \in HasBlock(dhcpcdConf')
        BY <2>2, <3>3
      <3>4. QED
        BY <2>1, <3>1, <3>2, <3>3
    <2>4. ~IsConfigured /\ ~IsConfigured'
      BY <2>1 DEF GivenInv, BeforeSave, IsConfigured
    <2>5. nmConns' \subseteq given' /\ Named(cfg)' \in given'
      BY <2>1 DEF GivenInv, Named
    <2>6. AddressesAreGiven'
      <3> SUFFICES ASSUME NEW i \in static', addr'[i] # NoAddress
                   PROVE  [lan |-> i, subnet |-> addr'[i]] \in given'
        BY Zenon DEF AddressesAreGiven
      <3>1. \/ i = cfg.lan /\ addr'[i] = cfg.subnet
            \/ i \in HasBlock(dhcpcdConf') /\ addr'[i] = dhcpcdConf'[i]
            \/ i \in static /\ addr'[i] = addr[i]
        BY <1>3, LANLeavesAddresses
      <3>2. CASE i = cfg.lan /\ addr'[i] = cfg.subnet
        BY <2>1, <3>2 DEF Named
      <3>3. CASE i \in HasBlock(dhcpcdConf') /\ addr'[i] = dhcpcdConf'[i]
        BY <2>2, <3>3
      <3>4. CASE i \in static /\ addr'[i] = addr[i]
        BY <2>1, <3>4 DEF GivenInv, AddressesAreGiven
      <3>5. QED
        BY <3>1, <3>2, <3>3, <3>4
    <2>7. QED
      BY <2>2, <2>3, <2>4, <2>5, <2>6 DEF GivenInv
  <1>4. CASE RestartHost
    <2>1. pc' = "boot" /\ static' = HasBlock(Kept)
          /\ UNCHANGED <<manager, dhcpcdConf, nmConns, given, config>>
      BY <1>4 DEF RestartHost, ServiceStops, Forget, keepers
    <2>2. \A i \in HasBlock(Kept) : \E g \in given : g.lan = i
      <3> SUFFICES ASSUME NEW i \in HasBlock(Kept) PROVE \E g \in given : g.lan = i
        OBVIOUS
      <3>1. [lan |-> i, subnet |-> Kept[i]] \in given
        BY KeptIsGiven DEF HasBlock
      <3>2. QED
        BY <3>1
    <2>3. AddressesAreGiven'
      <3> SUFFICES ASSUME NEW i \in static', addr'[i] # NoAddress
                   PROVE  [lan |-> i, subnet |-> addr'[i]] \in given'
        BY Zenon DEF AddressesAreGiven
      <3>1. i \in Interfaces /\ Kept[i] # NoAddress
        BY <2>1 DEF HasBlock
      <3>2. addr'[i] = Kept[i]
        BY <1>4, <3>1 DEF RestartHost, DhcpcdGives
      <3>3. QED
        BY <2>1, <3>1, <3>2, KeptIsGiven
    <2>4. QED
      BY <2>1, <2>2, <2>3
      DEF GivenInv, HasBlock, AfterLAN, AfterSave, BeforeSave, IsConfigured, Named
  <1>5. CASE StartServiceOfAP
    <2>1. /\ pc' = "restore" /\ IsConfigured
          /\ UNCHANGED <<dhcpcdConf, nmConns, given, config>>
      BY <1>5, Zenon DEF StartServiceOfAP, Goes, Moves, keepers
    <2>2. \/ UNCHANGED <<addr, static>>
          \/ \E ok : AppliesStatic(addr, config.lan, config.subnet, ok)
      BY <1>5, Zenon DEF StartServiceOfAP
    <2>3. /\ Named(config) \in given /\ addr \in [Interfaces -> CIDRs]
          /\ static \in SUBSET Interfaces /\ config.lan \in Interfaces
      BY <2>1 DEF GivenInv, TypeInv, TypeOK, HostTypes
    <2>4. (\A i \in static' : \E g \in given' : g.lan = i) /\ AddressesAreGiven'
      <3>1. CASE UNCHANGED <<addr, static>>
        BY <2>1, <3>1 DEF GivenInv, AddressesAreGiven
      <3>2. CASE \E ok : AppliesStatic(addr, config.lan, config.subnet, ok)
        <4> SUFFICES ASSUME NEW i \in static'
                     PROVE  /\ \E g \in given : g.lan = i
                            /\ \/ addr'[i] = NoAddress
                               \/ [lan |-> i, subnet |-> addr'[i]] \in given
          BY <2>1 DEF AddressesAreGiven
        <4>1. CASE i = config.lan
          <5>1. addr'[i] \in {NoAddress, config.subnet}
            BY <2>3, <3>2, <4>1 DEF AppliesStatic
          <5>2. QED
            BY <2>3, <4>1, <5>1 DEF Named
        <4>2. CASE i # config.lan
          <5>1. i \in static /\ addr'[i] = addr[i]
            BY <2>3, <3>2, <4>2 DEF AppliesStatic
          <5>2. QED
            BY <5>1 DEF GivenInv, AddressesAreGiven
        <4>3. QED
          BY <4>1, <4>2
      <3>3. QED
        BY <2>2, <3>1, <3>2
    <2>5. QED
      BY <2>1, <2>4
      DEF GivenInv, HasBlock, AfterLAN, AfterSave, BeforeSave, IsConfigured, Named
  <1>6. ASSUME NEW i \in Uplinks, LeaseChanges(i) PROVE GivenInv'
    <2>1. /\ pc \in {"form", "parsed"} /\ i \notin static
          /\ UNCHANGED <<pc, static, keepers, given, config, cfg>>
      BY <1>6 DEF LeaseChanges
    <2>2. \A j \in static : addr'[j] = addr[j]
      BY <1>6, <2>1 DEF LeaseChanges, TypeInv, TypeOK, HostTypes
    <2>3. AddressesAreGiven'
      BY <2>1, <2>2 DEF GivenInv, AddressesAreGiven
    <2>4. QED
      BY <2>1, <2>3 DEF GivenInv, HasBlock, keepers, AfterLAN, AfterSave, BeforeSave,
         IsConfigured, Named
  <1>7. QED
    BY <1>1, <1>2, <1>3, <1>4, <1>5, <1>6, HostCases

LEMMA GivenInvariant == Spec => [](TypeInv /\ GivenInv)
  <1>1. Init => GivenInv
    <2> SUFFICES ASSUME Init PROVE GivenInv
      OBVIOUS
    <2>1. /\ given = {[lan |-> i, subnet |-> dhcpcdConf[i]] : i \in static}
          /\ static = HasBlock(dhcpcdConf) /\ nmConns = {} /\ ~IsConfigured /\ pc = "form"
      BY Zenon DEF Init, IsConfigured
    <2>2. \A i \in static : addr[i] = dhcpcdConf[i]
      BY DEF Init, HasBlock
    <2>3. \A i \in static : [lan |-> i, subnet |-> dhcpcdConf[i]] \in given
      BY <2>1
    <2>4. \A i \in static : \E g \in given : g.lan = i
      BY <2>3
    <2>5. QED
      BY <2>1, <2>2, <2>3, <2>4
      DEF GivenInv, AddressesAreGiven, AfterLAN, AfterSave, BeforeSave
  <1>2. QED
    BY <1>1, GivenStep, TypeInvariant, PTL DEF Spec

\* A LAN's subnet is an address that a manager keeps.
LEMMA LANIsAnAddress == \A n \in LANs : IsSubnet(n) => n # NoAddress
  BY DEF IsSubnet, NoAddress

\* A LAN step leaves the connections of no other interface.
LEMMA LANHasOneConnection ==
    ASSUME TypeInv, configureLANInterface
    PROVE  OneConnection(cfg)'
  <1>1. /\ UNCHANGED <<manager, cfg>>
        /\ manager = "NetworkManager" /\ cfg.lan \notin Wireless
             => nmConns' \subseteq {Named(cfg)}
    BY LANLeaves
  <1>2. Named(cfg).lan = cfg.lan
    BY DEF Named
  <1>3. QED
    BY <1>1, <1>2 DEF OneConnection

LEMMA OthersStep == TypeInv /\ GivenInv /\ OthersInv /\ [Next]_vars => OthersInv'
  <1> SUFFICES ASSUME TypeInv, GivenInv, OthersInv, [Next]_vars PROVE OthersInv'
    OBVIOUS
  <1> USE DEF AfterLAN, AfterSave
  <1>1. CASE ParseGiven \/ ParseSuggested
    BY <1>1, ParsesRequest DEF OthersInv, IsConfigured
  <1>2. CASE QuietWork
    <2>1. Proceeds
      BY <1>2, QuietProceeds
    <2>2. HasBlock(Kept)' = HasBlock(Kept)
      BY <2>1 DEF Proceeds, hostState, HasBlock, Kept
    <2>3. /\ pc' \in AfterLAN \cup AfterSave => ~rebooted'
          /\ pc' \in AfterLAN => OneConnection(cfg)'
      BY <2>1 DEF OthersInv, Proceeds, hostState, OneConnection
    <2>4. IsConfigured' => OneConnection(config)'
      BY <2>1 DEF OthersInv, Proceeds, hostState, OneConnection, IsConfigured
    <2>5. IsConfigured' /\ rebooted'
            => static' \subseteq HasBlock(Kept)' \cup {config'.lan}
      BY <2>1, <2>2 DEF OthersInv, Proceeds, hostState, IsConfigured
    <2>6. QED
      BY <2>3, <2>4, <2>5 DEF OthersInv
  <1>3. CASE configureLANInterface
    <2>1. pc = "lan" /\ pc' \in {"ap", "failed"} /\ ~rebooted' /\ UNCHANGED config
      BY <1>3, LANLeaves
    <2>2. ~IsConfigured'
      BY <2>1 DEF GivenInv, BeforeSave, IsConfigured
    <2>3. QED
      BY <1>3, <2>1, <2>2, LANHasOneConnection DEF OthersInv
  <1>4. CASE RestartHost
    <2>1. pc' = "boot" /\ static' = HasBlock(Kept) /\ rebooted'
          /\ UNCHANGED <<manager, keepers, config>>
      BY <1>4 DEF RestartHost, ServiceStops, Forget
    <2>2. HasBlock(Kept)' = HasBlock(Kept)
      BY <2>1 DEF keepers, HasBlock, Kept
    <2>3. QED
      BY <2>1, <2>2 DEF OthersInv, OneConnection, IsConfigured, keepers
  <1>5. CASE StartServiceOfAP
    <2>1. pc' = "restore" /\ UNCHANGED <<manager, keepers, config, rebooted>>
      BY <1>5, Zenon DEF StartServiceOfAP, Goes, Moves
    <2>2. static' \subseteq static \cup {config.lan}
      <3>1. static' = static \/ static' = static \cup {config.lan}
        BY <1>5, Zenon DEF StartServiceOfAP, AppliesStatic
      <3>2. QED
        BY <3>1
    <2>3. HasBlock(Kept)' = HasBlock(Kept)
      BY <2>1 DEF keepers, HasBlock, Kept
    <2>4. QED
      BY <2>1, <2>2, <2>3 DEF OthersInv, OneConnection, IsConfigured, keepers
  <1>6. ASSUME NEW i \in Uplinks, LeaseChanges(i) PROVE OthersInv'
    <2>1. pc \in {"form", "parsed"} /\ UNCHANGED <<pc, manager, keepers, config, rebooted, static>>
      BY <1>6 DEF LeaseChanges, history
    <2>2. HasBlock(Kept)' = HasBlock(Kept)
      BY <2>1 DEF keepers, HasBlock, Kept
    <2>3. QED
      BY <2>1, <2>2 DEF OthersInv, OneConnection, IsConfigured, keepers
  <1>7. QED
    BY <1>1, <1>2, <1>3, <1>4, <1>5, <1>6, HostCases

LEMMA OthersInvariant == Spec => [](TypeInv /\ GivenInv /\ OthersInv)
  <1>1. Init => OthersInv
    BY DEF Init, OthersInv, AfterLAN, AfterSave, IsConfigured
  <1>2. QED
    BY <1>1, OthersStep, GivenInvariant, PTL DEF Spec

\* WAN and third interfaces keep their leases unless an earlier attempt had them for
\* its LAN or dhcpcd.conf gave them an address; after a restart of the host too, but
\* for what a manager keeps.
THEOREM OthersLeftAlone == Spec => []OthersAreLeftAlone
  <1>1. TypeInv /\ GivenInv /\ OthersInv => OthersAreLeftAlone
    <2> SUFFICES ASSUME TypeInv, GivenInv, OthersInv, IsConfigured,
                        NEW i \in static \ {config.lan}
                 PROVE  /\ \E g \in given : g.lan = i
                        /\ rebooted => \/ manager = "dhcpcd"
                                       \/ manager = "NetworkManager" /\ config.lan \in Wireless
      BY DEF OthersAreLeftAlone
    <2>1. \E g \in given : g.lan = i
      BY DEF GivenInv
    <2>2. ASSUME rebooted
          PROVE  \/ manager = "dhcpcd"
                 \/ manager = "NetworkManager" /\ config.lan \in Wireless
      <3>1. i \in Interfaces /\ Kept[i] # NoAddress
        BY <2>2 DEF OthersInv, HasBlock
      <3>2. /\ manager \in {"NetworkManager", "dhcpcd", "nobody"} /\ manager # "nobody"
            /\ manager = "NetworkManager" => \E n \in nmConns : n.lan = i
        BY <3>1, KeptIsGiven DEF TypeInv, TypeOK, HostTypes
      <3>3. manager = "NetworkManager" => config.lan \in Wireless
        BY <3>2 DEF OthersInv, OneConnection
      <3>4. QED
        BY <3>2, <3>3
    <2>3. QED
      BY <2>1, <2>2
  <1>2. QED
    BY <1>1, OthersInvariant, PTL

\* An address that ensureLANAddress finds is one.
LEMMA ShownIsAddress ==
    ASSUME NEW a, NEW n, Shows(a, n)
    PROVE  a.ip # Nil /\ n.ip # Nil /\ a # NoAddress
  <1>1. Prolongs \subseteq Addresses \X Addresses
    BY SetupAssumption DEF SetupAssumption
  <1>2. Nil \notin Addresses
    BY DEF Nil, Addresses
  <1>3. QED
    BY <1>1, <1>2 DEF Shows, NoAddress

\* dhcpcd gives an interface that has a block the block's address.
LEMMA DhcpcdGivesBlock ==
    ASSUME NEW conf, NEW a, NEW i \in Interfaces, conf[i] # NoAddress
    PROVE  DhcpcdGives(conf, a)[i] = IF IsSubnet(conf[i]) THEN conf[i] ELSE NoAddress
  BY DEF DhcpcdGives

LEMMA StaticApplied ==
    ASSUME NEW a \in [Interfaces -> CIDRs], NEW i \in Interfaces, NEW n, NEW ok,
           AppliesStatic(a, i, n, ok)
    PROVE  addr'[i] = (IF ok THEN n ELSE NoAddress) /\ i \in static'
  BY DEF AppliesStatic

\* dhcpcd leaves an interface that has no block its address.
LEMMA DhcpcdLeaves ==
    ASSUME NEW conf, NEW a, NEW i \in Interfaces, conf[i] = NoAddress
    PROVE  DhcpcdGives(conf, a)[i] = a[i]
  BY DEF DhcpcdGives

\* A step that configures a LAN which no other attempt had gives it its address,
\* and the manager that took it keeps it; or its interface has had an address that
\* looks like it, and dhcpcd.conf no block.
LEMMA LANResult ==
    ASSUME TypeInv, GivenInv, configureLANInterface, pc' = "ap", Fresh(cfg)'
    PROVE  LANIsSet(cfg)'
  <1> DEFINE n == cfg.subnet
  <1> DEFINE i == cfg.lan
  <1>0. /\ pc = "lan" /\ given' = given \cup {Named(cfg)} /\ UNCHANGED <<manager, cfg>>
        /\ i \in Interfaces /\ n \in LANs /\ addr \in [Interfaces -> CIDRs]
        /\ dhcpcdConf \in [Interfaces -> LANs \cup CIDRs]
    BY LANLeaves, LANNamed DEF TypeInv, TypeOK, HostTypes
  <1>1. IsSubnet(n) => n # NoAddress
    BY <1>0, LANIsAnAddress
  <1>2. ASSUME NEW ok \in IPResults(n), NEW fallback \in BOOLEAN, LANStep(ok, fallback)
        PROVE  ok = TRUE /\ fellBack' = fallback /\ IsSubnet(n)
    <2>1. pc' = (IF ok THEN "ap" ELSE "failed") /\ fellBack' = fallback
      BY <1>2 DEF LANStep, Goes, Moves
    <2>2. ok \in BOOLEAN
      BY DEF IPResults
    <2>3. ok = TRUE
      BY <2>1, <2>2
    <2>4. QED
      BY <2>1, <2>3 DEF IPResults
  <1>3. TRUE \in BOOLEAN /\ FALSE \in BOOLEAN
    OBVIOUS
  <1>4. ASSUME IsSubnet(n), addr'[i] = n, i \in static', KeepsAddress(cfg)'
        PROVE  LANIsSet(cfg)'
    BY <1>0, <1>4 DEF HasAddress, LANIsSet
  <1>5. CASE ConfigureByIP
    <2>1. PICK ok \in IPResults(n) : LANStep(ok, FALSE) /\ AppliesStatic(addr, i, n, ok)
      BY <1>5 DEF ConfigureByIP
    <2>2. KeepsAddress(cfg)'
      BY <1>0, <1>5 DEF ConfigureByIP, KeepsAddress
    <2>3. ok = TRUE /\ IsSubnet(n)
      BY <1>2, <1>3, <2>1, Zenon
    <2>4. addr'[i] = n /\ i \in static'
      BY <1>0, <2>1, <2>3, StaticApplied
    <2>5. QED
      BY <1>4, <2>2, <2>3, <2>4
  <1>6. CASE ConfigureByDhcpcd
    <2> DEFINE a == DhcpcdGives(appendUniqueBlock, addr)
    <2>1. manager = "dhcpcd" /\ dhcpcdConf' = appendUniqueBlock
      BY <1>6 DEF ConfigureByDhcpcd
    <2>2. a \in [Interfaces -> CIDRs]
      <3>1. appendUniqueBlock \in [Interfaces -> LANs \cup CIDRs]
        BY <1>0 DEF appendUniqueBlock
      <3>2. QED
        BY <1>0, <3>1, DhcpcdTypes
    <2>3. \/ Shows(a[i], n) /\ addr' = a /\ static' = static \cup HasBlock(appendUniqueBlock)
          \/ IsSubnet(n) /\ addr'[i] = n /\ i \in static'
      <3>1. CASE Shows(a[i], n)
        BY <1>6, <3>1, Zenon DEF ConfigureByDhcpcd
      <3>2. CASE ~Shows(a[i], n)
        <4>1. PICK ok \in IPResults(n) : LANStep(ok, FALSE) /\ AppliesStatic(a, i, n, ok)
          BY <1>6, <3>2, Zenon DEF ConfigureByDhcpcd
        <4>2. ok = TRUE /\ IsSubnet(n)
          BY <1>2, <1>3, <4>1, Zenon
        <4>3. QED
          BY <1>0, <2>2, <4>1, <4>2, StaticApplied
      <3>3. QED
        BY <3>1, <3>2
    <2>4. CASE dhcpcdConf[i] # NoAddress \/ ~NamedElsewhere(i)
      <3>1. appendUniqueBlock[i] = n
        <4>1. CASE dhcpcdConf[i] # NoAddress
          <5>1. [lan |-> i, subnet |-> dhcpcdConf[i]] \in given'
            BY <1>0, <4>1 DEF GivenInv, HasBlock
          <5>2. dhcpcdConf[i] = n
            BY <1>0, <5>1 DEF Fresh, TriedBefore
          <5>3. QED
            BY <4>1, <5>2 DEF appendUniqueBlock
        <4>2. CASE dhcpcdConf[i] = NoAddress
          BY <1>0, <2>4, <4>2 DEF appendUniqueBlock
        <4>3. QED
          BY <4>1, <4>2
      <3>2. KeepsAddress(cfg)'
        BY <1>0, <2>1, <3>1 DEF KeepsAddress, Kept
      <3>3. CASE Shows(a[i], n) /\ addr' = a /\ static' = static \cup HasBlock(appendUniqueBlock)
        <4>1. a[i] # NoAddress /\ n # NoAddress
          BY <3>3, ShownIsAddress DEF NoAddress
        <4>2. a[i] = IF IsSubnet(n) THEN n ELSE NoAddress
          BY <1>0, <3>1, <4>1, DhcpcdGivesBlock
        <4>3. i \in static'
          BY <1>0, <3>1, <3>3, <4>1 DEF HasBlock
        <4>4. QED
          BY <1>4, <3>2, <3>3, <4>1, <4>2, <4>3
      <3>4. QED
        BY <1>4, <2>3, <3>2, <3>3
    <2>5. CASE dhcpcdConf[i] = NoAddress /\ NamedElsewhere(i)
      <3>1. appendUniqueBlock = dhcpcdConf
        BY <2>5 DEF appendUniqueBlock
      <3>2. NoBlockFor(cfg.lan)' /\ KeepsAddress(cfg)'
        BY <1>0, <2>1, <2>5, <3>1 DEF NoBlockFor, NamedElsewhere, HasBlock, KeepsAddress
      <3>3. CASE IsSubnet(n) /\ addr'[i] = n /\ i \in static'
        BY <1>4, <3>2, <3>3
      <3>4. CASE /\ Shows(a[i], n) /\ addr' = a
                 /\ static' = static \cup HasBlock(appendUniqueBlock)
        <4>1. addr'[i] = addr[i] /\ addr[i] # NoAddress
          <5>1. a[i] = addr[i]
            BY <1>0, <2>5, <3>1, DhcpcdLeaves
          <5>2. a[i] # NoAddress
            BY <3>4, ShownIsAddress
          <5>3. QED
            BY <3>4, <5>1, <5>2
        <4>2. i \in static' <=> i \in static
          BY <2>5, <3>1, <3>4 DEF HasBlock
        <4>3. CASE i \in static
          <5>1. [lan |-> i, subnet |-> addr[i]] \in given'
            BY <1>0, <4>1, <4>3 DEF GivenInv, AddressesAreGiven
          <5>2. addr[i] = n
            BY <1>0, <5>1 DEF Fresh, TriedBefore
          <5>3. QED
            BY <1>0, <3>2, <4>1, <4>2, <4>3, <5>2 DEF LANIsSet, HasAddress
        <4>4. CASE i \notin static
          BY <1>0, <3>2, <4>2, <4>4 DEF LANIsSet, ByChance
        <4>5. QED
          BY <4>3, <4>4
      <3>5. QED
        BY <2>3, <3>3, <3>4
    <2>6. QED
      BY <2>4, <2>5
  <1>7. CASE DhcpcdFails
    <2>1. PICK ok \in IPResults(n) : LANStep(ok, TRUE) /\ AppliesStatic(addr, i, n, ok)
      BY <1>7 DEF DhcpcdFails
    <2>2. KeepsAddress(cfg)'
      <3>1. fellBack' = TRUE
        BY <1>2, <1>3, <2>1, Zenon
      <3>2. QED
        BY <3>1 DEF KeepsAddress
    <2>3. ok = TRUE /\ IsSubnet(n)
      BY <1>2, <1>3, <2>1, Zenon
    <2>4. addr'[i] = n /\ i \in static'
      BY <1>0, <2>1, <2>3, StaticApplied
    <2>5. QED
      BY <1>4, <2>2, <2>3, <2>4
  <1>8. CASE ConfigureByNM
    <2>1. /\ manager = "NetworkManager" /\ IsSubnet(n) /\ nmConns' = {Named(cfg)}
          /\ addr' = [WithoutConns EXCEPT ![i] = n] /\ i \in static'
      BY <1>8 DEF ConfigureByNM, DeleteConns, Named
    <2>2. addr'[i] = n
      BY <1>0, <2>1 DEF WithoutConns
    <2>3. Named(cfg).lan = i /\ Named(cfg).subnet = n
      BY DEF Named
    <2>4. (CHOOSE c \in {Named(cfg)} : c.lan = i) = Named(cfg)
      BY <2>3
    <2>5. \E c \in {Named(cfg)} : c.lan = i
      BY <2>3
    <2>6. Kept'[i] = n
      BY <1>0, <2>1, <2>3, <2>4, <2>5 DEF Kept
    <2>7. QED
      BY <1>0, <1>4, <2>1, <2>2, <2>6 DEF KeepsAddress
  <1>9. CASE NMFails
    <2>1. PICK ok \in IPResults(n) :
            /\ LANStep(ok, TRUE)
            /\ addr' = [WithoutConns EXCEPT ![i] = IF ok THEN n ELSE NoAddress]
      BY <1>9 DEF NMFails
    <2>2. ok = TRUE /\ IsSubnet(n) /\ KeepsAddress(cfg)'
      <3>1. ok = TRUE /\ IsSubnet(n) /\ fellBack' = TRUE
        BY <1>2, <1>3, <2>1, Zenon
      <3>2. QED
        BY <3>1 DEF KeepsAddress
    <2>3. addr'[i] = n
      BY <1>0, <2>1, <2>2 DEF WithoutConns
    <2>4. i \in static'
      BY <1>9 DEF NMFails
    <2>5. QED
      BY <1>4, <2>2, <2>3, <2>4
  <1>10. QED
    BY <1>5, <1>6, <1>7, <1>8, <1>9 DEF configureLANInterface

\* What the start of the service does to the LAN's address.
LEMMA StartResult ==
    ASSUME TypeInv, AddressInv, IsConfigured, config.lan \in Interfaces, Fresh(config),
           StartServiceOfAP
    PROVE  StillHasAddress(config)'
  <1> DEFINE n == config.subnet
  <1> DEFINE i == config.lan
  <1> DEFINE has == Shows(addr[i], n)
  <1>0. /\ pc = "boot" /\ pc' = "restore" /\ addr \in [Interfaces -> CIDRs]
        /\ UNCHANGED <<config, manager, dhcpcdConf, fellBack, rebooted>> /\ i \in Wireless
    BY Zenon DEF StartServiceOfAP, Goes, Moves, keepers, TypeInv, TypeOK, HostTypes
  <1>1. StillHasAddress(config)
    BY DEF AddressInv
  <1>2. PICK got \in IF has THEN {TRUE} ELSE IPResults(n), ap \in BOOLEAN :
          /\ IF has THEN UNCHANGED <<addr, static>> ELSE AppliesStatic(addr, i, n, got)
          /\ faults' = {f \in faults \cup {"address", "ap"} :
                            (f = "address" => ~got) /\ (f = "ap" => ~ap)}
    BY Zenon DEF StartServiceOfAP
  <1>3. NoBlockFor(config.lan)' <=> NoBlockFor(config.lan)
    BY <1>0 DEF NoBlockFor, NamedElsewhere, HasBlock
  <1>4. CASE has
    <2>1. UNCHANGED <<addr, static>> /\ addr[i] # NoAddress
      <3>1. addr[i] # NoAddress
        BY <1>4, ShownIsAddress
      <3>2. UNCHANGED <<addr, static>>
        BY <1>2, <1>4, Zenon
      <3>3. QED
        BY <3>1, <3>2
    <2>2. \/ addr[i] = n /\ (i \in static \/ NoBlockFor(i))
          \/ ByChance(config)
      BY <1>0, <1>1, <2>1 DEF StillHasAddress
    <2>3. CASE addr[i] = n /\ (i \in static \/ NoBlockFor(i))
      BY <1>0, <1>3, <2>1, <2>3 DEF StillHasAddress
    <2>4. CASE ByChance(config)
      BY <1>0, <1>3, <2>1, <2>4 DEF StillHasAddress, ByChance
    <2>5. QED
      BY <2>2, <2>3, <2>4
  <1>5. CASE ~has
    <2>1. AppliesStatic(addr, i, n, got) /\ got \in BOOLEAN
      BY <1>2, <1>5 DEF IPResults
    <2>2. addr'[i] = (IF got THEN n ELSE NoAddress) /\ i \in static'
      BY <1>0, <2>1, StaticApplied
    <2>3. "address" \notin faults' => got
      BY <1>2
    <2>4. QED
      BY <1>0, <2>1, <2>2, <2>3 DEF StillHasAddress
  <1>6. QED
    BY <1>4, <1>5

\* What a restart of the host does to it.
LEMMA RestartResult ==
    ASSUME TypeInv, GivenInv, AddressInv, IsConfigured, Fresh(config), RestartHost
    PROVE  StillHasAddress(config)'
  <1> DEFINE n == config.subnet
  <1> DEFINE i == config.lan
  <1>1. /\ pc' = "boot" /\ rebooted' /\ UNCHANGED <<config, manager, dhcpcdConf, fellBack>>
        /\ addr' = DhcpcdGives(Kept, [j \in Interfaces |-> NoAddress])
        /\ static' = HasBlock(Kept)
    BY DEF RestartHost, ServiceStops, Forget, keepers
  <1>2. i \in Interfaces /\ n \in LANs /\ (IsSubnet(n) => n # NoAddress)
    BY LANIsAnAddress DEF GivenInv, TypeInv, TypeOK, RequestTypes, Configs
  <1>3. KeepsAddress(config) /\ (IsSubnet(n) \/ NoBlockFor(i))
    BY DEF AddressInv
  <1>4. Kept[i] \in {NoAddress, n}
    <2> SUFFICES ASSUME Kept[i] # NoAddress PROVE Kept[i] = n
      OBVIOUS
    <2>1. [lan |-> i, subnet |-> Kept[i]] \in given
      BY <1>2, KeptIsGiven
    <2>2. QED
      BY <2>1 DEF Fresh, TriedBefore
  <1>5. NoBlockFor(config.lan)' <=> NoBlockFor(config.lan)
    BY <1>1 DEF NoBlockFor, NamedElsewhere, HasBlock
  <1>6. CASE NoBlockFor(i)
    <2>1. Kept[i] = NoAddress
      BY <1>6 DEF NoBlockFor, Kept
    <2>2. addr'[i] = NoAddress
      BY <1>1, <1>2, <2>1 DEF DhcpcdGives
    <2>3. QED
      BY <1>1, <1>5, <1>6, <2>2 DEF StillHasAddress
  <1>7. CASE ~NoBlockFor(i)
    <2>1. IsSubnet(n) /\ n # NoAddress
      BY <1>2, <1>3, <1>7
    <2>2. /\ Kept[i] = n => addr'[i] = n /\ i \in static'
          /\ Kept[i] = NoAddress => addr'[i] = NoAddress
      BY <1>1, <1>2, <2>1 DEF DhcpcdGives, HasBlock
    <2>3. CASE i \in Wireless
      BY <1>1, <1>4, <2>1, <2>2, <2>3 DEF StillHasAddress
    <2>4. CASE i \notin Wireless
      <3>1. CASE manager # "nobody" /\ ~fellBack
        <4>1. Kept[i] = n
          BY <1>3, <1>7, <2>4, <3>1 DEF KeepsAddress
        <4>2. QED
          BY <1>1, <2>2, <2>4, <4>1 DEF StillHasAddress, HasAddress
      <3>2. CASE manager = "nobody" \/ fellBack
        BY <1>1, <2>4, <3>2 DEF StillHasAddress
      <3>3. QED
        BY <3>1, <3>2
    <2>5. QED
      BY <2>3, <2>4
  <1>8. QED
    BY <1>6, <1>7

LEMMA AddressStep == TypeInv /\ GivenInv /\ AddressInv /\ [Next]_vars => AddressInv'
  <1> SUFFICES ASSUME TypeInv, GivenInv, AddressInv, [Next]_vars PROVE AddressInv'
    OBVIOUS
  <1>0. IsConfigured /\ Fresh(config)
          => /\ IsSubnet(config.subnet) \/ NoBlockFor(config.lan)
             /\ KeepsAddress(config) /\ StillHasAddress(config)
    BY DEF AddressInv
  <1>1. CASE ParseGiven \/ ParseSuggested
    BY <1>1, ParsesRequest DEF AddressInv, IsConfigured, AfterLAN
  <1>2. CASE QuietWork
    <2>1. Proceeds
      BY <1>2, QuietProceeds
    <2>2. UNCHANGED <<manager, addr, static, dhcpcdConf, nmConns, given, fellBack, rebooted>>
      BY <2>1 DEF Proceeds, hostState
    <2>3. Kept' = Kept /\ \A i : NoBlockFor(i)' <=> NoBlockFor(i)
      BY <2>2 DEF Kept, NoBlockFor, NamedElsewhere, HasBlock
    <2>4. ASSUME pc' \in AfterLAN, Fresh(cfg)' PROVE LANIsSet(cfg)'
      <3>1. pc \in AfterLAN /\ cfg' = cfg
        BY <2>1, <2>4 DEF Proceeds
      <3>2. Fresh(cfg)
        BY <2>2, <2>4, <3>1 DEF Fresh, TriedBefore
      <3>3. LANIsSet(cfg)
        BY <3>1, <3>2 DEF AddressInv
      <3>4. QED
        BY <2>2, <2>3, <3>1, <3>3 DEF LANIsSet, KeepsAddress, HasAddress, ByChance
    <2>5. ASSUME IsConfigured', Fresh(config)'
          PROVE  /\ (IsSubnet(config.subnet) \/ NoBlockFor(config.lan))'
                 /\ KeepsAddress(config)' /\ StillHasAddress(config)'
      <3>1. CASE config' = config
        <4>1. IsConfigured /\ Fresh(config)
          BY <2>2, <2>5, <3>1 DEF IsConfigured, Fresh, TriedBefore
        <4>2. KeepsAddress(config)'
          BY <1>0, <2>2, <2>3, <3>1, <4>1 DEF KeepsAddress
        <4>3. /\ "address" \in faults => "address" \in faults'
              /\ config.lan \in Wireless /\ pc' # "boot" => pc # "boot"
          BY <2>1, <4>1 DEF Proceeds
        <4>4. StillHasAddress(config)'
          BY <1>0, <2>2, <2>3, <3>1, <4>1, <4>3 DEF StillHasAddress, HasAddress, ByChance
        <4>5. QED
          BY <1>0, <2>3, <3>1, <4>1, <4>2, <4>4
      <3>2. CASE pc = "save" /\ config' = cfg
        <4>1. Fresh(cfg)
          BY <2>2, <2>5, <3>2 DEF Fresh, TriedBefore
        <4>2. LANIsSet(cfg)
          BY <3>2, <4>1 DEF AddressInv, AfterLAN
        <4>3. KeepsAddress(config)'
          BY <2>2, <2>3, <3>2, <4>2 DEF LANIsSet, KeepsAddress
        <4>4. StillHasAddress(config)'
          BY <2>2, <2>3, <3>2, <4>2 DEF LANIsSet, StillHasAddress, HasAddress, ByChance
        <4>5. QED
          BY <2>3, <3>2, <4>2, <4>3, <4>4 DEF LANIsSet
      <3>3. QED
        BY <2>1, <3>1, <3>2 DEF Proceeds
    <2>6. QED
      BY <2>4, <2>5 DEF AddressInv
  <1>3. CASE configureLANInterface
    <2>1. pc = "lan" /\ pc' \in {"ap", "failed"} /\ UNCHANGED <<cfg, config>>
      BY <1>3, LANLeaves
    <2>2. ~IsConfigured'
      BY <2>1 DEF GivenInv, BeforeSave, IsConfigured
    <2>3. pc' \in AfterLAN /\ Fresh(cfg)' => LANIsSet(cfg)'
      BY <1>3, <2>1, LANResult DEF AfterLAN
    <2>4. QED
      BY <2>2, <2>3 DEF AddressInv
  <1>4. CASE RestartHost \/ StartServiceOfAP \/ \E i \in Uplinks : LeaseChanges(i)
    <2>1. /\ pc' \notin AfterLAN
          /\ UNCHANGED <<config, manager, dhcpcdConf, nmConns, given, fellBack>>
      <3>1. CASE RestartHost
        BY <3>1 DEF RestartHost, ServiceStops, Forget, keepers, AfterLAN
      <3>2. CASE StartServiceOfAP
        <4>1. pc' = "restore" /\ UNCHANGED <<config, manager, keepers, given, fellBack>>
          BY <3>2, Zenon DEF StartServiceOfAP, Goes, Moves
        <4>2. QED
          BY <4>1 DEF keepers, AfterLAN
      <3>3. CASE \E i \in Uplinks : LeaseChanges(i)
        BY <3>3 DEF LeaseChanges, keepers, AfterLAN
      <3>4. QED
        BY <1>4, <3>1, <3>2, <3>3
    <2>2. SUFFICES ASSUME IsConfigured', Fresh(config)'
                   PROVE  /\ (IsSubnet(config.subnet) \/ NoBlockFor(config.lan))'
                          /\ KeepsAddress(config)' /\ StillHasAddress(config)'
      BY <2>1 DEF AddressInv
    <2>3. IsConfigured /\ Fresh(config) /\ config.lan \in Interfaces
      BY <2>1, <2>2 DEF IsConfigured, Fresh, TriedBefore, GivenInv
    <2>4. Kept' = Kept /\ (NoBlockFor(config.lan)' <=> NoBlockFor(config.lan))
      BY <2>1 DEF Kept, NoBlockFor, NamedElsewhere, HasBlock
    <2>5. (IsSubnet(config.subnet) \/ NoBlockFor(config.lan))' /\ KeepsAddress(config)'
      BY <1>0, <2>1, <2>3, <2>4 DEF KeepsAddress
    <2>6. StillHasAddress(config)'
      <3>1. CASE RestartHost
        BY <2>3, <3>1, RestartResult
      <3>2. CASE StartServiceOfAP
        BY <2>3, <3>2, StartResult
      <3>3. ASSUME NEW i \in Uplinks, LeaseChanges(i) PROVE StillHasAddress(config)'
        <4>1. /\ pc \in {"form", "parsed"} /\ i \notin static
              /\ UNCHANGED <<pc, manager, static, config, fellBack, rebooted, faults>>
          BY <3>3 DEF LeaseChanges
        <4>2. \E a \in Leases : addr' = [addr EXCEPT ![i] = a]
          BY <3>3 DEF LeaseChanges
        <4>3. i # config.lan => addr'[config.lan] = addr[config.lan]
          BY <2>3, <4>2 DEF TypeInv, TypeOK, HostTypes
        <4>4. StillHasAddress(config)
          BY <1>0, <2>3
        <4>5. CASE i # config.lan
          BY <2>4, <4>1, <4>3, <4>4, <4>5 DEF StillHasAddress, HasAddress, ByChance
        <4>6. CASE i = config.lan
          <5>1. config.lan \in Wireless => ByChance(config)
            BY <4>1, <4>4, <4>6 DEF StillHasAddress, ByChance
          <5>2. QED
            BY <2>4, <4>1, <4>4, <4>6, <5>1 DEF StillHasAddress, HasAddress, ByChance
        <4>7. QED
          BY <4>5, <4>6
      <3>4. QED
        BY <1>4, <3>1, <3>2, <3>3
    <2>7. QED
      BY <2>5, <2>6
  <1>5. QED
    BY <1>1, <1>2, <1>3, <1>4, HostCases

\* A configured LAN has the saved address across failed attempts and restarts, unless
\* another attempt or the first dhcpcd.conf gave the interface another; a wired one that
\* no manager took, until a restart of the host; and one that dhcpcd.conf names without
\* a block may have a lease in whose text the address is.
THEOREM LANKeepsItsAddress == Spec => []LANHasItsAddress
  <1>1. Init => AddressInv
    BY DEF Init, AddressInv, AfterLAN, IsConfigured
  <1>2. AddressInv => LANHasItsAddress
    BY DEF AddressInv, StillHasAddress, HasAddress, ByChance, Fresh, LANHasItsAddress, Idle
  <1>3. QED
    BY <1>1, <1>2, AddressStep, GivenInvariant, PTL DEF Spec

-----------------------------------------------------------------------------
(* The access point of a configured router.                                *)

Tried(i) == \E g \in given : g.lan = i

\* What the access point's step leaves for configuration c: hostapd's file names a
\* wireless LAN, and the unit neither runs nor is started at boot for a wired one.
APReady(c) ==
    \/ "ap" \in faults
    \/ IF c.lan \in Wireless THEN hostapd.conf = c.lan
                             ELSE hostapd.on = NoInterface /\ ~hostapd.enabled

\* hostapd runs on the interface of c, or where an earlier attempt has started it.
RunsFor(c) == hostapd.on = c.lan \/ (~rebooted /\ Tried(hostapd.on))

\* hostapd is written for, and runs on, interfaces of attempts; once a wireless LAN is
\* configured, its file names that LAN or nothing, so it runs on no other after a
\* restart of the host.
APInv ==
    /\ hostapd.conf = NoInterface \/ Tried(hostapd.conf)
    /\ hostapd.on = NoInterface \/ Tried(hostapd.on)
    /\ pc \in {"dnsmasq", "save"} =>
         APReady(cfg) /\ (cfg.lan \in Wireless => hostapd.conf = cfg.lan)
    /\ pc \in AfterSave => cfg = config
    /\ pc = "hostapd" => cfg.lan \in Wireless
    /\ IsConfigured => APReady(config)
    /\ IsConfigured /\ config.lan \in Wireless =>
         /\ hostapd.conf \in {NoInterface, config.lan}
         /\ rebooted => hostapd.on \in {NoInterface, config.lan}
         /\ pc = "done" /\ "ap" \notin faults => hostapd.on = config.lan
         /\ pc \in {"restore", "form"} /\ "ap" \notin faults => RunsFor(config)

\* Steps that neither hostapd nor what APInv says of it notices.
LEMMA APUnnoticed ==
    ASSUME APInv, UNCHANGED <<hostapd, config, rebooted>>, given \subseteq given',
           "ap" \in faults' <=> "ap" \in faults,
           pc' \in {"dnsmasq", "save"} => pc \in {"dnsmasq", "save"} /\ cfg' = cfg,
           pc' \in AfterSave => cfg' = config,
           pc' = "hostapd" => cfg'.lan \in Wireless,
           IsConfigured /\ pc' = "done" => pc = "done" \/ config.lan \notin Wireless,
           IsConfigured /\ pc' \in {"restore", "form"} =>
               pc \in {"restore", "form"} \/ config.lan \notin Wireless
    PROVE  APInv'
  <1>1. \A i : Tried(i) => Tried(i)'
    BY DEF Tried
  <1>2. \A c : (APReady(c) => APReady(c)') /\ (RunsFor(c) => RunsFor(c)')
    BY <1>1 DEF APReady, RunsFor
  <1>3. IsConfigured' <=> IsConfigured
    BY DEF IsConfigured
  <1>4. /\ (hostapd.conf = NoInterface \/ Tried(hostapd.conf))'
        /\ (hostapd.on = NoInterface \/ Tried(hostapd.on))'
    BY <1>1 DEF APInv
  <1>5. pc' \in {"dnsmasq", "save"} =>
          APReady(cfg)' /\ (cfg'.lan \in Wireless => hostapd'.conf = cfg'.lan)
    BY DEF APInv, APReady
  <1>6. IsConfigured' => APReady(config)'
    BY <1>3 DEF APInv, APReady
  <1>7. IsConfigured' /\ config'.lan \in Wireless =>
          /\ hostapd'.conf \in {NoInterface, config'.lan}
          /\ rebooted' => hostapd'.on \in {NoInterface, config'.lan}
          /\ pc' = "done" /\ "ap" \notin faults' => hostapd'.on = config'.lan
    BY <1>3 DEF APInv
  <1>8. IsConfigured' /\ config'.lan \in Wireless /\ pc' \in {"restore", "form"}
          /\ "ap" \notin faults' => RunsFor(config)'
    BY <1>1, <1>3 DEF APInv, RunsFor
  <1>9. QED
    BY <1>4, <1>5, <1>6, <1>7, <1>8 DEF APInv

LEMMA APStep == TypeInv /\ GivenInv /\ OthersInv /\ APInv /\ [Next]_vars => APInv'
  <1> SUFFICES ASSUME TypeInv, GivenInv, OthersInv, APInv, [Next]_vars PROVE APInv'
    OBVIOUS
  <1>0. /\ hostapd \in [conf : Ifaces, enabled : BOOLEAN, on : Ifaces] /\ HostapdType
        /\ cfg.lan \in Ifaces /\ config.lan \in Ifaces
        /\ pc \in {"form", "parsed", "boot", "restore"} \cup Steps \cup Ended
    BY DEF TypeInv, TypeOK, HostapdType, RequestTypes, Configs
  <1>a. IsConfigured => Tried(config.lan)
    BY DEF GivenInv, Named, Tried
  <1>b. pc \in AfterLAN \cup AfterSave => Tried(cfg.lan)
    BY DEF GivenInv, Named, Tried
  <1>c. pc \in BeforeSave => ~IsConfigured
    BY DEF GivenInv
  <1>1. CASE ParseGiven \/ ParseSuggested
    <2>1. pc' = "parsed" /\ UNCHANGED <<config, hostapd, given, rebooted, faults>>
      BY <1>1, ParsesRequest DEF services
    <2>2. QED
      BY <2>1, APUnnoticed DEF AfterSave
  <1>2. CASE Reject \/ Validate \/ Again \/ \E i \in Uplinks : LeaseChanges(i)
    <2>1. /\ UNCHANGED <<config, hostapd, given, rebooted, faults>>
          /\ pc' \in {"rejected", "refused", "packages", "form", "parsed"}
          /\ pc' = "form" => pc = "form" \/ ~IsConfigured
      BY <1>2 DEF Reject, Validate, Again, LeaseChanges, Forget, Goes, Moves, services, history
    <2>2. QED
      BY <2>1, APUnnoticed DEF AfterSave
  <1>3. CASE QuietStep
    <2>1. /\ UNCHANGED <<config, cfg, hostapd, given, rebooted, faults>>
          /\ pc' \in {"lan", "failed"}
      BY <1>3 DEF QuietStep, InstallPackages, SaveFails, Goes, Moves, services, history
    <2>2. QED
      BY <2>1, APUnnoticed DEF AfterSave
  <1>4. CASE configureLANInterface
    <2>1. /\ UNCHANGED <<config, cfg, hostapd, faults>> /\ pc' \in {"ap", "failed"}
          /\ given \subseteq given' /\ pc = "lan"
      BY <1>4, LANStepTaken DEF LANStep, Goes, Moves, services
    <2>2. ~IsConfigured /\ ~IsConfigured'
      BY <1>c, <2>1 DEF BeforeSave, IsConfigured
    <2>3. \A i : Tried(i) => Tried(i)'
      BY <2>1 DEF Tried
    <2>4. QED
      BY <2>1, <2>2, <2>3 DEF APInv, AfterSave
  <1>5. CASE PrepareHostapd
    <2>1. /\ pc = "ap" /\ pc' \in {"dnsmasq", "failed"} /\ cfg.lan \in Wireless
          /\ UNCHANGED <<config, cfg, given, rebooted>>
          /\ hostapd' \in Prepared(cfg.lan) \cup Unprepared
          /\ pc' = "dnsmasq" => hostapd' \in Prepared(cfg.lan)
      BY <1>5 DEF PrepareHostapd, Goes, Moves
    <2>2. /\ hostapd'.on = hostapd.on
          /\ hostapd'.conf \in {cfg.lan, hostapd.conf, NoInterface}
          /\ pc' = "dnsmasq" => hostapd'.conf = cfg.lan
      BY <1>0, <2>1, PreparedTypes
    <2>3. ~IsConfigured' /\ Tried(cfg.lan) /\ \A i : Tried(i) => Tried(i)'
      BY <1>b, <1>c, <2>1 DEF BeforeSave, IsConfigured, AfterLAN, Tried
    <2>4. QED
      BY <2>1, <2>2, <2>3 DEF APInv, APReady, AfterSave
  <1>6. CASE DisableHostapd
    <2>1. PICK stopped \in BOOLEAN, disabled \in BOOLEAN :
            /\ hostapd' = [hostapd EXCEPT !.on = IF stopped THEN NoInterface ELSE @,
                                          !.enabled = IF disabled THEN FALSE ELSE @]
            /\ faults' = Noted("ap", stopped /\ disabled)
      BY <1>6, Zenon DEF DisableHostapd
    <2>2. /\ pc = "ap" /\ pc' = "dnsmasq" /\ cfg.lan \notin Wireless
          /\ UNCHANGED <<config, cfg, given, rebooted>>
      BY <1>6, Zenon DEF DisableHostapd, Goes, Moves
    <2>3. /\ hostapd'.on \in {NoInterface, hostapd.on} /\ hostapd'.conf = hostapd.conf
          /\ stopped /\ disabled => hostapd'.on = NoInterface /\ ~hostapd'.enabled
          /\ ~(stopped /\ disabled) => "ap" \in faults'
      BY <1>0, <2>1 DEF Noted
    <2>4. ~IsConfigured' /\ \A i : Tried(i) => Tried(i)'
      BY <1>c, <2>2 DEF BeforeSave, IsConfigured, Tried
    <2>5. QED
      BY <2>2, <2>3, <2>4 DEF APInv, APReady, AfterSave
  <1>7. CASE ConfigureDnsmasq
    <2>1. /\ UNCHANGED <<config, cfg, hostapd, given, rebooted, faults>>
          /\ pc = "dnsmasq" /\ pc' \in {"save", "failed"}
      BY <1>7, Zenon DEF ConfigureDnsmasq, Goes, Moves, history
    <2>2. QED
      BY <2>1, APUnnoticed DEF AfterSave
  <1>8. CASE InitialRouting
    <2>1. /\ UNCHANGED <<config, cfg, hostapd, given, rebooted>> /\ pc = "nat"
          /\ pc' = IF cfg.lan \in Wireless THEN "hostapd" ELSE "done"
      BY <1>8, Zenon DEF InitialRouting, Goes, Moves
    <2>2. \E ok : faults' = Noted("dns", ok)
      BY <1>8, Zenon DEF InitialRouting, ApplyDirectDNS
    <2>3. "ap" \in faults' <=> "ap" \in faults
      BY <2>2 DEF Noted
    <2>4. cfg = config
      BY <2>1 DEF APInv, AfterSave
    <2>5. QED
      BY <2>1, <2>3, <2>4, APUnnoticed DEF AfterSave
  <1>9. CASE ActivateHostapd
    <2>1. /\ UNCHANGED <<config, cfg, given, rebooted, faults>> /\ pc = "hostapd"
          /\ pc' \in {"done", "failed"}
          /\ \E on \in {hostapd.on, hostapd.conf, NoInterface} :
               /\ hostapd' = [hostapd EXCEPT !.on = on]
               /\ pc' = "done" => on = hostapd.conf
      BY <1>9 DEF ActivateHostapd, Goes, Moves, history
    <2>2. /\ hostapd'.conf = hostapd.conf
          /\ hostapd'.on \in {hostapd.on, hostapd.conf, NoInterface}
          /\ pc' = "done" => hostapd'.on = hostapd.conf
      BY <1>0, <2>1
    <2>3. cfg = config /\ config.lan \in Wireless /\ ~rebooted
      BY <2>1 DEF APInv, AfterSave, OthersInv
    <2>4. /\ \A i : Tried(i) => Tried(i)'
          /\ IsConfigured' <=> IsConfigured
      BY <2>1 DEF Tried, IsConfigured
    <2>5. APReady(config) => APReady(config)'
      BY <2>1, <2>2, <2>3 DEF APReady
    <2>6. APReady(config) /\ "ap" \notin faults => hostapd.conf = config.lan
      BY <2>3 DEF APReady
    <2>7. QED
      BY <2>1, <2>2, <2>3, <2>4, <2>5, <2>6 DEF APInv, AfterSave
  <1>10. CASE SaveConfig
    <2>1. /\ UNCHANGED <<cfg, hostapd, given, rebooted, faults>> /\ config' = cfg
          /\ pc = "save" /\ pc' = "nat"
      BY <1>10 DEF SaveConfig, Goes, Moves, services, history
    <2>2. APReady(cfg) /\ (cfg.lan \in Wireless => hostapd.conf = cfg.lan) /\ ~rebooted
      BY <2>1 DEF APInv, OthersInv, AfterLAN
    <2>3. APReady(config)' /\ \A i : Tried(i) => Tried(i)'
      BY <2>1, <2>2 DEF APReady, Tried
    <2>4. QED
      BY <2>1, <2>2, <2>3 DEF APInv, AfterSave
  <1>11. CASE RestartService
    <2>1. /\ UNCHANGED <<config, hostapd, given, rebooted, faults>> /\ pc' = "boot"
      BY <1>11 DEF RestartService, ServiceStops, Forget
    <2>2. QED
      BY <2>1, APUnnoticed DEF AfterSave
  <1>12. CASE RestartHost
    <2>1. /\ UNCHANGED <<config, given, faults>> /\ pc' = "boot"
          /\ \E on \in {NoInterface} \cup IF hostapd.enabled THEN {hostapd.conf} ELSE {} :
               hostapd' = [hostapd EXCEPT !.on = on]
      BY <1>12, Zenon DEF RestartHost, ServiceStops, Forget
    <2>2. /\ hostapd'.conf = hostapd.conf /\ hostapd'.enabled = hostapd.enabled
          /\ hostapd'.on = NoInterface \/ (hostapd.enabled /\ hostapd'.on = hostapd.conf)
      BY <1>0, <2>1
    <2>3. /\ \A i : Tried(i) => Tried(i)'
          /\ IsConfigured' <=> IsConfigured
      BY <2>1 DEF Tried, IsConfigured
    <2>4. APReady(config) => APReady(config)'
      BY <2>1, <2>2 DEF APReady
    <2>5. QED
      BY <2>1, <2>2, <2>3, <2>4 DEF APInv, AfterSave
  <1>13. CASE StartServiceOfAP
    <2>1. /\ UNCHANGED <<config, given, rebooted>> /\ pc' = "restore"
          /\ IsConfigured /\ config.lan \in Wireless
          /\ \E ap \in BOOLEAN : EnsuresHostapd(ap) /\ (ap \/ "ap" \in faults')
      <3>1. /\ UNCHANGED <<config, given, rebooted>> /\ pc' = "restore"
            /\ IsConfigured /\ config.lan \in Wireless
        BY <1>13, Zenon DEF StartServiceOfAP, Goes, Moves
      <3>2. PICK got, ap \in BOOLEAN :
              /\ EnsuresHostapd(ap)
              /\ faults' = {f \in faults \cup {"address", "ap"} :
                                (f = "address" => ~got) /\ (f = "ap" => ~ap)}
        BY <1>13, Zenon DEF StartServiceOfAP
      <3>3. ap \/ "ap" \in faults'
        BY <3>2
      <3>4. QED
        BY <3>1, <3>2, <3>3
    <2>2. PICK ap \in BOOLEAN : EnsuresHostapd(ap) /\ (ap \/ "ap" \in faults')
      BY <2>1
    <2>3. /\ hostapd'.conf \in {hostapd.conf, NoInterface, config.lan}
          /\ hostapd'.on \in {hostapd.on, config.lan}
          /\ ap => /\ hostapd'.conf = config.lan
                   /\ hostapd'.on = NoInterface => config.lan = NoInterface
      BY <1>0, <2>2, EnsuredHostapd
    <2>4. /\ \A i : Tried(i) => Tried(i)'
          /\ IsConfigured' /\ Tried(config.lan)
      BY <1>a, <2>1 DEF Tried, IsConfigured
    <2>5. APReady(config)'
      BY <2>1, <2>2, <2>3 DEF APReady
    <2>6. ap => RunsFor(config)'
      <3>1. CASE ap /\ hostapd'.on # config.lan
        <4>1. hostapd'.on = hostapd.on /\ hostapd.on # NoInterface
          BY <2>3, <3>1
        <4>2. Tried(hostapd.on) /\ ~rebooted
          BY <2>1, <3>1, <4>1 DEF APInv
        <4>3. QED
          BY <2>1, <2>4, <4>1, <4>2 DEF RunsFor
      <3>2. QED
        BY <2>1, <3>1 DEF RunsFor
    <2>7. QED
      BY <2>1, <2>2, <2>3, <2>4, <2>5, <2>6 DEF APInv, AfterSave
  <1>14. CASE StartService
    <2>1. /\ UNCHANGED <<config, cfg, hostapd, given, rebooted, faults>>
          /\ ~(IsConfigured /\ config.lan \in Wireless) /\ pc' \in {"restore", "form"}
      BY <1>14 DEF StartService, Goes, Moves, services, history
    <2>2. QED
      BY <2>1, APUnnoticed DEF AfterSave
  <1>15. CASE RestoreVPNState
    <2>1. /\ UNCHANGED <<config, cfg, hostapd, given, rebooted>> /\ pc = "restore"
          /\ pc' = "form"
      BY <1>15, Zenon DEF RestoreVPNState, Goes, Moves
    <2>2. \E ok : faults' = Noted("dns", ok)
      BY <1>15, Zenon DEF RestoreVPNState, ApplyDirectDNS
    <2>3. "ap" \in faults' <=> "ap" \in faults
      BY <2>2 DEF Noted
    <2>4. QED
      BY <2>1, <2>3, APUnnoticed DEF AfterSave
  <1>16. CASE UNCHANGED vars
    <2>1. UNCHANGED <<pc, config, cfg, hostapd, given, rebooted, faults>>
      BY <1>16 DEF vars, services, history
    <2>2. QED
      BY <2>1, APUnnoticed DEF APInv
  <1>17. QED
    BY <1>1, <1>2, <1>3, <1>4, <1>5, <1>6, <1>7, <1>8, <1>9, <1>10, <1>11, <1>12,
       <1>13, <1>14, <1>15, <1>16, NextCases DEF FormStep, ServiceStep, StartStep

\* The access point runs on a wireless LAN's interface, or on that of an earlier attempt
\* until the host restarts, and does not run beside a wired LAN, whatever earlier
\* attempts have enabled and wherever the power was lost, for any number of both.
THEOREM APFollows == Spec => []APFollowsTheLAN
  <1>1. Init => APInv
    BY DEF Init, APInv, AfterSave, IsConfigured
  <1>2. APInv => APFollowsTheLAN
    <2> SUFFICES ASSUME APInv, Idle, IsConfigured, "ap" \notin faults
                 PROVE  IF config.lan \in Wireless
                          THEN /\ hostapd.conf = config.lan
                               /\ \/ hostapd.on = config.lan
                                  \/ /\ pc = "form" /\ ~rebooted
                                     /\ \E g \in given : g.lan = hostapd.on
                          ELSE hostapd.on = NoInterface
      BY DEF APFollowsTheLAN
    <2>1. APReady(config)
      BY DEF APInv
    <2>2. CASE config.lan \notin Wireless
      BY <2>1, <2>2 DEF APReady
    <2>3. CASE config.lan \in Wireless
      <3>1. hostapd.conf = config.lan
        BY <2>1, <2>3 DEF APReady
      <3>2. pc = "form" => RunsFor(config)
        BY <2>3 DEF APInv
      <3>3. pc = "done" => hostapd.on = config.lan
        BY <2>3 DEF APInv
      <3>4. QED
        BY <2>3, <3>1, <3>2, <3>3 DEF Idle, RunsFor, Tried
    <2>4. QED
      BY <2>2, <2>3
  <1>3. QED
    BY <1>1, <1>2, APStep, OthersInvariant, PTL DEF Spec

=============================================================================
