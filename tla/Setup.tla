-------------------------------- MODULE Setup --------------------------------
(***************************************************************************)
(* The setup wizard: src/handlers/setup.go and bootstrap.go, with what the *)
(* service does at its start (EnsureRouterServices, wifi_ap.go).           *)
(*                                                                         *)
(* A setup is a list of steps, each of which may fail; the user then       *)
(* corrects the form and the list starts over on a host where the steps of *)
(* the failed attempt have left their files, addresses and units.  The     *)
(* host may lose power at any time.                                        *)
(***************************************************************************)
EXTENDS Subnets

CONSTANTS
    Interfaces,
    Wireless,      \* those that ResolveInterfaceKind calls wireless
    Uplinks,       \* those on which a DHCP server answers
    Prolongs,      \* pairs <<a, b>>: the text of address a has that of b in it
    LongerNames,   \* pairs <<i, j>>: the name of interface i starts with that of j
    Mentioned,     \* those in a comment of dhcpcd.conf, or in a block without address
    FirstBlocks,   \* each interface's address in the dhcpcd.conf of a fresh host
    RetriedLANs,   \* bound: the LANs a form that follows an attempt or a restart names
    MaxAttempts,   \* bound: setups that come to configure the LAN's interface
    MaxRestarts    \* bound: restarts of the service or of the host

ASSUME SetupAssumption ==
    /\ Wireless \subseteq Interfaces /\ Uplinks \subseteq Interfaces
    /\ Prolongs \subseteq Addresses \X Addresses
    /\ LongerNames \subseteq Interfaces \X Interfaces /\ Mentioned \subseteq Interfaces
    /\ FirstBlocks \in [Interfaces -> CIDRs]
    /\ RetriedLANs \subseteq [ip : Addresses \cup {Nil}, prefix : Int]
    /\ MaxAttempts \in Nat /\ MaxRestarts \in Nat

VARIABLES
    manager,     \* who keeps addresses: NetworkManager, dhcpcd or nobody
    addr,        \* each interface's address
    static,      \* interfaces whose address is not a lease
    dhcpcdConf,  \* each interface's block in /etc/dhcpcd.conf
    nmConns,     \* NetworkManager's connections called vpn-connector-lan
    hostapd,     \* its file's interface, is it enabled, the interface it runs on
    dnsmasqConf, \* the configuration that dnsmasq's file was written for
    lastDnsmasqConfig,
    config,      \* config.json and routerConfig (torn saves: module RouterStore)
    cfg, pc,     \* of the request
    restarts,
    attempts,
    defaulted,   \* history: the form named no LAN
    moved,       \* history: the WAN or its address is not what the form was parsed with
    given,       \* history: what dhcpcd.conf gave at first and the LAN steps since
    fellBack,    \* history: the last LAN step fell back on ip
    rebooted,    \* history: the host was restarted since the last LAN step
    faults       \* history: whose commands, of which the code ignores errors, failed

keepers == <<dhcpcdConf, nmConns>>
dnsmasq == <<dnsmasqConf, lastDnsmasqConfig>>
services == <<hostapd, dnsmasq>>
history == <<defaulted, moved, given, fellBack, rebooted, faults>>
vars == <<manager, addr, static, keepers, services, config, cfg, pc, restarts,
          attempts, history>>

NoInterface == "none"
Ifaces == Interfaces \cup {NoInterface}

\* What JSON may bring as an address and as a prefix; 0 is a field left out.
GivenAddresses == Addresses \cup {Nil}
GivenPrefixes == -1 .. Bits + 1
LANs == [ip : GivenAddresses, prefix : GivenPrefixes \ {0}] \cup RetriedLANs

\* RouterConfig, as far as setup acts on it.
Configs == [wan : Ifaces, lan : Ifaces, subnet : LANs]
NoConfig == [wan |-> NoInterface, lan |-> NoInterface, subnet |-> Candidates[1]]

Steps == {"packages", "lan", "ap", "dnsmasq", "save", "nat", "hostapd"}
Ended == {"rejected", "refused", "failed", "done"}

HostTypes ==
    /\ manager \in {"NetworkManager", "dhcpcd", "nobody"}
    /\ addr \in [Interfaces -> CIDRs] /\ static \in SUBSET Interfaces
    /\ dhcpcdConf \in [Interfaces -> LANs \cup CIDRs]
    /\ nmConns \in SUBSET [lan : Interfaces, subnet : LANs]

HostapdType == hostapd \in [conf : Ifaces, enabled : BOOLEAN, on : Ifaces]

RequestTypes ==
    /\ dnsmasqConf \in Configs /\ lastDnsmasqConfig \in Configs
    /\ config \in Configs /\ cfg \in Configs
    /\ pc \in {"form", "parsed", "boot", "restore"} \cup Steps \cup Ended
    /\ restarts \in 0 .. MaxRestarts /\ attempts \in 0 .. MaxAttempts

HistoryTypes ==
    /\ given \in SUBSET [lan : Interfaces, subnet : LANs \cup CIDRs]
    /\ defaulted \in BOOLEAN /\ moved \in BOOLEAN /\ fellBack \in BOOLEAN
    /\ rebooted \in BOOLEAN /\ faults \in SUBSET {"address", "ap", "dns"}

TypeOK == HostTypes /\ HostapdType /\ RequestTypes /\ HistoryTypes

IsConfigured == config # NoConfig

HasBlock(conf) == {i \in Interfaces : conf[i] # NoAddress}

\* A fresh host: no access point, and of dhcpcd.conf what it came with.
Init ==
    /\ manager \in {"NetworkManager", "dhcpcd", "nobody"}
    /\ dhcpcdConf = [i \in Interfaces |->
                       IF manager = "dhcpcd" THEN FirstBlocks[i] ELSE NoAddress]
    /\ static = HasBlock(dhcpcdConf)
    /\ \E lease \in [Uplinks \ static -> CIDRs] :
         addr = [i \in Interfaces |-> IF i \in Uplinks \ static THEN lease[i]
                                      ELSE dhcpcdConf[i]]
    /\ given = {[lan |-> i, subnet |-> dhcpcdConf[i]] : i \in static}
    /\ nmConns = {}
    /\ hostapd = [conf |-> NoInterface, enabled |-> FALSE, on |-> NoInterface]
    /\ dnsmasqConf = NoConfig /\ lastDnsmasqConfig = NoConfig
    /\ config = NoConfig /\ cfg = NoConfig
    /\ pc = "form" /\ restarts = 0 /\ attempts = 0
    /\ defaulted = FALSE /\ moved = FALSE /\ fellBack = FALSE
    /\ rebooted = FALSE /\ faults = {}

-----------------------------------------------------------------------------
(* The form and its checks.                                                *)

\* The first form may hold anything, and so may the leases before it.  Bound:
\* later forms are complete and name RetriedLANs, later leases are of the
\* suggested subnets.
FirstForm == attempts + restarts = 0
FormIfaces == IF FirstForm THEN Ifaces ELSE Interfaces
FormPrefixes == IF FirstForm THEN GivenPrefixes ELSE {0}
FormLANs == IF FirstForm THEN [ip : GivenAddresses, prefix : GivenPrefixes] ELSE RetriedLANs
Leases == IF FirstForm THEN CIDRs
          ELSE {Candidates[i] : i \in DOMAIN Candidates} \cup {NoAddress}

\* DHCP; after the check nothing of the setup looks at the WAN's address.
LeaseChanges(i) ==
    /\ pc \in {"form", "parsed"} /\ i \notin static
    /\ \E a \in Leases \ {addr[i]} : addr' = [addr EXCEPT ![i] = a]
    /\ moved' = (pc = "parsed")
    /\ UNCHANGED <<manager, static, keepers, services, config, cfg, pc, restarts,
                   attempts, defaulted, given, fellBack, rebooted, faults>>

WANAddress(wan) == IF wan = NoInterface THEN NoAddress ELSE addr[wan]

\* Mutant: a prefix that was left out stays 0.
TakesPrefix(prefix) == prefix

GivenPrefix(prefix) == IF prefix = 0 THEN DefaultPrefix ELSE prefix

\* SetupApplyHandler refuses when configured; the LAN is ip/prefix; wan is what
\* detectDefaultRouteInterface found, if anything, where the form names none.
Parses(wan, lan, ip, prefix) ==
    /\ pc = "form" /\ ~IsConfigured /\ attempts < MaxAttempts
    /\ pc' = "parsed"
    /\ cfg' = [wan |-> wan, lan |-> lan,
                subnet |-> [ip |-> ip, prefix |-> GivenPrefix(prefix)]]
    /\ moved' = FALSE
    /\ UNCHANGED <<manager, addr, static, keepers, services, config, restarts,
                   attempts, given, fellBack, rebooted, faults>>

\* parseSetupRequest, with the LAN's address given or left to the suggestion.
ParseGiven ==
    \E wan, lan \in FormIfaces, n \in FormLANs :
        Parses(wan, lan, n.ip, n.prefix) /\ defaulted' = FALSE

ParseSuggested ==
    \E wan, lan \in FormIfaces, prefix \in FormPrefixes :
        /\ Parses(wan, lan, SuggestLANSubnet(WANAddress(wan)).ip, prefix)
        /\ defaulted' = (prefix = 0)

Moves(from, to) ==
    /\ pc = from /\ pc' = to
    /\ UNCHANGED <<manager, restarts>>

Goes(from, to) == Moves(from, to) /\ UNCHANGED cfg

\* The request, and what was noted of it, is gone.
Forget(to) ==
    /\ pc' = to /\ cfg' = NoConfig
    /\ defaulted' = FALSE /\ moved' = FALSE

\* The checks of ApplyBootstrapWithProgress: a form that lacks something,
Reject ==
    /\ Goes("parsed", "rejected")
    /\ UNCHANGED <<addr, static, keepers, services, config, attempts, history>>

\* and one that is complete, if need be with the WAN that is detected now.
Validate ==
    /\ \E wan \in IF cfg.wan = NoInterface THEN Interfaces ELSE {cfg.wan} :
         /\ cfg.lan \notin {NoInterface, wan}
         /\ Moves("parsed", IF addr[wan].ip # Nil /\ subnetsOverlap(addr[wan], cfg.subnet)
                              THEN "refused" ELSE "packages")
         /\ cfg' = [cfg EXCEPT !.wan = wan]
    /\ moved' = (moved \/ cfg.wan = NoInterface)
    /\ UNCHANGED <<addr, static, keepers, services, config, attempts, defaulted, given,
                   fellBack, rebooted, faults>>

\* The user corrects the form, unless the failed request has configured the router.
Again ==
    /\ pc \in Ended /\ ~IsConfigured
    /\ Forget("form")
    /\ UNCHANGED <<manager, addr, static, keepers, services, config, restarts,
                   attempts, given, fellBack, rebooted, faults>>

-----------------------------------------------------------------------------
(* The steps.                                                              *)

\* installSystemPackages, EnsureIPForwarding; ensureWANDHCP only logs.
InstallPackages ==
    /\ \E to \in {"lan", "failed"} : Goes("packages", to)
    /\ UNCHANGED <<addr, static, keepers, services, config, attempts, history>>

\* configureLANInterface ends with these addresses, or with its error.
LANStep(ok, fallback) ==
    /\ Goes("lan", IF ok THEN "ap" ELSE "failed")
    /\ attempts' = attempts + 1
    /\ given' = given \cup {[lan |-> cfg.lan, subnet |-> cfg.subnet]}
    /\ fellBack' = fallback /\ rebooted' = FALSE
    /\ UNCHANGED <<services, config, defaulted, moved, faults>>

\* "ip addr add" refuses what is no subnet, and may fail for any other.
IPResults(n) == IF IsSubnet(n) THEN BOOLEAN ELSE {FALSE}

\* applyStaticIPAddress: flush, then add.
AppliesStatic(a, i, n, ok) ==
    /\ addr' = [a EXCEPT ![i] = IF ok THEN n ELSE NoAddress]
    /\ static' = static \cup {i}

\* ensureLANAddress finds the address in the text that ip prints of a.
Shows(a, n) == a.ip # Nil /\ (a.ip = n.ip \/ <<a.ip, n.ip>> \in Prolongs)

\* Without a manager; a wireless LAN is taken from NetworkManager.
ConfigureByIP ==
    /\ manager = "nobody" \/ (manager = "NetworkManager" /\ cfg.lan \in Wireless)
    /\ \E ok \in IPResults(cfg.subnet) :
         LANStep(ok, FALSE) /\ AppliesStatic(addr, cfg.lan, cfg.subnet, ok)
    /\ UNCHANGED keepers

\* dhcpcd gives every interface that has a block its address.
DhcpcdGives(conf, a) ==
    [i \in Interfaces |-> IF conf[i] = NoAddress THEN a[i]
                          ELSE IF IsSubnet(conf[i]) THEN conf[i] ELSE NoAddress]

\* "interface <i>" is in the file's text, but not as the start of a block for i.
NamedElsewhere(i) ==
    i \in Mentioned \/ \E j \in HasBlock(dhcpcdConf) : <<j, i>> \in LongerNames

\* appendUniqueBlock: no block is added where the text has the marker.
appendUniqueBlock ==
    IF dhcpcdConf[cfg.lan] # NoAddress \/ NamedElsewhere(cfg.lan) THEN dhcpcdConf
    ELSE [dhcpcdConf EXCEPT ![cfg.lan] = cfg.subnet]

\* Mutant: when dhcpcd fails, nobody gives the interface its address.
DhcpcdFailureIgnored ==
    /\ manager = "dhcpcd"
    /\ dhcpcdConf' \in {dhcpcdConf, appendUniqueBlock}
    /\ LANStep(TRUE, TRUE)
    /\ UNCHANGED <<addr, static, nmConns>>

ConfigureByDhcpcd ==
    LET a == DhcpcdGives(appendUniqueBlock, addr)
        s == static \cup HasBlock(appendUniqueBlock)
    IN
    /\ manager = "dhcpcd"
    /\ dhcpcdConf' = appendUniqueBlock
    /\ IF Shows(a[cfg.lan], cfg.subnet)
         THEN LANStep(TRUE, FALSE) /\ addr' = a /\ static' = s
         ELSE \E ok \in IPResults(cfg.subnet) :
                LANStep(ok, FALSE) /\ AppliesStatic(a, cfg.lan, cfg.subnet, ok)
    /\ UNCHANGED nmConns

\* The file cannot be written, or dhcpcd not restarted.
DhcpcdFails ==
    /\ manager = "dhcpcd"
    /\ dhcpcdConf' \in {dhcpcdConf, appendUniqueBlock}
    /\ \E ok \in IPResults(cfg.subnet) :
         LANStep(ok, TRUE) /\ AppliesStatic(addr, cfg.lan, cfg.subnet, ok)
    /\ UNCHANGED nmConns

\* Mutant: earlier connections of the name stay.
KeepConns == nmConns

\* nmcli con delete; their interfaces lose the address they had from them.
DeleteConns == {}

Freed == {c.lan : c \in nmConns}
WithoutConns ==
    [i \in Interfaces |-> IF i \in Freed \cup {cfg.lan} THEN NoAddress ELSE addr[i]]

\* configureNMEthernetLAN: con add and con up succeed.
ConfigureByNM ==
    /\ manager = "NetworkManager" /\ cfg.lan \notin Wireless /\ IsSubnet(cfg.subnet)
    /\ LANStep(TRUE, FALSE)
    /\ nmConns' = DeleteConns \cup {[lan |-> cfg.lan, subnet |-> cfg.subnet]}
    /\ addr' = [WithoutConns EXCEPT ![cfg.lan] = cfg.subnet]
    /\ static' = (static \ Freed) \cup {cfg.lan}
    /\ UNCHANGED dhcpcdConf

\* One of them fails, con add or (the connection remains) con up.
NMFails ==
    /\ manager = "NetworkManager" /\ cfg.lan \notin Wireless
    /\ nmConns' \in {DeleteConns} \cup
         (IF IsSubnet(cfg.subnet)
            THEN {DeleteConns \cup {[lan |-> cfg.lan, subnet |-> cfg.subnet]}} ELSE {})
    /\ \E ok \in IPResults(cfg.subnet) :
         /\ LANStep(ok, TRUE)
         /\ addr' = [WithoutConns EXCEPT ![cfg.lan] = IF ok THEN cfg.subnet ELSE NoAddress]
    /\ static' = (static \ Freed) \cup {cfg.lan}
    /\ UNCHANGED dhcpcdConf

configureLANInterface ==
    /\ pc = "lan"
    /\ ConfigureByIP \/ ConfigureByDhcpcd \/ DhcpcdFails \/ ConfigureByNM \/ NMFails

\* prepareHostapd with its file written; the error of systemctl enable is ignored.
Prepared(lan) ==
    {[hostapd EXCEPT !.conf = lan, !.enabled = on] : on \in {hostapd.enabled, TRUE}}

\* ensureHostapdInstalled fails, or the write, which may leave the file empty.
Unprepared == {hostapd, [hostapd EXCEPT !.conf = NoInterface]}

PrepareHostapd ==
    /\ cfg.lan \in Wireless
    /\ \/ Goes("ap", "dnsmasq") /\ hostapd' \in Prepared(cfg.lan)
       \/ Goes("ap", "failed") /\ hostapd' \in Unprepared
    /\ faults' = faults \ {"ap"}
    /\ UNCHANGED <<addr, static, keepers, dnsmasq, config, attempts, defaulted, moved,
                   given, fellBack, rebooted>>

Noted(fault, ok) == IF ok THEN faults \ {fault} ELSE faults \cup {fault}

\* Mutant: a wired LAN leaves hostapd as it is.
LeaveHostapd ==
    /\ cfg.lan \notin Wireless /\ Goes("ap", "dnsmasq")
    /\ faults' = Noted("ap", TRUE)
    /\ UNCHANGED <<addr, static, keepers, services, config, attempts, defaulted, moved,
                   given, fellBack, rebooted>>

\* systemctl stop and systemctl disable, whose errors are ignored.
DisableHostapd ==
    /\ cfg.lan \notin Wireless /\ Goes("ap", "dnsmasq")
    /\ \E stopped, disabled \in BOOLEAN :
         /\ hostapd' = [hostapd EXCEPT !.on = IF stopped THEN NoInterface ELSE @,
                                       !.enabled = IF disabled THEN FALSE ELSE @]
         /\ faults' = Noted("ap", stopped /\ disabled)
    /\ UNCHANGED <<addr, static, keepers, dnsmasq, config, attempts, defaulted, moved,
                   given, fellBack, rebooted>>

\* writeDnsmasqConfig of c where the cache holds the text of last: the text is the
\* cached one, it is not (that of the same c neither, when the WAN's name servers
\* have changed), or the write, the test or the restart fails.
WritesDnsmasq(c, last, ok) ==
    \/ ok /\ last = c /\ dnsmasqConf' = dnsmasqConf /\ lastDnsmasqConfig' = last
    \/ ok /\ dnsmasqConf' = c /\ lastDnsmasqConfig' = c
    \/ ~ok /\ dnsmasqConf' \in {dnsmasqConf, NoConfig, c} /\ lastDnsmasqConfig' = last

ConfigureDnsmasq ==
    /\ \E ok \in BOOLEAN :
         /\ Goes("dnsmasq", IF ok THEN "save" ELSE "failed")
         /\ WritesDnsmasq(cfg, lastDnsmasqConfig, ok)
    /\ UNCHANGED <<addr, static, keepers, hostapd, config, attempts, history>>

SaveConfig ==
    /\ Goes("save", "nat")
    /\ config' = cfg
    /\ UNCHANGED <<addr, static, keepers, services, attempts, history>>

\* Mutant: the cache is not cleared.
ApplyDirectDNSUnlessCached ==
    \E ok \in BOOLEAN :
        /\ WritesDnsmasq(config, lastDnsmasqConfig, ok)
        /\ faults' = Noted("dns", ok)

\* The cache is cleared; ApplyDirectNAT ignores the error.
ApplyDirectDNS ==
    \E ok \in BOOLEAN :
        /\ WritesDnsmasq(config, NoConfig, ok)
        /\ faults' = Noted("dns", ok)

\* ApplyDirectNAT, which returns no error; its rules are module Forwarding's.
InitialRouting ==
    /\ Goes("nat", IF cfg.lan \in Wireless THEN "hostapd" ELSE "done")
    /\ ApplyDirectDNS
    /\ UNCHANGED <<addr, static, keepers, hostapd, config, attempts, defaulted, moved,
                   given, fellBack, rebooted>>

\* activateHostapd: systemctl restart, of the interface in hostapd's file.
ActivateHostapd ==
    /\ \/ Goes("hostapd", "done") /\ hostapd' = [hostapd EXCEPT !.on = hostapd.conf]
       \/ /\ Goes("hostapd", "failed")
          /\ \E on \in {hostapd.on, NoInterface} : hostapd' = [hostapd EXCEPT !.on = on]
    /\ UNCHANGED <<addr, static, keepers, dnsmasq, config, attempts, history>>

\* The save fails before it changes anything.
SaveFails ==
    /\ Goes("save", "failed")
    /\ UNCHANGED <<addr, static, keepers, services, config, attempts, history>>

-----------------------------------------------------------------------------
(* Restarts.                                                               *)

\* The service is stopped, in the middle of a request or not; its memory is lost.
ServiceStops ==
    /\ restarts < MaxRestarts /\ restarts' = restarts + 1
    /\ Forget("boot") /\ lastDnsmasqConfig' = NoConfig
    /\ UNCHANGED <<manager, config, keepers, dnsmasqConf, attempts, given, fellBack,
                   faults>>

RestartService ==
    ServiceStops /\ UNCHANGED <<addr, static, hostapd, rebooted>>

\* What a manager keeps comes back, and only that.
Kept ==
    CASE manager = "dhcpcd" -> dhcpcdConf
      [] manager = "NetworkManager" ->
           [i \in Interfaces |->
               IF \E c \in nmConns : c.lan = i
                 THEN (CHOOSE c \in nmConns : c.lan = i).subnet ELSE NoAddress]
      [] OTHER -> [i \in Interfaces |-> NoAddress]

RestartHost ==
    /\ ServiceStops /\ rebooted' = TRUE
    /\ addr' = DhcpcdGives(Kept, [i \in Interfaces |-> NoAddress])
    /\ static' = HasBlock(Kept)
    /\ \E on \in {NoInterface} \cup IF hostapd.enabled THEN {hostapd.conf} ELSE {} :
         hostapd' = [hostapd EXCEPT !.on = on]

\* EnsureWiFiAccessPoint's prepareHostapd and, of a hostapd that does not run, its
\* activateHostapd.
EnsuresHostapd(ok) ==
    IF ok THEN \E h \in Prepared(config.lan) :
                 hostapd' = IF h.on = NoInterface THEN [h EXCEPT !.on = h.conf] ELSE h
    ELSE hostapd' \in Unprepared \cup
                      IF hostapd.on = NoInterface THEN Prepared(config.lan) ELSE {}

\* EnsureRouterServices of a router whose LAN is wireless; errors are only logged.
StartServiceOfAP ==
    LET has == Shows(addr[config.lan], config.subnet) IN
    /\ IsConfigured /\ config.lan \in Wireless /\ Goes("boot", "restore")
    /\ \E got \in IF has THEN {TRUE} ELSE IPResults(config.subnet), ap \in BOOLEAN :
         /\ IF has THEN UNCHANGED <<addr, static>>
                   ELSE AppliesStatic(addr, config.lan, config.subnet, got)
         /\ EnsuresHostapd(ap)
         /\ faults' = {f \in faults \cup {"address", "ap"} :
                           (f = "address" => ~got) /\ (f = "ap" => ~ap)}
    /\ UNCHANGED <<keepers, dnsmasq, config, attempts, defaulted, moved, given,
                   fellBack, rebooted>>

\* Any other start changes nothing of this.
StartService ==
    /\ ~(IsConfigured /\ config.lan \in Wireless)
    /\ Goes("boot", IF IsConfigured THEN "restore" ELSE "form")
    /\ UNCHANGED <<addr, static, keepers, services, config, attempts, history>>

\* restoreVPNState: ApplyDirectNAT, or a text with the VPN's zones for the same LAN.
RestoreVPNState ==
    /\ Goes("restore", "form")
    /\ ApplyDirectDNS
    /\ UNCHANGED <<addr, static, keepers, hostapd, config, attempts, defaulted, moved,
                   given, fellBack, rebooted>>

Next ==
    \/ ParseGiven \/ ParseSuggested \/ Reject \/ Validate \/ Again
    \/ InstallPackages \/ configureLANInterface \/ PrepareHostapd \/ DisableHostapd
    \/ ConfigureDnsmasq \/ SaveConfig \/ SaveFails \/ InitialRouting \/ ActivateHostapd
    \/ RestartService \/ RestartHost \/ StartServiceOfAP \/ StartService \/ RestoreVPNState
    \/ \E i \in Uplinks : LeaseChanges(i)

Spec == Init /\ [][Next]_vars

-----------------------------------------------------------------------------
(* Properties: the form.                                                   *)

\* A LAN that is a subnet has no address in common with the WAN as it was when
\* the request was checked, whichever of the two is the larger.
ConfiguredLANIsApart ==
    pc = "packages" /\ IsSubnet(cfg.subnet) /\ IsSubnet(addr[cfg.wan])
        => ~Shares(cfg.subnet, addr[cfg.wan])

\* A LAN is refused for no other reason.
OnlySharedIsRefused ==
    pc = "refused" => /\ IsSubnet(cfg.subnet) /\ IsSubnet(addr[cfg.wan])
                      /\ Shares(cfg.subnet, addr[cfg.wan])

\* A setup that leaves the LAN to the suggestion is not refused whatever the WAN is,
\* unless the WAN changes or is found only meanwhile: some candidate is always apart,
\* because a WAN lies within one half of the address space.
SuggestionIsAccepted == pc = "refused" => ~defaulted \/ moved

\* The netmask that dnsmasq hands out denotes the subnet of the LAN's interface.
NetmaskIsTheLANs ==
    pc = "packages" /\ IsSubnet(cfg.subnet) =>
        LET size == Pow2[Bits] - prefixToNetmask(cfg.subnet.prefix) IN
        Hosts(cfg.subnet) = {x \in Addresses : x \div size = cfg.subnet.ip \div size}

-----------------------------------------------------------------------------
(* Properties: the host after failed attempts and restarts.                *)

Idle == pc \in {"form", "done"}

\* Another attempt, or the host's dhcpcd.conf, gave the interface another LAN.
TriedBefore(i, n) == \E g \in given : g.lan = i /\ g.subnet # n

\* dhcpcd.conf has no block for an interface because its text names it anyway.
NoBlockFor(i) ==
    manager = "dhcpcd" /\ dhcpcdConf[i] = NoAddress /\ NamedElsewhere(i)

\* A configured LAN has the saved address, across failed attempts, restarts of
\* the service and of the host, unless the interface was given another before.
\* A wired LAN needs a manager that took the address, or has none after a restart
\* of the host: only a wireless one gets it again from EnsureWiFiAccessPoint.  dhcpcd
\* did not take it where its file names the interface, in a comment, say; there
\* ensureLANAddress may also be content with a lease that has the address in its text.
LANHasItsAddress ==
    /\ Idle /\ IsConfigured
    /\ "address" \notin faults /\ ~TriedBefore(config.lan, config.subnet)
    => \/ addr[config.lan] = config.subnet
       \/ /\ rebooted /\ config.lan \notin Wireless
          /\ manager = "nobody" \/ fellBack \/ NoBlockFor(config.lan)
       \/ config.lan \notin static /\ NoBlockFor(config.lan)

\* The access point runs on the LAN's interface if that is wireless and does not
\* run otherwise, whatever earlier attempts have enabled and wherever the power
\* was lost.  A service that dies after the save and before activateHostapd leaves it,
\* until the host restarts, on the interface of an earlier attempt if it runs there:
\* EnsureWiFiAccessPoint restarts no hostapd that is active.
APFollowsTheLAN ==
    Idle /\ IsConfigured /\ "ap" \notin faults =>
        IF config.lan \in Wireless
          THEN /\ hostapd.conf = config.lan
               /\ \/ hostapd.on = config.lan
                  \/ /\ pc = "form" /\ ~rebooted
                     /\ \E g \in given : g.lan = hostapd.on
          ELSE hostapd.on = NoInterface

\* No failure, skipped write or loss of power leaves a configured router whose
\* DHCP server is set up for the LAN of another attempt: what an attempt skips because
\* an earlier one of the same LAN had written it is made good by ApplyDirectDNS.
DnsmasqServesTheLAN ==
    Idle /\ IsConfigured /\ "dns" \notin faults => dnsmasqConf = config

\* WAN and third interfaces keep their leases (README.md:16 and 18) unless an
\* earlier attempt had the interface for its LAN.  A restart of the host frees
\* them then too, but for a block in dhcpcd.conf, which nothing removes, and for
\* the connection of a wired LAN when it is a wireless one that succeeds.
OthersAreLeftAlone ==
    Idle /\ IsConfigured => \A i \in static \ {config.lan} :
        /\ \E g \in given : g.lan = i
        /\ rebooted => \/ manager = "dhcpcd"
                       \/ manager = "NetworkManager" /\ config.lan \in Wireless
=============================================================================
