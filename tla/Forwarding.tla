----------------------------- MODULE Forwarding -----------------------------
(***************************************************************************)
(* ApplyDirectNAT and ApplyVPNNAT (src/handlers/nat.go), the maintenance   *)
(* the watchdog runs (src/handlers/routing.go) and the dnsmasq writer      *)
(* (src/handlers/dns.go).  Any goroutine may run any of them; nothing      *)
(* excludes two at once.  A goroutine is the sequence of commands it has   *)
(* still to run, one step a command; iptables itself is atomic.            *)
(*                                                                         *)
(* The interfaces are those of one configuration, "wan", "lan" and "tun".  *)
(* Policy routes and sysctls are set to the same values by every job and   *)
(* are left out.                                                           *)
(***************************************************************************)
EXTENDS Naturals, FiniteSets, SequencesExt

CONSTANTS
    Workers,      \* goroutines
    MaxJobs,      \* bound: jobs they start
    MaxFailures,  \* bound: failed writes, tests and restarts of dnsmasq
    MaxRestarts,  \* bound: restarts of the service
    MaxEvents     \* bound: all of these together

ASSUME ForwardingAssumption ==
    /\ IsFiniteSet(Workers)
    /\ MaxJobs \in Nat /\ MaxFailures \in Nat /\ MaxRestarts \in Nat
    /\ MaxEvents \in Nat

VARIABLES
    todo,       \* per worker: the commands left, in order
    job,        \* per worker: what it runs, or ran last
    conf,       \* per worker: the dnsmasq configuration it has rendered
    rules,      \* the rules of the three chains
    linked,     \* the chains that FORWARD and POSTROUTING jump to
    jumps,      \* INPUT's jumps to our chain
    clamps,     \* MSS clamps in mangle FORWARD
    dnsFile,    \* /etc/dnsmasq.d/vpn-connector.conf
    dnsServed,  \* what the running dnsmasq has read
    lastDnsmasqConfig,
    clean,      \* history: per worker, nothing overlapped or failed its job
    started, failures, restarts

chainVars == <<rules, linked, jumps, clamps>>
dnsVars == <<dnsFile, dnsServed, lastDnsmasqConfig>>
countVars == <<started, restarts>>
vars == <<todo, job, conf, chainVars, dnsVars, clean, countVars, failures>>

Jobs == {"direct", "vpn", "maintain", "tick"}
Chains == {"fwd", "nat", "in"}
Confs == {"direct", "vpn"}       \* without and with the VPN's zones
Files == Confs \cup {"part"}     \* or what a write that is under way has left
NoCache == ""                    \* lastDnsmasqConfig before a write succeeds
RouterChains == {"fwd", "nat"}

-----------------------------------------------------------------------------
(* The jobs as sequences of commands.                                      *)

Flush(chain) == <<"flush", chain>>
Append1(chain, rule) == <<"append", chain, rule>>

ManagementRules == {"mgmt", "ifaces"}
ForwardWAN == {"lan-wan", "wan-lan"}
ForwardTunnel == {"lan-tun", "tun-lan"}

\* Mutant: the jump is deleted after it has been inserted.
JumpDeletedLast ==
    << Flush("in"), Append1("in", "mgmt"), Append1("in", "ifaces"),
       <<"insertJump">>, <<"deleteJump">> >>

ensureManagementFirewall ==
    << Flush("in"), Append1("in", "mgmt"), Append1("in", "ifaces"),
       <<"deleteJump">>, <<"insertJump">> >>

\* Mutant: dnsmasq is restarted before the file is written.
WriteAfterRestart ==
    << <<"compare">>, <<"test">>, <<"restart">>, <<"write">>, <<"remember">> >>

writeDnsmasqConfig ==
    << <<"compare">>, <<"write">>, <<"test">>, <<"restart">>, <<"remember">> >>

ApplyVPNDNS == << <<"readVPNDNS">> >> \o writeDnsmasqConfig
ApplyDirectDNS == << <<"forget">> >> \o writeDnsmasqConfig

MaintainManagementAccess == ensureManagementFirewall \o << <<"zones">> >>

\* Mutant: only one of the two chains is flushed.
PrologueWithoutNATFlush ==
    << Flush("fwd") >> \o ensureManagementFirewall \o MaintainManagementAccess

\* flushRouterRules, EnsureIPForwarding, flushVPNPolicyRouting and maintenance.
Prologue ==
    << Flush("fwd"), Flush("nat") >>
        \o ensureManagementFirewall \o MaintainManagementAccess

ApplyDirectNAT ==
    Prologue
        \o << Append1("nat", "wan"), Append1("fwd", "lan-wan"), Append1("fwd", "wan-lan") >>
        \o ApplyDirectDNS

\* Mutant: the tunnel's rules replace the WAN's.
TunnelOnlyNAT ==
    Prologue
        \o << Append1("nat", "tun"), Append1("fwd", "lan-tun"), Append1("fwd", "tun-lan"),
              <<"clamp">>, <<"accept">> >>
        \o ApplyVPNDNS

ApplyVPNNAT ==
    Prologue
        \o << Append1("nat", "tun"), Append1("nat", "wan"),
              Append1("fwd", "lan-tun"), Append1("fwd", "tun-lan"),
              Append1("fwd", "lan-wan"), Append1("fwd", "wan-lan"),
              <<"clamp">>, <<"clamp">>, <<"accept">> >>
        \o ApplyVPNDNS

\* The watchdog's first passes apply the DNS again, its ticks do not.
Commands(j) ==
    CASE j = "direct" -> ApplyDirectNAT
      [] j = "vpn" -> ApplyVPNNAT
      [] j = "maintain" -> MaintainManagementAccess \o ApplyVPNDNS
      [] j = "tick" -> MaintainManagementAccess

\* main before restoreVPNState: EnsureIPForwarding, EnsureRouterServices, which
\* looks for the zones again after its maintenance.
Boot ==
    ensureManagementFirewall \o MaintainManagementAccess
        \o << <<"zones">>, <<"serve">> >>

\* Rules of a job that nothing disturbs.
NATOf(j) == IF j = "vpn" THEN {"tun", "wan"} ELSE {"wan"}
ForwardOf(j) == IF j = "vpn" THEN ForwardTunnel \cup ForwardWAN ELSE ForwardWAN

-----------------------------------------------------------------------------
Busy(w) == todo[w] # <<>>
Quiet == \A w \in Workers : ~Busy(w)
MayHappen == started + failures + restarts < MaxEvents

TypeOK ==
    /\ \A w \in Workers : Len(todo[w]) <= Len(Boot \o ApplyVPNNAT \o ApplyVPNDNS)
    /\ job \in [Workers -> Jobs]
    /\ conf \in [Workers -> Confs]
    /\ rules \in [Chains -> SUBSET (ManagementRules \cup ForwardWAN \cup ForwardTunnel
                                      \cup {"wan", "tun"})]
    /\ linked \in SUBSET RouterChains /\ jumps \in Nat
    /\ clamps \in 0 .. 2 * (1 + started + restarts)
    /\ dnsFile \in Files /\ dnsServed \in Files \cup {"none"}
    /\ lastDnsmasqConfig \in Confs \cup {NoCache}
    /\ clean \in [Workers -> BOOLEAN]
    /\ started \in 0 .. MaxJobs /\ failures \in 0 .. MaxFailures
    /\ restarts \in 0 .. MaxRestarts

\* A configured device is switched on: one goroutine runs main; systemd has
\* started dnsmasq if its unit is enabled.
Init ==
    \E first \in Workers, j \in {"direct", "vpn"} :
        /\ todo = [w \in Workers |-> IF w = first THEN Boot \o Commands(j) ELSE <<>>]
        /\ job = [w \in Workers |-> j]
        /\ conf = [w \in Workers |-> "direct"]
        /\ rules = [c \in Chains |-> {}]
        /\ linked = {} /\ jumps = 0 /\ clamps = 0
        /\ dnsFile \in Confs /\ dnsServed \in {dnsFile, "none"} /\ lastDnsmasqConfig = NoCache
        /\ clean = [w \in Workers |-> w = first]
        /\ started = 0 /\ failures = 0 /\ restarts = 0

\* go ApplyDirectNAT, finishConnected's ApplyVPNNAT, a tick of the watchdog.
Start(w, j) ==
    /\ MayHappen /\ ~Busy(w) /\ started < MaxJobs
    /\ started' = started + 1
    /\ todo' = [todo EXCEPT ![w] = Commands(j)]
    /\ job' = [job EXCEPT ![w] = j]
    /\ clean' = [v \in Workers |-> IF v = w THEN Quiet ELSE clean[v] /\ ~Busy(v)]
    /\ UNCHANGED <<conf, chainVars, dnsVars, restarts, failures>>

-----------------------------------------------------------------------------
(* One command of a goroutine.                                             *)

Does(w, name) == Busy(w) /\ Head(todo[w])[1] = name
Done(w) == todo' = [todo EXCEPT ![w] = Tail(@)]

\* What w rendered is gone with the call.
Dropped(w) == conf' = [conf EXCEPT ![w] = "direct"]

\* The rest of the job once writeDnsmasqConfig has returned.
AfterWrite(w) ==
    SubSeq(todo[w], 1 + SelectInSeq(todo[w], LAMBDA c : c = <<"remember">>), Len(todo[w]))
ReturnFromWrite(w) == todo' = [todo EXCEPT ![w] = AfterWrite(w)] /\ Dropped(w)

\* Only chains are changed; flush and append first link the two router chains.
RunFlush(w) ==
    LET chain == Head(todo[w])[2] IN
    /\ Does(w, "flush") /\ Done(w)
    /\ rules' = [rules EXCEPT ![chain] = {}]
    /\ linked' = linked \cup (IF chain = "in" THEN {} ELSE RouterChains)
    /\ UNCHANGED <<job, conf, jumps, clamps, dnsVars, clean, countVars, failures>>

RunAppend(w) ==
    LET chain == Head(todo[w])[2] IN
    /\ Does(w, "append") /\ Done(w)
    /\ rules' = [rules EXCEPT ![chain] = @ \cup {Head(todo[w])[3]}]
    /\ linked' = linked \cup (IF chain = "in" THEN {} ELSE RouterChains)
    /\ UNCHANGED <<job, conf, jumps, clamps, dnsVars, clean, countVars, failures>>

\* Mutant: the specification of -D names no rule that is there.
DeleteNoJump(w) ==
    /\ Does(w, "deleteJump") /\ Done(w)
    /\ UNCHANGED <<job, conf, chainVars, dnsVars, clean, countVars, failures>>

\* -D INPUT deletes one jump if there is one, -I INPUT 1 inserts one.
DeleteJump(w) ==
    /\ Does(w, "deleteJump") /\ Done(w)
    /\ jumps' = IF jumps > 0 THEN jumps - 1 ELSE 0
    /\ UNCHANGED <<job, conf, rules, linked, clamps, dnsVars, clean, countVars, failures>>

InsertJump(w) ==
    /\ Does(w, "insertJump") /\ Done(w)
    /\ jumps' = jumps + 1
    /\ UNCHANGED <<job, conf, rules, linked, clamps, dnsVars, clean, countVars, failures>>

\* Mutant: the clamp is appended until the check finds it.
ClampUntilFound(w) ==
    /\ Does(w, "clamp")
    /\ clamps' = clamps + 1
    /\ UNCHANGED <<todo, job, conf, rules, linked, jumps, dnsVars, clean, countVars,
                   failures>>

\* ensureMSSClamp: "-C" before a spec that begins with "-t mangle -A" is an
\* error of iptables, never a match, so each call appends.
Clamp(w) ==
    /\ Does(w, "clamp") /\ Done(w)
    /\ clamps' = clamps + 1
    /\ UNCHANGED <<job, conf, rules, linked, jumps, dnsVars, clean, countVars, failures>>

\* ensureForwardAccept inserts FORWARD's jump unless it is there.
Accept(w) ==
    /\ Does(w, "accept") /\ Done(w)
    /\ linked' = linked \cup {"fwd"}
    /\ UNCHANGED <<job, conf, rules, jumps, clamps, dnsVars, clean, countVars, failures>>

\* os.WriteFile truncates the file, then writes it: others find it in between.
FileSeen ==
    {dnsFile} \cup IF \E w \in Workers : Does(w, "write") THEN {"part"} ELSE {}

\* EnsureVPNDNSIfNeeded: connected, as reported now, and no zones in the file.
CheckZones(w) ==
    /\ Does(w, "zones")
    /\ \/ Done(w)
       \/ /\ FileSeen # {"vpn"}
          /\ todo' = [todo EXCEPT ![w] = ApplyVPNDNS \o Tail(@)]
    /\ UNCHANGED <<job, conf, chainVars, dnsVars, clean, countVars, failures>>

\* ApplyVPNDNS: the tunnel's servers and domains, or public DNS only.
ReadVPNDNS(w) ==
    /\ Does(w, "readVPNDNS") /\ Done(w)
    /\ \E c \in Confs : conf' = [conf EXCEPT ![w] = c]
    /\ UNCHANGED <<job, chainVars, dnsVars, clean, countVars, failures>>

\* Mutant: the cache is not reset.
RenderWithoutForgetting(w) ==
    /\ Does(w, "forget") /\ Done(w)
    /\ conf' = [conf EXCEPT ![w] = "direct"]
    /\ UNCHANGED <<job, chainVars, dnsVars, clean, countVars, failures>>

\* ApplyDirectDNS resets the cache and renders.
Forget(w) ==
    /\ Does(w, "forget") /\ Done(w)
    /\ conf' = [conf EXCEPT ![w] = "direct"]
    /\ lastDnsmasqConfig' = NoCache
    /\ UNCHANGED <<job, chainVars, dnsFile, dnsServed, clean, countVars, failures>>

\* The string is read while another goroutine may be assigning it: what a torn
\* read yields has the length of one text and the start of another, and equals
\* neither.
Torn(w) == \E v \in Workers \ {w} : Does(v, "forget") \/ Does(v, "remember")

Compare(w) ==
    /\ Does(w, "compare")
    /\ \/ conf[w] = lastDnsmasqConfig /\ ReturnFromWrite(w)
       \/ (conf[w] # lastDnsmasqConfig \/ Torn(w)) /\ Done(w) /\ UNCHANGED conf
    /\ UNCHANGED <<job, chainVars, dnsVars, clean, countVars, failures>>

Write(w) ==
    /\ Does(w, "write") /\ Done(w)
    /\ dnsFile' = conf[w]
    /\ UNCHANGED <<job, conf, chainVars, dnsServed, lastDnsmasqConfig, clean,
                   countVars, failures>>

Test(w) ==
    /\ Does(w, "test") /\ Done(w)
    /\ UNCHANGED <<job, conf, chainVars, dnsVars, clean, countVars, failures>>

\* systemctl restart: dnsmasq reads what the file holds now.
Restart(w) ==
    /\ Does(w, "restart") /\ Done(w)
    /\ dnsServed' \in FileSeen
    /\ UNCHANGED <<job, conf, chainVars, dnsFile, lastDnsmasqConfig, clean,
                   countVars, failures>>

\* Of EnsureRouterServices, where dnsmasq's unit is enabled.
Serve(w) ==
    /\ Does(w, "serve") /\ Done(w)
    /\ dnsServed' \in FileSeen \cup {dnsServed}
    /\ UNCHANGED <<job, conf, chainVars, dnsFile, lastDnsmasqConfig, clean,
                   countVars, failures>>

\* Installing dnsmasq, os.WriteFile (before or after it truncated the file),
\* dnsmasq --test or systemctl restart fails: the error is logged and dropped.
WriteFails(w) ==
    /\ MayHappen /\ failures < MaxFailures /\ failures' = failures + 1
    /\ \E step \in {"compare", "write", "test", "restart"} :
         /\ Does(w, step)
         /\ dnsFile' \in {dnsFile} \cup IF step = "write" THEN {"part"} ELSE {}
         /\ dnsServed' = IF step = "restart" THEN "none" ELSE dnsServed
    /\ ReturnFromWrite(w)
    /\ clean' = [clean EXCEPT ![w] = FALSE]
    /\ UNCHANGED <<job, chainVars, lastDnsmasqConfig, countVars>>

\* Of EnsureRouterServices: the error is dropped and main goes on.
ServeFails(w) ==
    /\ MayHappen /\ failures < MaxFailures /\ failures' = failures + 1
    /\ Does(w, "serve") /\ Done(w)
    /\ dnsServed' = "none"
    /\ UNCHANGED <<job, conf, chainVars, dnsFile, lastDnsmasqConfig, clean, countVars>>

Remember(w) ==
    /\ Does(w, "remember") /\ Done(w)
    /\ lastDnsmasqConfig' = conf[w] /\ Dropped(w)
    /\ UNCHANGED <<job, chainVars, dnsFile, dnsServed, clean, countVars, failures>>

\* The service dies between any two commands, or in a write, and starts again;
\* the machine may have restarted as well, and dnsmasq with it if enabled.
Crash ==
    /\ MayHappen /\ restarts < MaxRestarts /\ restarts' = restarts + 1
    /\ \E first \in Workers, j \in {"direct", "vpn"} :
         /\ todo' = [w \in Workers |-> IF w = first THEN Boot \o Commands(j) ELSE <<>>]
         /\ job' = [job EXCEPT ![first] = j]
         /\ clean' = [w \in Workers |-> w = first]
    /\ dnsFile' \in FileSeen
    /\ \/ UNCHANGED <<rules, linked, jumps, clamps, dnsServed>>
       \/ /\ rules' = [c \in Chains |-> {}] /\ linked' = {}
          /\ jumps' = 0 /\ clamps' = 0 /\ dnsServed' \in {dnsFile', "none"}
    /\ lastDnsmasqConfig' = NoCache
    /\ conf' = [w \in Workers |-> "direct"]
    /\ UNCHANGED <<started, failures>>

Command(w) ==
    \/ RunFlush(w) \/ RunAppend(w) \/ DeleteJump(w) \/ InsertJump(w) \/ Clamp(w)
    \/ Accept(w) \/ CheckZones(w) \/ ReadVPNDNS(w) \/ Forget(w)
    \/ Compare(w) \/ Write(w) \/ Test(w) \/ Restart(w) \/ WriteFails(w)
    \/ Serve(w) \/ ServeFails(w) \/ Remember(w)

Next == Crash \/ \E w \in Workers : Command(w) \/ \E j \in Jobs : Start(w, j)

Spec == Init /\ [][Next]_vars

-----------------------------------------------------------------------------
(* Properties.                                                             *)

\* Whatever overlapped, died half-way or was rebooted, once all jobs are done
\* port 5000 and the router's own services are let in, by a jump that is there:
\* the last job to flush the chain refills it, and every -D is made up by an -I.
ManagementOpen == Quiet => rules["in"] = ManagementRules /\ jumps > 0

\* Concurrent -D and -I may leave several jumps, but no more than goroutines
\* that ran at once: maintenance every 30 s does not grow INPUT without end.
InsideJump(w) == Does(w, "insertJump")
JumpsBounded ==
    jumps + Cardinality({w \in Workers : InsideJump(w)}) <= Cardinality(Workers)

\* No interleaving of direct and VPN rules takes the internet from the LAN: of
\* either job's rules, those for the WAN are in force once all are done.
LANReachesInternet ==
    Quiet => linked = RouterChains /\ "wan" \in rules["nat"] /\ ForwardWAN \subseteq rules["fwd"]

Ends(w) == Busy(w) /\ todo'[w] = <<>>

\* A job that nothing overlapped leaves its rules and no others, whatever mix
\* an earlier overlap or a crash had left.
SoloJobSetsRules ==
    [][\A w \in Workers :
         clean'[w] /\ Ends(w) /\ job[w] \in {"direct", "vpn"} /\ restarts' = restarts
         => rules'["nat"] = NATOf(job[w]) /\ rules'["fwd"] = ForwardOf(job[w])]_vars

\* ApplyDirectDNS is never skipped by the cache: undisturbed, it ends with no
\* VPN zones in the file nor in dnsmasq, whatever the cache held.
SoloDirectDropsZones ==
    [][\A w \in Workers : clean'[w] /\ Ends(w) /\ job[w] = "direct" /\ restarts' = restarts
         => dnsFile' = "direct" /\ dnsServed' = "direct"]_vars

\* While nothing of dnsmasq fails, it serves what its file holds once all jobs
\* are done: the last to write the file restarts it afterwards, and after a crash
\* in between main's own job does, whose cache is empty: no write is skipped before
\* one was carried through (wifi_ap.go:124 alone may find the unit disabled).
DnsmasqServesItsFile == Quiet /\ failures = 0 => dnsServed = dnsFile

-----------------------------------------------------------------------------
\* dns.go:312: zones found missing from the file are applied again.  A job that
\* nothing overlaps is skipped by a cache that an earlier overlap left wrong.
MissingZonesAreWritten ==
    [][\A w \in Workers :
         clean[w] /\ Does(w, "compare") /\ conf[w] = "vpn" /\ dnsFile # "vpn"
           => \/ Does(w, "compare")' \/ Does(w, "write")'
              \/ restarts' # restarts \/ failures' # failures]_vars
=============================================================================
