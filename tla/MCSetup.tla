------------------------------- MODULE MCSetup -------------------------------
(* Setup for TLC: addresses of four bits, and three subnets of four that lie  *)
(* to each other as 192.168.50.1/24, 192.168.51.1/24 and 10.10.0.1/24 do.     *)
EXTENDS Setup

MCCandidates == << [ip |-> 9, prefix |-> 2], [ip |-> 13, prefix |-> 2],
                   [ip |-> 5, prefix |-> 2] >>

\* As 192.168.50.10 prolongs 192.168.50.1.
MCProlongs == {<<10, 9>>}

\* The default, one whose address prolongs it, and a text that is no address.
MCLANs == {[ip |-> 9, prefix |-> 2], [ip |-> 10, prefix |-> 2], [ip |-> Nil, prefix |-> 2]}

\* A comment names wlan0, a block gives wlan1 an address.
MCLongerNames == {<<"eth10", "eth1">>}
MCFirstBlocks == [i \in Interfaces |-> IF i = "wlan1" THEN MCCandidates[3] ELSE NoAddress]

\* The run looks at every LAN and every WAN of a first request up to its checks,
\* and follows a few of them through the steps, failures and restarts: with the uplink
\* for WAN unless it is the LAN; two attempts with two restarts, or three attempts of
\* which the third is for a LAN tried before.
Untouched == attempts = 0 /\ restarts = 0 /\ manager = "nobody"
FewWANs == \A i \in Uplinks \ static :
    addr[i] \in {MCCandidates[2], [ip |-> 10, prefix |-> 2], NoAddress}
OneWAN == cfg.wan = IF cfg.lan \in Uplinks THEN "wlan0" ELSE "eth1"
FewForms == cfg = NoConfig \/ (OneWAN /\ cfg.subnet \in MCLANs /\ ~defaulted /\ ~moved)
TriedLAN == [lan |-> cfg.lan, subnet |-> cfg.subnet] \in given
FollowSome ==
    \/ pc = "form" /\ Untouched
    \/ pc = "parsed" /\ Untouched /\ cfg.wan \in Uplinks /\ cfg.lan \in Wireless
    \/ /\ FewWANs /\ FewForms
       /\ attempts = 2 /\ cfg # NoConfig => TriedLAN
       /\ attempts = 3 => restarts = 0
=============================================================================
