------------------------------- MODULE Subnets -------------------------------
(***************************************************************************)
(* The arithmetic of src/handlers/subnet.go over addresses of a few bits:  *)
(* what a subnet is, whether two overlap, which one setup suggests.        *)
(***************************************************************************)
EXTENDS Integers, Sequences

CONSTANTS
    Bits,           \* width of an address, 32 in the code
    DefaultPrefix,  \* 24 in the code
    Candidates      \* the subnets that SuggestLANSubnet knows, in order

Pow2[n \in Nat] == IF n = 0 THEN 1 ELSE 2 * Pow2[n - 1]

Addresses == 0 .. Pow2[Bits] - 1
Prefixes == 1 .. Bits
Nil == -1   \* no address, or a text that is not one

\* 192.168.50.1, 192.168.51.1 and 10.10.0.1: not all in one half.
ASSUME SubnetsAssumption ==
    /\ Bits \in Nat \ {0} /\ DefaultPrefix \in Prefixes
    /\ Candidates \in Seq([ip : Addresses, prefix : {DefaultPrefix}]) /\ Candidates # <<>>
    /\ \E i, j \in DOMAIN Candidates :
         Candidates[i].ip < Pow2[Bits - 1] /\ Candidates[j].ip >= Pow2[Bits - 1]

\* getInterfaceIPv4CIDR of an interface without an address.
NoAddress == [ip |-> Nil, prefix |-> 0]
CIDRs == [ip : Addresses, prefix : Prefixes] \cup {NoAddress}

-----------------------------------------------------------------------------
Block(prefix) == Pow2[Bits - prefix]

\* Mutant: one bit of the network too few.
MaskOffByOne(ip, prefix) ==
    IF ip = Nil \/ prefix <= 0 \/ prefix > Bits THEN Nil
    ELSE ip - (ip % Pow2[Bits + 1 - prefix])

networkAddr(ip, prefix) ==
    IF ip = Nil \/ prefix <= 0 \/ prefix > Bits THEN Nil
    ELSE ip - (ip % Block(prefix))

\* net.IPNet's Contains.
Contains(network, prefix, ip) == networkAddr(ip, prefix) = network

\* Mutant: only the first subnet is asked whether it contains the other.
OverlapsOneWay(a, b) ==
    LET an == networkAddr(a.ip, a.prefix)
        bn == networkAddr(b.ip, b.prefix)
    IN an # Nil /\ bn # Nil /\ Contains(an, a.prefix, bn)

subnetsOverlap(a, b) ==
    LET an == networkAddr(a.ip, a.prefix)
        bn == networkAddr(b.ip, b.prefix)
    IN /\ an # Nil /\ bn # Nil
       /\ Contains(an, a.prefix, bn) \/ Contains(bn, b.prefix, an)

\* Mutant: the default is suggested whatever the WAN is.
SuggestsFirst(w) == Candidates[1]

\* The first candidate apart from the WAN, or the first of all.
SuggestLANSubnet(w) ==
    LET apart == {i \in DOMAIN Candidates : ~subnetsOverlap(w, Candidates[i])}
    IN IF w.ip = Nil \/ apart = {} THEN Candidates[1]
       ELSE Candidates[CHOOSE i \in apart : \A j \in apart : i <= j]

\* Mutant: one bit too many is shifted in.
NetmaskOffByOne(prefix) ==
    IF prefix <= 0 \/ prefix > Bits THEN Pow2[Bits] - Block(DefaultPrefix)
    ELSE ((Pow2[Bits] - 1) * Pow2[Bits + 1 - prefix]) % Pow2[Bits]

\* All ones shifted left in a word of Bits bits; out of range, the default's.
prefixToNetmask(prefix) ==
    IF prefix <= 0 \/ prefix > Bits THEN Pow2[Bits] - Block(DefaultPrefix)
    ELSE ((Pow2[Bits] - 1) * Block(prefix)) % Pow2[Bits]

-----------------------------------------------------------------------------
(* Reference definitions.                                                  *)

IsSubnet(n) == n.ip # Nil /\ n.prefix \in Prefixes

\* The addresses that have the subnet's first bits.
Hosts(n) == {x \in Addresses : x \div Block(n.prefix) = n.ip \div Block(n.prefix)}
Shares(a, b) == \E x \in Hosts(a) : x \in Hosts(b)
=============================================================================
