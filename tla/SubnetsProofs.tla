--------------------------- MODULE SubnetsProofs ---------------------------
(***************************************************************************)
(* The arithmetic of subnets for every width of an address, 32 included.   *)
(***************************************************************************)
EXTENDS Subnets, WellFoundedInduction, TLAPS

-----------------------------------------------------------------------------
(* Powers of two.                                                          *)

\* Induction for a set instead of a predicate.
LEMMA InductionOverSet ==
    ASSUME NEW S, S \subseteq Nat, 0 \in S, \A n \in S : n + 1 \in S
    PROVE  S = Nat
  <1> DEFINE R == OpToRel(<, Nat)
             T == Nat \ S
  <1>1. SUFFICES ASSUME T # {} PROVE FALSE
    OBVIOUS
  <1>2. PICK x \in T : \A y \in T : ~ (<<y, x>> \in R)
    <2> HIDE DEF R
    <2>1. IsWellFoundedOn(R, Nat)
      BY NatLessThanWellFounded DEF R
    <2>2. QED
      BY <1>1, <2>1, WFMin
  <1>3. x \in Nat /\ x # 0
    OBVIOUS
  <1>4. x - 1 \in Nat /\ <<x - 1, x>> \in R
    BY <1>3 DEF OpToRel
  <1>5. x - 1 \in S
    BY <1>2, <1>4
  <1>6. (x - 1) + 1 \in S
    BY <1>5
  <1>7. QED
    BY <1>3, <1>6

\* The powers up to n.
Doubles(f, n) == f[0] = 1 /\ \A i \in 1 .. n : f[i] = 2 * f[i - 1]

LEMMA PowersExist == \A n \in Nat : \E f \in [0 .. n -> Nat] : Doubles(f, n)
  <1> DEFINE S == {n \in Nat : \E f \in [0 .. n -> Nat] : Doubles(f, n)}
  <1>1. 0 \in S
    <2>1. [i \in 0 .. 0 |-> 1] \in [0 .. 0 -> Nat] /\ Doubles([i \in 0 .. 0 |-> 1], 0)
      BY DEF Doubles
    <2>2. QED
      BY <2>1
  <1>2. ASSUME NEW n \in S PROVE n + 1 \in S
    <2>1. PICK f \in [0 .. n -> Nat] : Doubles(f, n)
      OBVIOUS
    <2> DEFINE g == [i \in 0 .. n + 1 |-> IF i <= n THEN f[i] ELSE 2 * f[n]]
    <2>2. n \in Nat
      OBVIOUS
    <2>3. g \in [0 .. n + 1 -> Nat]
      BY <2>1, <2>2
    <2>4. Doubles(g, n + 1)
      <3>1. g[0] = 1
        BY <2>1, <2>2 DEF Doubles
      <3>2. ASSUME NEW i \in 1 .. n + 1 PROVE g[i] = 2 * g[i - 1]
        <4>1. CASE i <= n
          BY <2>1, <2>2, <4>1 DEF Doubles
        <4>2. CASE i = n + 1
          BY <2>1, <2>2, <4>2
        <4>3. QED
          BY <2>2, <4>1, <4>2
      <3>3. QED
        BY <3>1, <3>2 DEF Doubles
    <2>5. QED
      BY <2>2, <2>3, <2>4
  <1>3. S = Nat
    <2> HIDE DEF S
    <2>1. S \subseteq Nat
      BY DEF S
    <2>2. QED
      BY <1>1, <1>2, <2>1, InductionOverSet
  <1>4. QED
    BY <1>3

LEMMA PowersAgree ==
    ASSUME NEW m \in Nat, NEW n \in Nat, m <= n,
           NEW f, NEW g, Doubles(f, m), Doubles(g, n)
    PROVE  f[m] = g[m]
  <1> DEFINE S == {i \in Nat : i <= m => f[i] = g[i]}
  <1>1. 0 \in S
    BY DEF Doubles
  <1>2. ASSUME NEW i \in S PROVE i + 1 \in S
    <2>1. i \in Nat
      OBVIOUS
    <2>2. CASE i + 1 <= m
      <3>1. i + 1 \in 1 .. m /\ i + 1 \in 1 .. n /\ (i + 1) - 1 = i
        BY <2>1, <2>2
      <3>2. f[i] = g[i]
        BY <2>1, <2>2
      <3>3. QED
        BY <3>1, <3>2 DEF Doubles
    <2>3. QED
      BY <2>1, <2>2
  <1>3. S = Nat
    <2> HIDE DEF S
    <2>1. S \subseteq Nat
      BY DEF S
    <2>2. QED
      BY <1>1, <1>2, <2>1, InductionOverSet
  <1>4. QED
    BY <1>3

\* The recursive definition has a solution, and so Pow2 is one.
LEMMA Pow2Def == Pow2 = [n \in Nat |-> IF n = 0 THEN 1 ELSE 2 * Pow2[n - 1]]
  <1> DEFINE sol(n) == CHOOSE f \in [0 .. n -> Nat] : Doubles(f, n)
             F == [n \in Nat |-> sol(n)[n]]
  <1>1. ASSUME NEW n \in Nat PROVE Doubles(sol(n), n)
    BY PowersExist
  <1> HIDE DEF sol
  <1>2. ASSUME NEW n \in Nat, n # 0 PROVE F[n] = 2 * F[n - 1]
    <2>1. n - 1 \in Nat /\ n - 1 <= n /\ n \in 1 .. n
      BY <1>2
    <2>2. sol(n)[n] = 2 * sol(n)[n - 1]
      BY <1>1, <2>1 DEF Doubles
    <2>3. sol(n - 1)[n - 1] = sol(n)[n - 1]
      BY <1>1, <2>1, PowersAgree
    <2>4. QED
      BY <2>1, <2>2, <2>3
  <1>3. F[0] = 1
    BY <1>1 DEF Doubles
  <1>4. F = [n \in Nat |-> IF n = 0 THEN 1 ELSE 2 * F[n - 1]]
    BY <1>2, <1>3
  <1>5. \E f : f = [n \in Nat |-> IF n = 0 THEN 1 ELSE 2 * f[n - 1]]
    <2> HIDE DEF F
    <2>1. QED
      BY <1>4
  <1>6. QED
    BY <1>5 DEF Pow2

LEMMA Pow2Values ==
    /\ Pow2[0] = 1
    /\ \A n \in Nat : Pow2[n + 1] = 2 * Pow2[n]
  BY Pow2Def

LEMMA Pow2Type == \A n \in Nat : Pow2[n] \in Nat \ {0}
  <1> DEFINE S == {n \in Nat : Pow2[n] \in Nat \ {0}}
  <1>1. 0 \in S
    BY Pow2Values
  <1>2. ASSUME NEW n \in S PROVE n + 1 \in S
    BY Pow2Values
  <1>3. S = Nat
    <2> HIDE DEF S
    <2>1. S \subseteq Nat
      BY DEF S
    <2>2. QED
      BY <1>1, <1>2, <2>1, InductionOverSet
  <1>4. QED
    BY <1>3

LEMMA Pow2Sum == \A m, k \in Nat : Pow2[m + k] = Pow2[m] * Pow2[k]
  <1> SUFFICES ASSUME NEW m \in Nat PROVE \A k \in Nat : Pow2[m + k] = Pow2[m] * Pow2[k]
    OBVIOUS
  <1> DEFINE S == {k \in Nat : Pow2[m + k] = Pow2[m] * Pow2[k]}
  <1>1. 0 \in S
    BY Pow2Values, Pow2Type
  <1>2. ASSUME NEW k \in S PROVE k + 1 \in S
    <2>1. m + k \in Nat /\ m + (k + 1) = (m + k) + 1
      OBVIOUS
    <2>2. Pow2[m + (k + 1)] = 2 * (Pow2[m] * Pow2[k])
      BY <2>1, Pow2Values
    <2>3. Pow2[k + 1] = 2 * Pow2[k]
      BY Pow2Values
    <2>4. 2 * (Pow2[m] * Pow2[k]) = Pow2[m] * (2 * Pow2[k])
      BY Pow2Type
    <2>5. QED
      BY <2>2, <2>3, <2>4
  <1>3. S = Nat
    <2> HIDE DEF S
    <2>1. S \subseteq Nat
      BY DEF S
    <2>2. QED
      BY <1>1, <1>2, <2>1, InductionOverSet
  <1>4. QED
    BY <1>3

-----------------------------------------------------------------------------
(* Division.                                                               *)

LEMMA Division ==
    ASSUME NEW n \in Nat, NEW d \in Nat \ {0}
    PROVE  /\ n \div d \in Nat /\ n % d \in 0 .. d - 1
           /\ n = d * (n \div d) + (n % d)
  OBVIOUS

LEMMA QuotientIsUnique ==
    ASSUME NEW d \in Nat \ {0}, NEW q \in Nat, NEW r \in 0 .. d - 1
    PROVE  (d * q + r) \div d = q
  <1> DEFINE n == d * q + r
  <1>1. n \in Nat
    OBVIOUS
  <1> HIDE DEF n
  <1>2. PICK p \in Nat, s \in 0 .. d - 1 : p = n \div d /\ n = d * p + s
    BY <1>1, Division
  <1>3. d * p + s = d * q + r
    BY <1>2 DEF n
  <1>4. CASE p < q
    <2>1. PICK j \in Nat : q = p + 1 + j
      BY <1>4
    <2>2. d * q = d * p + d + d * j /\ d * j >= 0
      BY <2>1
    <2>3. QED
      BY <1>3, <2>2
  <1>5. CASE q < p
    <2>1. PICK j \in Nat : p = q + 1 + j
      BY <1>5
    <2>2. d * p = d * q + d + d * j /\ d * j >= 0
      BY <2>1
    <2>3. QED
      BY <1>3, <2>2
  <1>6. QED
    BY <1>2, <1>4, <1>5 DEF n

LEMMA DivisionTwice ==
    ASSUME NEW n \in Nat, NEW a \in Nat \ {0}, NEW k \in Nat \ {0}
    PROVE  a * k \in Nat \ {0} /\ (n \div a) \div k = n \div (a * k)
  <1>1. PICK q \in Nat, r \in 0 .. a - 1 : q = n \div a /\ n = a * q + r
    BY Division
  <1>2. PICK s \in Nat, t \in 0 .. k - 1 : s = q \div k /\ q = k * s + t
    BY Division
  <1>3. a * k \in Nat \ {0}
    OBVIOUS
  <1>4. a * t + r \in 0 .. a * k - 1
    <2>1. PICK j \in Nat : k = t + 1 + j
      BY <1>2
    <2>2. a * k = a * t + a + a * j /\ a * j >= 0 /\ a * t >= 0
      BY <2>1
    <2>3. QED
      BY <2>2
  <1>5. n = (a * k) * s + (a * t + r)
    <2>1. n = a * (k * s + t) + r
      BY <1>1, <1>2
    <2>2. QED
      BY <2>1
  <1>6. n \div (a * k) = s
    BY <1>3, <1>4, <1>5, QuotientIsUnique
  <1>7. QED
    BY <1>1, <1>2, <1>3, <1>6

\* The multiple of d that networkAddr returns, and what divides it.
LEMMA FloorIsMultiple ==
    ASSUME NEW n \in Nat, NEW d \in Nat \ {0}
    PROVE  n - (n % d) = d * (n \div d)
  BY Division

LEMMA MultipleDivides ==
    ASSUME NEW d \in Nat \ {0}, NEW q \in Nat
    PROVE  d * q \in Nat /\ (d * q) \div d = q
  <1>1. d * q = d * q + 0 /\ d * q \in Nat
    OBVIOUS
  <1>2. QED
    BY <1>1, QuotientIsUnique

-----------------------------------------------------------------------------
(* Subnets.                                                                *)

SubnetSet == [ip : Addresses, prefix : Prefixes]

LEMMA WidthIs == Bits \in Nat \ {0} /\ DefaultPrefix \in Prefixes
  BY SubnetsAssumption, Zenon DEF SubnetsAssumption

LEMMA BlockTypes ==
    /\ \A n \in Addresses : n \in Nat
    /\ \A p \in Prefixes : p \in Nat \ {0} /\ p <= Bits /\ Block(p) \in Nat \ {0}
  <1>1. Bits \in Nat /\ Pow2[Bits] \in Nat
    BY WidthIs, Pow2Type
  <1>2. ASSUME NEW p \in Prefixes PROVE p \in Nat \ {0} /\ p <= Bits /\ Bits - p \in Nat
    BY <1>1 DEF Prefixes
  <1>3. QED
    BY <1>1, <1>2, Pow2Type DEF Addresses, Block

\* The larger of two blocks is a multiple of the smaller.
LEMMA BlocksDivide ==
    ASSUME NEW p \in Prefixes, NEW q \in Prefixes, q <= p
    PROVE  Pow2[p - q] \in Nat \ {0} /\ Block(q) = Block(p) * Pow2[p - q]
  <1>1. p - q \in Nat /\ Bits - p \in Nat /\ (Bits - p) + (p - q) = Bits - q
    BY BlockTypes, WidthIs
  <1>2. QED
    BY <1>1, Pow2Sum, Pow2Type DEF Block

LEMMA NetworkOfSubnet ==
    ASSUME NEW x \in Nat, NEW p \in Prefixes
    PROVE  networkAddr(x, p) = Block(p) * (x \div Block(p))
  <1>1. x # Nil /\ ~(p <= 0) /\ ~(p > Bits)
    BY BlockTypes, WidthIs DEF Nil
  <1>2. networkAddr(x, p) = x - (x % Block(p))
    BY <1>1 DEF networkAddr
  <1>3. QED
    BY <1>2, BlockTypes, FloorIsMultiple

\* Two addresses have the same network if and only if they are in the same block.
LEMMA SameNetwork ==
    ASSUME NEW x \in Nat, NEW y \in Nat, NEW p \in Prefixes
    PROVE  networkAddr(x, p) = networkAddr(y, p) <=> x \div Block(p) = y \div Block(p)
  <1>1. Block(p) \in Nat \ {0}
    BY BlockTypes
  <1>2. x \div Block(p) \in Nat /\ y \div Block(p) \in Nat
    BY <1>1, Division
  <1>3. /\ (Block(p) * (x \div Block(p))) \div Block(p) = x \div Block(p)
        /\ (Block(p) * (y \div Block(p))) \div Block(p) = y \div Block(p)
    BY <1>1, <1>2, MultipleDivides
  <1>4. QED
    BY <1>3, NetworkOfSubnet

\* The network of a subnet is in the block of the subnet, and in every larger one
\* that the subnet is in.
LEMMA NetworkInBlock ==
    ASSUME NEW x \in Nat, NEW p \in Prefixes, NEW q \in Prefixes, q <= p
    PROVE  networkAddr(x, p) \in Nat /\ networkAddr(x, p) \div Block(q) = x \div Block(q)
  <1> DEFINE A == Block(p)
             k == Pow2[p - q]
             m == x \div A
  <1>1. A \in Nat \ {0} /\ k \in Nat \ {0} /\ Block(q) = A * k
    BY BlockTypes, BlocksDivide
  <1>2. networkAddr(x, p) = A * m
    BY NetworkOfSubnet
  <1>3. x \div (A * k) = m \div k
    BY <1>1, DivisionTwice
  <1> HIDE DEF A, k
  <1>4. m \in Nat
    BY <1>1, Division
  <1>5. A * m \in Nat /\ (A * m) \div A = m
    BY <1>1, <1>4, MultipleDivides
  <1>6. (A * m) \div (A * k) = m \div k
    <2>1. ((A * m) \div A) \div k = (A * m) \div (A * k)
      BY <1>1, <1>5, DivisionTwice
    <2>2. QED
      BY <1>5, <2>1
  <1>7. QED
    BY <1>1, <1>2, <1>5, <1>6, <1>3

\* Blocks are nested: who is in the same small one is in the same larger one.
LEMMA BlocksAreNested ==
    ASSUME NEW x \in Nat, NEW y \in Nat, NEW p \in Prefixes, NEW q \in Prefixes, q <= p,
           x \div Block(p) = y \div Block(p)
    PROVE  x \div Block(q) = y \div Block(q)
  <1>1. /\ Block(p) \in Nat \ {0} /\ Pow2[p - q] \in Nat \ {0}
        /\ Block(q) = Block(p) * Pow2[p - q]
    BY BlockTypes, BlocksDivide
  <1>2. /\ (x \div Block(p)) \div Pow2[p - q] = x \div (Block(p) * Pow2[p - q])
        /\ (y \div Block(p)) \div Pow2[p - q] = y \div (Block(p) * Pow2[p - q])
    BY <1>1, DivisionTwice
  <1>3. QED
    BY <1>1, <1>2

\* The test of subnetsOverlap, of which the second subnet is the larger.
LEMMA OverlapOfLarger ==
    ASSUME NEW x \in Nat, NEW y \in Nat, NEW p \in Prefixes, NEW q \in Prefixes, q <= p
    PROVE  Contains(networkAddr(y, q), q, networkAddr(x, p))
             \/ Contains(networkAddr(x, p), p, networkAddr(y, q))
           <=> x \div Block(q) = y \div Block(q)
  <1>1. /\ networkAddr(x, p) \in Nat /\ networkAddr(x, p) \div Block(q) = x \div Block(q)
        /\ networkAddr(y, q) \in Nat /\ networkAddr(y, q) \div Block(q) = y \div Block(q)
    <2>1. q <= q
      BY BlockTypes
    <2>2. QED
      BY <2>1, NetworkInBlock
  <1>2. Contains(networkAddr(y, q), q, networkAddr(x, p)) <=> x \div Block(q) = y \div Block(q)
    BY <1>1, SameNetwork DEF Contains
  <1>3. ASSUME Contains(networkAddr(x, p), p, networkAddr(y, q))
        PROVE  x \div Block(q) = y \div Block(q)
    <2>1. networkAddr(y, q) \div Block(p) = x \div Block(p)
      BY <1>1, <1>3, SameNetwork DEF Contains
    <2>2. networkAddr(y, q) \div Block(q) = x \div Block(q)
      BY <1>1, <2>1, BlocksAreNested
    <2>3. QED
      BY <1>1, <2>2
  <1>4. QED
    BY <1>2, <1>3

\* Two subnets have an address in common if and only if they are in one block of
\* the larger one.
LEMMA SharingOfLarger ==
    ASSUME NEW a \in SubnetSet, NEW b \in SubnetSet, b.prefix <= a.prefix
    PROVE  /\ Shares(a, b) <=> a.ip \div Block(b.prefix) = b.ip \div Block(b.prefix)
           /\ Shares(b, a) <=> Shares(a, b)
  <1>0. a.ip \in Nat /\ b.ip \in Nat /\ a.prefix \in Prefixes /\ b.prefix \in Prefixes
        /\ a.ip \in Addresses
    BY BlockTypes DEF SubnetSet
  <1>1. ASSUME a.ip \div Block(b.prefix) = b.ip \div Block(b.prefix)
        PROVE  Shares(a, b)
    BY <1>0, <1>1, Zenon DEF Shares, Hosts
  <1>2. ASSUME Shares(a, b)
        PROVE  a.ip \div Block(b.prefix) = b.ip \div Block(b.prefix)
    <2>1. PICK h \in Addresses : /\ h \div Block(a.prefix) = a.ip \div Block(a.prefix)
                                 /\ h \div Block(b.prefix) = b.ip \div Block(b.prefix)
      BY <1>2, Zenon DEF Shares, Hosts
    <2>2. h \div Block(b.prefix) = a.ip \div Block(b.prefix)
      BY <1>0, <2>1, BlockTypes, BlocksAreNested
    <2>3. QED
      BY <2>1, <2>2
  <1>3. Shares(b, a) <=> Shares(a, b)
    BY Zenon DEF Shares, Hosts
  <1>4. QED
    BY <1>1, <1>2, <1>3

LEMMA OverlapIsSymmetric == ASSUME NEW a, NEW b
                            PROVE  subnetsOverlap(a, b) <=> subnetsOverlap(b, a)
  BY Zenon DEF subnetsOverlap

\* The code's test is exactly that the two subnets have an address in common.
LEMMA OverlapIsSharing ==
    ASSUME NEW a \in SubnetSet, NEW b \in SubnetSet
    PROVE  subnetsOverlap(a, b) <=> Shares(a, b)
  <1>1. ASSUME NEW c \in SubnetSet, NEW d \in SubnetSet, d.prefix <= c.prefix
        PROVE  /\ subnetsOverlap(c, d) <=> Shares(c, d)
               /\ Shares(d, c) <=> Shares(c, d)
    <2>0. c.ip \in Nat /\ d.ip \in Nat /\ c.prefix \in Prefixes /\ d.prefix \in Prefixes
      BY BlockTypes DEF SubnetSet
    <2>1. networkAddr(c.ip, c.prefix) \in Nat /\ networkAddr(d.ip, d.prefix) \in Nat
      <3>1. c.prefix <= c.prefix /\ d.prefix <= d.prefix
        BY <2>0, BlockTypes
      <3>2. QED
        BY <2>0, <3>1, NetworkInBlock
    <2>2. networkAddr(c.ip, c.prefix) # Nil /\ networkAddr(d.ip, d.prefix) # Nil
      BY <2>1 DEF Nil
    <2>3. subnetsOverlap(c, d) <=> c.ip \div Block(d.prefix) = d.ip \div Block(d.prefix)
      BY <1>1, <2>0, <2>2, OverlapOfLarger, Zenon DEF subnetsOverlap
    <2>4. QED
      BY <1>1, <2>3, SharingOfLarger
  <1>2. a.prefix <= b.prefix \/ b.prefix <= a.prefix
    BY BlockTypes DEF SubnetSet
  <1>3. QED
    BY <1>1, <1>2, OverlapIsSymmetric

\* What is no subnet overlaps with nothing.
LEMMA OverlapOfSubnets ==
    ASSUME NEW a \in [ip : Addresses \cup {Nil}, prefix : Int],
           NEW b \in [ip : Addresses \cup {Nil}, prefix : Int], subnetsOverlap(a, b)
    PROVE  IsSubnet(a) /\ IsSubnet(b) /\ a \in SubnetSet /\ b \in SubnetSet
  <1>1. ASSUME NEW n \in [ip : Addresses \cup {Nil}, prefix : Int],
               networkAddr(n.ip, n.prefix) # Nil
        PROVE  IsSubnet(n) /\ n \in SubnetSet
    <2>1. n.ip # Nil /\ n.prefix > 0 /\ n.prefix <= Bits
      BY <1>1, WidthIs DEF networkAddr
    <2>2. QED
      BY <2>1, WidthIs DEF IsSubnet, Prefixes, SubnetSet
  <1>2. QED
    BY <1>1 DEF subnetsOverlap

-----------------------------------------------------------------------------
(* The suggestion.                                                         *)

Suggestible == [ip : Addresses, prefix : {DefaultPrefix}]

LEMMA CandidateTypes ==
    /\ 1 \in DOMAIN Candidates
    /\ \A i \in DOMAIN Candidates : i \in Nat /\ Candidates[i] \in Suggestible
  <1>1. Candidates \in Seq(Suggestible) /\ Candidates # <<>>
    BY SubnetsAssumption, Zenon DEF SubnetsAssumption, Suggestible
  <1>2. QED
    BY <1>1

\* A suggestion is a candidate's: CHOOSE finds the first that is apart, if any is.
LEMMA SuggestionIsCandidate ==
    ASSUME NEW w
    PROVE  \E i \in DOMAIN Candidates :
              /\ SuggestLANSubnet(w) = Candidates[i]
              /\ \/ w.ip = Nil \/ ~subnetsOverlap(w, Candidates[i])
                 \/ \A j \in DOMAIN Candidates : subnetsOverlap(w, Candidates[j])
  <1> DEFINE apart == {i \in DOMAIN Candidates : ~subnetsOverlap(w, Candidates[i])}
             R == OpToRel(<, Nat)
  <1>1. CASE w.ip = Nil \/ apart = {}
    BY CandidateTypes, <1>1 DEF SuggestLANSubnet
  <1>2. CASE ~(w.ip = Nil \/ apart = {})
    <2>1. apart \subseteq Nat /\ apart # {}
      BY CandidateTypes, <1>2
    <2>2. PICK i \in apart : \A j \in apart : ~ (<<j, i>> \in R)
      <3> HIDE DEF apart, R
      <3>1. IsWellFoundedOn(R, Nat)
        BY NatLessThanWellFounded DEF R
      <3> QED
        BY <2>1, <3>1, WFMin
    <2>3. \A j \in apart : i <= j
      <3> SUFFICES ASSUME NEW j \in apart PROVE i <= j
        OBVIOUS
      <3>1. i \in Nat /\ j \in Nat
        BY <2>1
      <3>2. ~(j < i)
        BY <2>2, <3>1 DEF OpToRel
      <3> QED
        BY <3>1, <3>2
    <2>4. (CHOOSE k \in apart : \A j \in apart : k <= j) \in apart
      BY <2>3
    <2>5. QED
      BY <1>2, <2>4 DEF SuggestLANSubnet
  <1>3. QED
    BY <1>1, <1>2

LEMMA SuggestionIsSuggestible ==
    ASSUME NEW w PROVE SuggestLANSubnet(w) \in Suggestible
  BY SuggestionIsCandidate, CandidateTypes

\* A WAN lies in one half of the address space, and the candidates do not: some
\* candidate is apart from it.
LEMMA SomeCandidateIsApart ==
    ASSUME NEW w \in SubnetSet
    PROVE  \E i \in DOMAIN Candidates :
              Candidates[i] \in SubnetSet /\ ~subnetsOverlap(w, Candidates[i])
  <1> DEFINE H == Block(1)
  <1>1. 1 \in Prefixes /\ H \in Nat \ {0} /\ Pow2[Bits - 1] = H
    BY WidthIs, BlockTypes DEF Prefixes, Block
  <1>2. PICK i \in DOMAIN Candidates, j \in DOMAIN Candidates :
            Candidates[i].ip < Pow2[Bits - 1] /\ Candidates[j].ip >= Pow2[Bits - 1]
    BY SubnetsAssumption, Zenon DEF SubnetsAssumption
  <1>3. Candidates[i] \in SubnetSet /\ Candidates[j] \in SubnetSet
    BY CandidateTypes, WidthIs DEF Suggestible, SubnetSet
  <1>4. ASSUME NEW c \in SubnetSet, subnetsOverlap(w, c)
        PROVE  w.ip \div H = c.ip \div H
    <2>0. w.ip \in Addresses /\ c.ip \in Addresses
          /\ w.prefix \in Prefixes /\ c.prefix \in Prefixes
      BY DEF SubnetSet
    <2>1. Shares(w, c)
      BY <1>4, OverlapIsSharing
    <2>2. PICK h \in Addresses : /\ h \div Block(w.prefix) = w.ip \div Block(w.prefix)
                                 /\ h \div Block(c.prefix) = c.ip \div Block(c.prefix)
      BY <2>1, Zenon DEF Shares, Hosts
    <2>3. h \in Nat /\ w.ip \in Nat /\ c.ip \in Nat /\ 1 <= w.prefix /\ 1 <= c.prefix
      BY <2>0, BlockTypes
    <2>4. h \div H = w.ip \div H /\ h \div H = c.ip \div H
      BY <1>1, <2>0, <2>2, <2>3, BlocksAreNested
    <2>5. QED
      BY <2>4
  <1>5. Candidates[i].ip \div H # Candidates[j].ip \div H
    <2>1. Candidates[i].ip \in Nat /\ Candidates[j].ip \in Nat
      BY <1>3, BlockTypes DEF SubnetSet
    <2> HIDE DEF H
    <2>2. ASSUME NEW m \in Nat, NEW n \in Nat, m < H, n >= H PROVE m \div H # n \div H
      <3>1. m = H * (m \div H) + (m % H) /\ m \div H \in Nat /\ m % H \in 0 .. H - 1
        BY <1>1, Division, Zenon
      <3>2. n = H * (n \div H) + (n % H) /\ n \div H \in Nat /\ n % H \in 0 .. H - 1
        BY <1>1, Division, Zenon
      <3>3. CASE m \div H = 0
        BY <1>1, <2>2, <3>2, <3>3
      <3>4. CASE m \div H # 0
        <4>1. H * (m \div H) >= H
          BY <1>1, <3>1, <3>4
        <4>2. QED
          BY <1>1, <2>2, <3>1, <4>1
      <3>5. QED
        BY <3>3, <3>4
    <2>3. QED
      BY <1>1, <1>2, <2>1, <2>2
  <1>6. QED
    BY <1>3, <1>4, <1>5

\* What is suggested for a WAN is apart from it.
LEMMA SuggestionIsApart ==
    ASSUME NEW w \in SubnetSet PROVE ~subnetsOverlap(w, SuggestLANSubnet(w))
  <1>1. w.ip # Nil
    BY BlockTypes DEF SubnetSet, Nil
  <1>2. QED
    BY <1>1, SuggestionIsCandidate, SomeCandidateIsApart, Zenon

-----------------------------------------------------------------------------
(* The netmask.                                                            *)

\* All ones shifted left are the complement of a block.
LEMMA NetmaskOfPrefix ==
    ASSUME NEW p \in Prefixes
    PROVE  Pow2[Bits] - prefixToNetmask(p) = Block(p)
  <1> DEFINE M == Pow2[Bits]
             B == Block(p)
  <1>1. M \in Nat \ {0} /\ B \in Nat \ {0} /\ B <= M
    <2>1. Bits - p \in Nat /\ p \in Nat /\ (Bits - p) + p = Bits
      BY BlockTypes, WidthIs
    <2>2. Pow2[p] \in Nat \ {0} /\ B \in Nat \ {0}
      BY <2>1, Pow2Type DEF Block
    <2>3. M = B * Pow2[p]
      BY <2>1, Pow2Sum DEF Block
    <2>4. PICK j \in Nat : Pow2[p] = 1 + j
      BY <2>2
    <2> HIDE DEF M, B
    <2>5. M = B + B * j /\ B * j >= 0
      BY <2>2, <2>3, <2>4
    <2>6. QED
      BY <2>2, <2>5
  <1>2. prefixToNetmask(p) = ((M - 1) * B) % M
    BY BlockTypes, WidthIs DEF prefixToNetmask
  <1> HIDE DEF M, B
  <1>3. (M - 1) * B = M * (B - 1) + (M - B) /\ B - 1 \in Nat /\ M - B \in 0 .. M - 1
    BY <1>1
  <1>4. ((M - 1) * B) \div M = B - 1
    BY <1>1, <1>3, QuotientIsUnique
  <1>5. ((M - 1) * B) \in Nat
    BY <1>1
  <1>6. (M - 1) * B = M * (B - 1) + (((M - 1) * B) % M)
    BY <1>1, <1>4, <1>5, Division
  <1>7. ((M - 1) * B) % M \in 0 .. M - 1
    BY <1>1, <1>5, Division
  <1>8. QED
    BY <1>1, <1>2, <1>3, <1>6, <1>7 DEF M, B

=============================================================================
