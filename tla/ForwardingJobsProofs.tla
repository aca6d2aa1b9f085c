------------------------ MODULE ForwardingJobsProofs ------------------------
(***************************************************************************)
(* More proofs about Forwarding: its types, and what a job leaves that     *)
(* nothing overlaps.  A command is found by its place from the end of its  *)
(* sequence, which no step changes: commands only go and come at the head. *)
(***************************************************************************)
EXTENDS ForwardingProofs

\* The places of a sequence, and the command that has k others after it.
Before(q) == 0 .. Len(q) - 1
End(q, k) == q[Len(q) - k]

\* What EnsureVPNDNSIfNeeded may put in.
Inserted == {ReadCmd, CompareCmd, WriteCmd, TestCmd, RestartCmd, RememberCmd}

\* From q to r: what is left keeps its place.  The first command is gone, with others
\* that only write; if it looked for the zones, others may have taken its place.
Leaves(q, r) ==
    /\ \A k \in Before(r) :
         \/ k \in Before(q) /\ k < Len(q) - 1 /\ End(r, k) = End(q, k)
         \/ q[1] = ZonesCmd /\ k >= Len(q) - 1 /\ End(r, k) \in Inserted
    /\ \A k \in Before(q) :
         \/ k = Len(q) - 1
         \/ k \in Before(r) /\ End(r, k) = End(q, k)
         \/ End(q, k) \in Writing

-----------------------------------------------------------------------------
(* Places.                                                                 *)

LEMMA HeadHasPlace ==
    ASSUME NEW q \in Seq(CommandSet), q # <<>>
    PROVE  Len(q) - 1 \in Before(q) /\ End(q, Len(q) - 1) = q[1]
  BY DEF Before, End

LEMMA OccursInPlace ==
    ASSUME NEW q \in Seq(CommandSet), NEW c
    PROVE  Occurs(c, q) <=> \E k \in Before(q) : End(q, k) = c
  <1>1. ASSUME NEW i \in 1 .. Len(q), q[i] = c PROVE \E k \in Before(q) : End(q, k) = c
    <2>1. Len(q) - i \in Before(q) /\ Len(q) - (Len(q) - i) = i
      BY DEF Before
    <2>2. QED
      BY <1>1, <2>1 DEF End
  <1>2. ASSUME NEW k \in Before(q), End(q, k) = c PROVE Occurs(c, q)
    <2>1. Len(q) - k \in 1 .. Len(q)
      BY DEF Before
    <2>2. QED
      BY <1>2, <2>1 DEF End, Occurs
  <1>3. QED
    BY <1>1, <1>2 DEF Occurs

LEMMA RestPlaces ==
    ASSUME NEW q \in Seq(CommandSet), NEW r, NEW n \in Nat, Rest(r, q, n)
    PROVE  /\ \A k \in Before(r) : k \in Before(q) /\ k < Len(q) - n /\ End(r, k) = End(q, k)
           /\ \A k \in Before(q) : k < Len(q) - n => k \in Before(r) /\ End(r, k) = End(q, k)
  <1>1. Len(r) \in Nat /\ Len(q) \in Nat /\ Len(q) = Len(r) + n
    BY RestIndices DEF Rest
  <1>2. ASSUME NEW k \in Before(r)
        PROVE  k \in Before(q) /\ k < Len(q) - n /\ End(r, k) = End(q, k)
    <2>1. k \in Before(q) /\ k < Len(q) - n /\ Len(r) - k \in 1 .. Len(r)
          /\ (Len(r) - k) + n = Len(q) - k
      BY <1>1 DEF Before
    <2>2. r[Len(r) - k] = q[(Len(r) - k) + n]
      BY <2>1, RestIndices
    <2>3. QED
      BY <2>1, <2>2 DEF End
  <1>3. ASSUME NEW k \in Before(q), k < Len(q) - n PROVE k \in Before(r)
    BY <1>1, <1>3 DEF Before
  <1>4. QED
    BY <1>2, <1>3

LEMMA JoinedPlaces ==
    ASSUME NEW p \in Seq(CommandSet), NEW q \in Seq(CommandSet)
    PROVE  /\ Len(p \o q) = Len(p) + Len(q) /\ Len(p) \in Nat /\ Len(q) \in Nat
           /\ \A k \in Before(q) : k \in Before(p \o q) /\ End(p \o q, k) = End(q, k)
           /\ \A k \in Before(p) :
                Len(q) + k \in Before(p \o q) /\ End(p \o q, Len(q) + k) = End(p, k)
           /\ \A k \in Before(p \o q) :
                k \in Before(q) \/ (k >= Len(q) /\ k - Len(q) \in Before(p))
  <1> DEFINE s == p \o q
  <1>1. /\ Len(s) = Len(p) + Len(q) /\ Len(p) \in Nat /\ Len(q) \in Nat
        /\ \A i \in 1 .. Len(p) : s[i] = p[i]
        /\ \A i \in 1 .. Len(q) : s[Len(p) + i] = q[i]
    BY Concatenation
  <1> HIDE DEF s
  <1>2. ASSUME NEW k \in Before(q) PROVE k \in Before(s) /\ End(s, k) = End(q, k)
    <2>1. k \in Before(s) /\ Len(q) - k \in 1 .. Len(q)
          /\ Len(s) - k = Len(p) + (Len(q) - k)
      BY <1>1 DEF Before
    <2>2. QED
      BY <1>1, <2>1 DEF End
  <1>3. ASSUME NEW k \in Before(p)
        PROVE  Len(q) + k \in Before(s) /\ End(s, Len(q) + k) = End(p, k)
    <2>1. Len(q) + k \in Before(s) /\ Len(p) - k \in 1 .. Len(p)
          /\ Len(s) - (Len(q) + k) = Len(p) - k
      BY <1>1 DEF Before
    <2>2. QED
      BY <1>1, <2>1 DEF End
  <1>4. ASSUME NEW k \in Before(s)
        PROVE  k \in Before(q) \/ (k >= Len(q) /\ k - Len(q) \in Before(p))
    BY <1>1 DEF Before
  <1>5. QED
    BY <1>1, <1>2, <1>3, <1>4 DEF s

\* The commands of dnsmasq, and how many they are.
LEMMA DNSCommands ==
    /\ ApplyVPNDNS \in Seq(CommandSet) /\ ApplyDirectDNS \in Seq(CommandSet)
    /\ Len(ApplyVPNDNS) = 6 /\ Len(ApplyDirectDNS) = 6
    /\ ApplyDirectDNS[1] = ForgetCmd /\ ApplyDirectDNS[2] = CompareCmd
    /\ ApplyDirectDNS[3] = WriteCmd /\ ApplyDirectDNS[4] = TestCmd
    /\ ApplyDirectDNS[5] = RestartCmd /\ ApplyDirectDNS[6] = RememberCmd
    /\ \A i \in 1 .. 6 : ApplyVPNDNS[i] \in Inserted
  <1> DEFINE e == writeDnsmasqConfig
  <1>1. e = <<CompareCmd, WriteCmd, TestCmd, RestartCmd, RememberCmd>>
    BY DEF writeDnsmasqConfig, CompareCmd, WriteCmd, TestCmd, RestartCmd, RememberCmd
  <1>2. ApplyVPNDNS = <<ReadCmd>> \o e /\ ApplyDirectDNS = <<ForgetCmd>> \o e
    BY DEF ApplyVPNDNS, ApplyDirectDNS, ReadCmd, ForgetCmd
  <1>3. /\ e \in Seq(CommandSet) /\ Len(e) = 5 /\ e[1] = CompareCmd /\ e[2] = WriteCmd
        /\ e[3] = TestCmd /\ e[4] = RestartCmd /\ e[5] = RememberCmd
    BY <1>1, PlainCommands
  <1>4. ASSUME NEW c \in {ReadCmd, ForgetCmd}
        PROVE  /\ <<c>> \o e \in Seq(CommandSet) /\ Len(<<c>> \o e) = 6
               /\ (<<c>> \o e)[1] = c /\ \A i \in 1 .. 5 : (<<c>> \o e)[1 + i] = e[i]
    <2> DEFINE p == <<c>>
    <2>1. p \in Seq(CommandSet) /\ Len(p) = 1 /\ p[1] = c /\ 1 \in 1 .. 1
      BY PlainCommands
    <2> HIDE DEF e, p
    <2>2. /\ p \o e \in Seq(CommandSet) /\ Len(p \o e) = 6 /\ (p \o e)[1] = c
          /\ \A i \in 1 .. 5 : (p \o e)[1 + i] = e[i]
      <3> DEFINE s == p \o e
      <3>1. /\ s \in Seq(CommandSet) /\ Len(s) = Len(p) + Len(e)
            /\ \A i \in 1 .. Len(p) : s[i] = p[i]
            /\ \A i \in 1 .. Len(e) : s[Len(p) + i] = e[i]
        BY <1>3, <2>1, Concatenation
      <3> HIDE DEF s
      <3>2. s \in Seq(CommandSet) /\ Len(s) = 6 /\ s[1] = c /\ \A i \in 1 .. 5 : s[1 + i] = e[i]
        BY <1>3, <2>1, <3>1
      <3>3. QED
        BY <3>2 DEF s
    <2>3. QED
      BY <2>2 DEF p
  <1> HIDE DEF e
  <1>5. /\ 1 \in 1 .. 5 /\ 2 \in 1 .. 5 /\ 3 \in 1 .. 5 /\ 4 \in 1 .. 5 /\ 5 \in 1 .. 5
        /\ \A i \in 1 .. 6 : i \in {1, 1 + 1, 1 + 2, 1 + 3, 1 + 4, 1 + 5}
    OBVIOUS
  <1>6. /\ ApplyDirectDNS[1 + 1] = CompareCmd /\ ApplyDirectDNS[1 + 2] = WriteCmd
        /\ ApplyDirectDNS[1 + 3] = TestCmd /\ ApplyDirectDNS[1 + 4] = RestartCmd
        /\ ApplyDirectDNS[1 + 5] = RememberCmd
    BY <1>2, <1>3, <1>4, <1>5
  <1>7. /\ ApplyVPNDNS[1 + 1] = CompareCmd /\ ApplyVPNDNS[1 + 2] = WriteCmd
        /\ ApplyVPNDNS[1 + 3] = TestCmd /\ ApplyVPNDNS[1 + 4] = RestartCmd
        /\ ApplyVPNDNS[1 + 5] = RememberCmd /\ ApplyVPNDNS[1] = ReadCmd
    BY <1>2, <1>3, <1>4, <1>5
  <1>8. QED
    BY <1>2, <1>4, <1>5, <1>6, <1>7 DEF Inserted

-----------------------------------------------------------------------------
(* One command.                                                            *)

LEMMA RestLeaves ==
    ASSUME NEW q \in Seq(CommandSet), NEW r, NEW n \in Nat \ {0}, n <= Len(q), Rest(r, q, n),
           \A i \in 1 .. n : i = 1 \/ q[i] \in Writing
    PROVE  Leaves(q, r)
  <1>1. ASSUME NEW k \in Before(q), k >= Len(q) - n, k # Len(q) - 1
        PROVE  End(q, k) \in Writing
    <2>1. Len(q) - k \in 1 .. n /\ Len(q) - k # 1
      BY <1>1 DEF Before
    <2>2. QED
      BY <2>1 DEF End
  <1>2. \A k \in Before(r) : k \in Before(q) /\ k < Len(q) - n /\ End(r, k) = End(q, k)
    BY RestPlaces
  <1>3. \A k \in Before(q) : k < Len(q) - n => k \in Before(r) /\ End(r, k) = End(q, k)
    BY RestPlaces
  <1>4. \A k \in Before(q) : k < Len(q) - n => k < Len(q) - 1
    BY DEF Before
  <1>5. \A k \in Before(q) : k < Len(q) - n \/ k >= Len(q) - n
    BY DEF Before
  <1>6. QED
    BY <1>1, <1>2, <1>3, <1>4, <1>5 DEF Leaves

LEMMA TailLeaves ==
    ASSUME NEW q \in Seq(CommandSet), q # <<>>
    PROVE  Leaves(q, Tail(q))
  <1>1. Rest(Tail(q), q, 1) /\ 1 <= Len(q)
    BY TailIsRest
  <1>2. \A i \in 1 .. 1 : i = 1
    OBVIOUS
  <1>3. QED
    BY <1>1, <1>2, RestLeaves

LEMMA ZonesLeaves ==
    ASSUME NEW q \in Seq(CommandSet), q # <<>>, q[1] = ZonesCmd
    PROVE  Leaves(q, ApplyVPNDNS \o Tail(q)) /\ Len(ApplyVPNDNS \o Tail(q)) = Len(q) + 5
  <1> DEFINE d == ApplyVPNDNS
             t == Tail(q)
             r == d \o t
  <1>1. /\ d \in Seq(CommandSet) /\ Len(d) = 6 /\ \A i \in 1 .. 6 : d[i] \in Inserted
        /\ t \in Seq(CommandSet) /\ Len(t) = Len(q) - 1 /\ Len(q) \in Nat \ {0}
        /\ Rest(t, q, 1)
    BY DNSCommands, TailIsRest DEF Rest
  <1> HIDE DEF d, t
  <1>2. /\ Len(r) = Len(d) + Len(t)
        /\ \A k \in Before(t) : k \in Before(r) /\ End(r, k) = End(t, k)
        /\ \A k \in Before(d) : Len(t) + k \in Before(r) /\ End(r, Len(t) + k) = End(d, k)
        /\ \A k \in Before(r) : k \in Before(t) \/ (k >= Len(t) /\ k - Len(t) \in Before(d))
    BY <1>1, JoinedPlaces
  <1>3. /\ \A k \in Before(t) : k \in Before(q) /\ k < Len(q) - 1 /\ End(t, k) = End(q, k)
        /\ \A k \in Before(q) : k < Len(q) - 1 => k \in Before(t) /\ End(t, k) = End(q, k)
    BY <1>1, RestPlaces
  <1> HIDE DEF r
  <1>4. \A k \in Before(d) : End(d, k) \in Inserted
    <2> SUFFICES ASSUME NEW k \in Before(d) PROVE End(d, k) \in Inserted
      OBVIOUS
    <2>1. Len(d) - k \in 1 .. 6
      BY <1>1 DEF Before
    <2>2. QED
      BY <1>1, <2>1 DEF End
  <1>5. ASSUME NEW k \in Before(r), k \notin Before(t)
        PROVE  k >= Len(q) - 1 /\ End(r, k) \in Inserted
    <2>1. k >= Len(t) /\ k - Len(t) \in Before(d) /\ Len(t) + (k - Len(t)) = k
      BY <1>1, <1>2, <1>5 DEF Before
    <2>2. End(r, k) = End(d, k - Len(t))
      BY <1>2, <2>1
    <2>3. QED
      BY <1>1, <1>4, <2>1, <2>2
  <1>6. \A k \in Before(q) : k < Len(q) - 1 \/ k = Len(q) - 1
    BY <1>1 DEF Before
  <1>7. Leaves(q, r)
    BY <1>2, <1>3, <1>5, <1>6 DEF Leaves
  <1>8. Len(r) = Len(q) + 5
    BY <1>1, <1>2
  <1>9. QED
    BY <1>7, <1>8 DEF r, d, t

\* The three ways in which a command changes what its goroutine has left to do.
Returns(w) ==
    /\ ReturnFromWrite(w) /\ Leaves(todo[w], todo'[w])
    /\ \E n \in {2, 3, 4, 5} :
         n <= Len(todo[w]) /\ Rest(todo'[w], todo[w], n)
           /\ (\A i \in 1 .. n : todo[w][i] \in Writing)
    /\ (Compare(w) /\ conf[w] = lastDnsmasqConfig) \/ (WriteFails(w) /\ ~clean'[w])

Inserts(w) ==
    /\ todo[w][1] = ZonesCmd /\ Leaves(todo[w], todo'[w])
    /\ Len(todo'[w]) = Len(todo[w]) + 5

Moves(w) == todo'[w] = Tail(todo[w]) /\ Leaves(todo[w], todo'[w])

LEMMA StepLeaves ==
    ASSUME ShapeInv, clean \in [Workers -> BOOLEAN], NEW w \in Workers, Command(w)
    PROVE  Moves(w) \/ Inserts(w) \/ Returns(w)
  <1>1. /\ Busy(w) /\ todo[w] \in Seq(CommandSet) /\ todo[w] # <<>> /\ JobShape(todo[w])
        /\ todo[w][1] \in CommandSet /\ \A name : Does(w, name) <=> todo[w][1][1] = name
        /\ todo \in [Workers -> Seq(CommandSet)]
    BY CommandSteps, Commanded DEF ShapeInv, TypeInv
  <1>2. CASE Done(w)
    <2>1. todo'[w] = Tail(todo[w])
      BY <1>1, <1>2 DEF Done
    <2>2. QED
      BY <1>1, <2>1, TailLeaves DEF Moves
  <1>3. ASSUME ReturnFromWrite(w), \/ Compare(w) /\ conf[w] = lastDnsmasqConfig
                                   \/ WriteFails(w)
        PROVE  Returns(w)
    <2>1. Does(w, "compare") \/ Does(w, "write") \/ Does(w, "test") \/ Does(w, "restart")
      BY <1>3 DEF Compare, WriteFails
    <2>2. todo[w][1] \in {CompareCmd, WriteCmd, TestCmd, RestartCmd}
      BY <1>1, <2>1, NamesAreUnique
    <2>3. todo'[w] = AfterWrite(w)
      BY <1>1, <1>3 DEF ReturnFromWrite
    <2>4. PICK n \in {2, 3, 4, 5} :
            n <= Len(todo[w]) /\ Rest(todo'[w], todo[w], n)
              /\ (\A i \in 1 .. n : todo[w][i] \in Writing)
      BY <1>1, <2>2, <2>3, ReturnRest
    <2>5. Leaves(todo[w], todo'[w])
      BY <1>1, <2>4, RestLeaves
    <2>6. WriteFails(w) => ~clean'[w]
      BY DEF WriteFails
    <2>7. QED
      BY <1>3, <2>4, <2>5, <2>6 DEF Returns
  <1>4. CASE CheckZones(w) /\ todo' = [todo EXCEPT ![w] = ApplyVPNDNS \o Tail(@)]
    <2>1. todo[w][1] = ZonesCmd
      BY <1>1, <1>4, NamesAreUnique DEF CheckZones
    <2>2. todo'[w] = ApplyVPNDNS \o Tail(todo[w])
      BY <1>1, <1>4
    <2>3. QED
      BY <1>1, <2>1, <2>2, ZonesLeaves DEF Inserts
  <1>5. \/ Done(w)
        \/ /\ ReturnFromWrite(w)
           /\ (Compare(w) /\ conf[w] = lastDnsmasqConfig) \/ WriteFails(w)
        \/ CheckZones(w) /\ todo' = [todo EXCEPT ![w] = ApplyVPNDNS \o Tail(@)]
    BY Zenon DEF Command, RunFlush, RunAppend, DeleteJump, InsertJump, Clamp, Accept, CheckZones,
             ReadVPNDNS, Forget, Compare, Write, Test, Restart, WriteFails, Serve, ServeFails, Remember
  <1>6. QED
    BY <1>2, <1>3, <1>4, <1>5

-----------------------------------------------------------------------------
(* The jobs, from their ends.                                              *)

Longest == Len(Boot \o ApplyVPNNAT \o ApplyVPNDNS)

\* Room for the commands that a search for the zones may still put in.
Room(q) ==
    /\ Len(q) <= Longest
    /\ \A k \in Before(q) : End(q, k) = ZonesCmd => k + 6 <= Longest

\* The clamps of a job come right before its commands of dnsmasq.
ClampPlaces == {7, 8}
ClampsLast(q) == \A k \in Before(q) : End(q, k) = ClampCmd => k \in ClampPlaces

Target(chain, j) == IF chain = "nat" THEN NATOf(j) ELSE ForwardOf(j)
Adds(q, chain) == {r \in RulesOf(chain) : Occurs(Append1(chain, r), q)}

\* A chain is flushed before anything is appended to it.
FlushFirst(q, chain) ==
    \A k \in Before(q) : End(q, k) = Flush(chain) =>
        \A m \in Before(q) : m >= k => \A r \in RulesOf(chain) : End(q, m) # Append1(chain, r)

\* What q makes of a chain that holds these rules.
Sets(q, chain, have, want) ==
    /\ FlushFirst(q, chain)
    /\ Occurs(Flush(chain), q) => Adds(q, chain) = want
    /\ ~Occurs(Flush(chain), q) => have \cup Adds(q, chain) = want

\* The last commands are those of ApplyDirectDNS, or what is left of them.
DirectTail(q) == \A k \in Before(q) : k < 6 => End(q, k) = ApplyDirectDNS[6 - k]

\* Parts of a job that leave both chains and the clamps alone.
RouterCommands ==
    {ClampCmd} \cup {Flush(chain) : chain \in RouterChains}
    \cup UNION {{Append1(chain, r) : r \in RulesOf(chain)} : chain \in RouterChains}
Clear(q) == \A c \in RouterCommands : ~Occurs(c, q)

LEMMA ClearJoin ==
    ASSUME NEW p \in Seq(CommandSet), NEW q \in Seq(CommandSet), Clear(p), Clear(q)
    PROVE  Clear(p \o q)
  BY OccursInConcatenation DEF Clear

LEMMA RouterCommandsAre ==
    /\ ClampCmd \in RouterCommands
    /\ \A chain \in RouterChains : Flush(chain) \in RouterCommands
    /\ \A chain \in RouterChains : \A r \in RulesOf(chain) : Append1(chain, r) \in RouterCommands
    /\ \A c \in RouterCommands :
         \/ c = ClampCmd
         \/ \E chain \in RouterChains : c = Flush(chain)
         \/ \E chain \in RouterChains : \E r \in RulesOf(chain) : c = Append1(chain, r)
  BY DEF RouterCommands

\* What is no such command.
LEMMA OthersAreClear ==
    /\ {DeleteCmd, InsertCmd, ZonesCmd, ReadCmd, ForgetCmd, CompareCmd, WriteCmd, TestCmd,
        RestartCmd, RememberCmd, ServeCmd, Flush("in"), Append1("in", "mgmt"),
        Append1("in", "ifaces")} \cap RouterCommands = {}
  <1>1. "in" \notin RouterChains
    BY DEF RouterChains
  <1>2. ASSUME NEW c \in RouterCommands
        PROVE  c[1] \in {"clamp", "flush", "append"} /\ (c[1] # "clamp" => c[2] # "in")
    BY <1>1, RouterCommandsAre, CommandNames
  <1>3. QED
    BY <1>2, CommandNames

LEMMA ClearParts ==
    /\ Boot \in Seq(CommandSet) /\ Clear(Boot)
    /\ MaintainManagementAccess \in Seq(CommandSet) /\ Clear(MaintainManagementAccess)
    /\ ensureManagementFirewall \in Seq(CommandSet) /\ Clear(ensureManagementFirewall)
    /\ Clear(ApplyVPNDNS) /\ Clear(ApplyDirectDNS)
    /\ Len(MaintainManagementAccess) <= Len(Boot)
    /\ Len(MaintainManagementAccess) \in Nat /\ Len(Boot) \in Nat
  <1> DEFINE plain == {DeleteCmd, InsertCmd, ZonesCmd, ReadCmd, ForgetCmd, CompareCmd,
                       WriteCmd, TestCmd, RestartCmd, RememberCmd, ServeCmd, Flush("in"),
                       Append1("in", "mgmt"), Append1("in", "ifaces")}
  <1>1. ASSUME NEW q \in Seq(CommandSet), \A i \in 1 .. Len(q) : q[i] \in plain PROVE Clear(q)
    BY <1>1, OthersAreClear DEF Clear, Occurs
  <1>2. ensureManagementFirewall \in Seq(CommandSet) /\ Clear(ensureManagementFirewall)
    <2>1. ensureManagementFirewall =
            <<Flush("in"), Append1("in", "mgmt"), Append1("in", "ifaces"), DeleteCmd, InsertCmd>>
      BY DEF ensureManagementFirewall, DeleteCmd, InsertCmd
    <2>2. \A i \in 1 .. 5 : i \in {1, 2, 3, 4, 5}
      OBVIOUS
    <2>3. ensureManagementFirewall \in Seq(CommandSet)
      BY MaintenancePart DEF Part, PartShape
    <2>4. \A i \in 1 .. Len(ensureManagementFirewall) : ensureManagementFirewall[i] \in plain
      BY <2>1, <2>2
    <2>5. QED
      BY <1>1, <2>3, <2>4
  <1>3. /\ <<ZonesCmd>> \in Seq(CommandSet) /\ Clear(<<ZonesCmd>>)
        /\ <<ZonesCmd, ServeCmd>> \in Seq(CommandSet) /\ Clear(<<ZonesCmd, ServeCmd>>)
        /\ Len(<<ZonesCmd, ServeCmd>>) = 2
    <2>1. <<ZonesCmd>> \in Seq(CommandSet)
          /\ \A i \in 1 .. Len(<<ZonesCmd>>) : <<ZonesCmd>>[i] \in plain
      BY PlainCommands
    <2>2. <<ZonesCmd, ServeCmd>> \in Seq(CommandSet) /\ Len(<<ZonesCmd, ServeCmd>>) = 2
      BY PlainCommands
    <2>3. \A i \in 1 .. 2 : <<ZonesCmd, ServeCmd>>[i] \in plain
      <3>1. \A i \in 1 .. 2 : i \in {1, 2}
        OBVIOUS
      <3>2. QED
        BY <3>1
    <2>4. QED
      BY <1>1, <2>1, <2>2, <2>3
  <1> HIDE DEF plain
  <1>4. MaintainManagementAccess \in Seq(CommandSet) /\ Clear(MaintainManagementAccess)
    <2>1. MaintainManagementAccess = ensureManagementFirewall \o <<ZonesCmd>>
      BY DEF MaintainManagementAccess, ZonesCmd
    <2>2. QED
      BY <1>2, <1>3, <2>1, ClearJoin, Concatenation
  <1>5. /\ Boot \in Seq(CommandSet) /\ Clear(Boot)
        /\ Len(MaintainManagementAccess) <= Len(Boot)
        /\ Len(MaintainManagementAccess) \in Nat /\ Len(Boot) \in Nat
    <2> DEFINE m == ensureManagementFirewall \o MaintainManagementAccess
    <2> DEFINE e == <<ZonesCmd, ServeCmd>>
    <2>1. Boot = m \o e
      BY DEF Boot, ZonesCmd, ServeCmd
    <2>2. /\ m \in Seq(CommandSet) /\ Clear(m)
          /\ Len(m) = Len(ensureManagementFirewall) + Len(MaintainManagementAccess)
          /\ Len(ensureManagementFirewall) \in Nat /\ Len(MaintainManagementAccess) \in Nat
      BY <1>2, <1>4, ClearJoin, Concatenation
    <2>3. e \in Seq(CommandSet) /\ Clear(e) /\ Len(e) = 2
      BY <1>3
    <2> HIDE DEF m, e
    <2>4. /\ m \o e \in Seq(CommandSet) /\ Clear(m \o e)
          /\ Len(m \o e) = Len(m) + Len(e)
      BY <2>2, <2>3, ClearJoin, Concatenation
    <2>5. QED
      BY <2>1, <2>2, <2>3, <2>4
  <1>6. Clear(ApplyVPNDNS)
    BY <1>1, DNSCommands DEF Inserted, plain
  <1>7. Clear(ApplyDirectDNS)
    <2>1. \A i \in 1 .. 6 : i \in {1, 2, 3, 4, 5, 6}
      OBVIOUS
    <2>2. \A i \in 1 .. Len(ApplyDirectDNS) : ApplyDirectDNS[i] \in plain
      BY <2>1, DNSCommands DEF plain
    <2>3. QED
      BY <1>1, <2>2, DNSCommands
  <1>8. QED
    BY <1>2, <1>4, <1>5, <1>6, <1>7

\* Which rules a job appends, after the prologue that has flushed its chains.
Appended(j) ==
    IF j = "vpn"
      THEN << Append1("nat", "tun"), Append1("nat", "wan"),
              Append1("fwd", "lan-tun"), Append1("fwd", "tun-lan"),
              Append1("fwd", "lan-wan"), Append1("fwd", "wan-lan"),
              ClampCmd, ClampCmd, AcceptCmd >>
      ELSE << Append1("nat", "wan"), Append1("fwd", "lan-wan"), Append1("fwd", "wan-lan") >>
DNSOf(j) == IF j = "vpn" THEN ApplyVPNDNS ELSE ApplyDirectDNS

LEMMA AppendedIs ==
    ASSUME NEW j \in {"direct", "vpn"}
    PROVE  /\ Appended(j) \in Seq(CommandSet) /\ Len(Appended(j)) \in Nat
           /\ Len(Appended(j)) <= Len(Appended("vpn")) /\ Len(Appended("vpn")) \in Nat
           /\ \A chain \in RouterChains :
                Adds(Appended(j), chain) = Target(chain, j) /\ ~Occurs(Flush(chain), Appended(j))
           /\ \A k \in Before(Appended(j)) : End(Appended(j), k) = ClampCmd => k \in {1, 2}
  <1>0. /\ \A i \in 1 .. 9 : i \in {1, 2, 3, 4, 5, 6, 7, 8, 9}
        /\ \A i \in 1 .. 3 : i \in {1, 2, 3}
        /\ \A k \in 0 .. 8 : 9 - k \in {7, 8} => k \in {1, 2}
        /\ \A k \in 0 .. 8 : 9 - k \in 1 .. 9
        /\ \A k \in 0 .. 2 : 3 - k \in 1 .. 3
    OBVIOUS
  <1>1. /\ ForwardWAN \subseteq RulesOf("fwd") /\ ForwardTunnel \subseteq RulesOf("fwd")
        /\ {"wan", "tun"} \subseteq RulesOf("nat") /\ RouterChains \subseteq Chains
    BY DEF RulesOf, RouterChains, Chains
  <1>2. CASE j = "direct"
    <2> DEFINE a == << Append1("nat", "wan"), Append1("fwd", "lan-wan"),
                       Append1("fwd", "wan-lan") >>
    <2>1. a \in Seq(CommandSet) /\ Len(a) = 3 /\ a[1] = Append1("nat", "wan")
          /\ a[2] = Append1("fwd", "lan-wan") /\ a[3] = Append1("fwd", "wan-lan")
      BY DEF CommandSet, Appends, Chains, RulesOf, ForwardWAN
    <2> HIDE DEF a
    <2>2. \A c : Occurs(c, a) <=> c \in {Append1("nat", "wan"), Append1("fwd", "lan-wan"),
                                         Append1("fwd", "wan-lan")}
      <3>1. 1 \in 1 .. 3 /\ 2 \in 1 .. 3 /\ 3 \in 1 .. 3
        OBVIOUS
      <3>2. QED
        BY <1>0, <2>1, <3>1 DEF Occurs
    <2>3. \A r : /\ Occurs(Append1("nat", r), a) <=> r = "wan"
                 /\ Occurs(Append1("fwd", r), a) <=> r \in ForwardWAN
      BY <2>2, CommandsDiffer DEF ForwardWAN
    <2>4. Adds(a, "nat") = {"wan"} /\ Adds(a, "fwd") = ForwardWAN
      BY <1>1, <2>3 DEF Adds
    <2>5. \A chain \in RouterChains : Adds(a, chain) = Target(chain, "direct")
      BY <2>4 DEF RouterChains, Target, NATOf, ForwardOf
    <2>6. \A c : ~Occurs(Flush(c), a)
      BY <2>2, CommandsDiffer
    <2>7. \A k \in Before(a) : End(a, k) # ClampCmd
      <3>1. ~Occurs(ClampCmd, a)
        BY <2>2, CommandsDiffer
      <3>2. QED
        BY <2>1, <3>1, OccursInPlace
    <2>8. Len(Appended("vpn")) = 9
      BY DEF Appended
    <2>9. Appended(j) = a
      BY <1>2 DEF Appended, a
    <2>10. Len(a) \in Nat /\ Len(a) <= Len(Appended("vpn")) /\ Len(Appended("vpn")) \in Nat
      <3>1. 3 \in Nat /\ 9 \in Nat /\ 3 <= 9
        OBVIOUS
      <3>2. QED
        BY <2>1, <2>8, <3>1, Zenon
    <2>11. QED
      BY <1>2, <2>1, <2>5, <2>6, <2>7, <2>9, <2>10, Zenon
  <1>3. CASE j = "vpn"
    <2> DEFINE a == << Append1("nat", "tun"), Append1("nat", "wan"),
              Append1("fwd", "lan-tun"), Append1("fwd", "tun-lan"),
              Append1("fwd", "lan-wan"), Append1("fwd", "wan-lan"),
              ClampCmd, ClampCmd, AcceptCmd >>
    <2>1. a \in Seq(CommandSet) /\ Len(a) = 9
          /\ a[1] = Append1("nat", "tun") /\ a[2] = Append1("nat", "wan")
          /\ a[3] = Append1("fwd", "lan-tun") /\ a[4] = Append1("fwd", "tun-lan")
          /\ a[5] = Append1("fwd", "lan-wan") /\ a[6] = Append1("fwd", "wan-lan")
          /\ a[7] = ClampCmd /\ a[8] = ClampCmd /\ a[9] = AcceptCmd
      BY DEF CommandSet, Appends, Chains, RulesOf, ForwardWAN, ForwardTunnel
    <2> HIDE DEF a
    <2>2. \A c : Occurs(c, a) <=>
                   c \in {Append1("nat", "tun"), Append1("nat", "wan"),
                          Append1("fwd", "lan-tun"), Append1("fwd", "tun-lan"),
                          Append1("fwd", "lan-wan"), Append1("fwd", "wan-lan"), ClampCmd,
                          AcceptCmd}
      <3>1. /\ 1 \in 1 .. 9 /\ 2 \in 1 .. 9 /\ 3 \in 1 .. 9 /\ 4 \in 1 .. 9
            /\ 5 \in 1 .. 9 /\ 6 \in 1 .. 9 /\ 7 \in 1 .. 9 /\ 9 \in 1 .. 9
        OBVIOUS
      <3>2. QED
        BY <1>0, <2>1, <3>1 DEF Occurs
    <2>3. \A r : /\ Occurs(Append1("nat", r), a) <=> r \in {"tun", "wan"}
                 /\ Occurs(Append1("fwd", r), a) <=> r \in ForwardTunnel \cup ForwardWAN
      BY <2>2, CommandsDiffer DEF ForwardWAN, ForwardTunnel
    <2>4. Adds(a, "nat") = {"tun", "wan"} /\ Adds(a, "fwd") = ForwardTunnel \cup ForwardWAN
      BY <1>1, <2>3 DEF Adds
    <2>5. \A chain \in RouterChains : Adds(a, chain) = Target(chain, "vpn")
      BY <2>4 DEF RouterChains, Target, NATOf, ForwardOf
    <2>6. \A c : ~Occurs(Flush(c), a)
      BY <2>2, CommandsDiffer
    <2>7. \A i \in 1 .. 9 : a[i] = ClampCmd => i \in {7, 8}
      <3>1. ClampCmd # AcceptCmd
        BY CommandNames
      <3>2. QED
        BY <1>0, <2>1, <3>1, CommandsDiffer
    <2>8. \A k \in Before(a) : End(a, k) = ClampCmd => k \in {1, 2}
      BY <1>0, <2>1, <2>7 DEF Before, End
    <2>9. Appended("vpn") = a
      BY DEF Appended, a
    <2>10. QED
      BY <1>3, <2>1, <2>5, <2>6, <2>8, <2>9
  <1>4. QED
    BY <1>2, <1>3

LEMMA PrologueIs ==
    /\ Prologue \in Seq(CommandSet) /\ ~Occurs(ClampCmd, Prologue)
    /\ \A chain \in RouterChains :
         /\ Occurs(Flush(chain), Prologue)
         /\ \A r \in RulesOf(chain) : ~Occurs(Append1(chain, r), Prologue)
  <1> DEFINE f == << Flush("fwd"), Flush("nat") >>
             m == ensureManagementFirewall \o MaintainManagementAccess
  <1>1. f \in Seq(CommandSet) /\ \A c : Occurs(c, f) <=> c \in {Flush("fwd"), Flush("nat")}
    <2>1. Flush("fwd") \in CommandSet /\ Flush("nat") \in CommandSet
      BY DEF CommandSet, Flushes, Chains
    <2>2. f \in Seq(CommandSet) /\ Len(f) = 2 /\ f[1] = Flush("fwd") /\ f[2] = Flush("nat")
      BY <2>1
    <2> HIDE DEF f
    <2>3. 1 \in 1 .. 2 /\ 2 \in 1 .. 2 /\ \A i \in 1 .. 2 : i \in {1, 2}
      OBVIOUS
    <2>4. QED
      BY <2>2, <2>3 DEF Occurs
  <1>2. m \in Seq(CommandSet) /\ Clear(m)
    BY ClearParts, ClearJoin, Concatenation
  <1>3. Prologue = (f \o ensureManagementFirewall) \o MaintainManagementAccess
    BY DEF Prologue
  <1> HIDE DEF f
  <1>4. /\ f \o ensureManagementFirewall \in Seq(CommandSet) /\ Prologue \in Seq(CommandSet)
        /\ \A c : Occurs(c, Prologue) <=>
             \/ Occurs(c, f)
             \/ Occurs(c, ensureManagementFirewall) \/ Occurs(c, MaintainManagementAccess)
    <2>1. f \o ensureManagementFirewall \in Seq(CommandSet)
      BY <1>1, ClearParts, Concatenation
    <2>2. Prologue \in Seq(CommandSet)
      BY <1>3, <2>1, ClearParts, Concatenation
    <2>3. QED
      BY <1>1, <1>3, <2>1, <2>2, ClearParts, OccursInConcatenation
  <1>5. \A c \in RouterCommands : Occurs(c, Prologue) <=> c \in {Flush("fwd"), Flush("nat")}
    BY <1>1, <1>4, ClearParts DEF Clear
  <1>6. QED
    BY <1>4, <1>5, RouterCommandsAre, CommandsDiffer DEF RouterChains

LEMMA JobSplits ==
    ASSUME NEW j \in {"direct", "vpn"}
    PROVE  /\ Commands(j) = (Prologue \o Appended(j)) \o DNSOf(j)
           /\ DNSOf(j) \in Seq(CommandSet) /\ Len(DNSOf(j)) = 6 /\ Clear(DNSOf(j))
           /\ Prologue \o Appended(j) \in Seq(CommandSet) /\ Commands(j) \in Seq(CommandSet)
           /\ Len(Commands(j)) = Len(Prologue) + Len(Appended(j)) + 6
           /\ Len(Prologue) \in Nat /\ Len(Appended(j)) \in Nat
  <1>1. Commands(j) = (Prologue \o Appended(j)) \o DNSOf(j)
    <2>1. CASE j = "direct"
      BY <2>1 DEF Commands, ApplyDirectNAT, Appended, DNSOf
    <2>2. CASE j = "vpn"
      BY <2>2 DEF Commands, ApplyVPNNAT, Appended, DNSOf, ClampCmd, AcceptCmd
    <2>3. QED
      BY <2>1, <2>2
  <1>2. DNSOf(j) \in Seq(CommandSet) /\ Len(DNSOf(j)) = 6 /\ Clear(DNSOf(j))
    BY DNSCommands, ClearParts DEF DNSOf
  <1>3. /\ Prologue \o Appended(j) \in Seq(CommandSet)
        /\ Len(Prologue \o Appended(j)) = Len(Prologue) + Len(Appended(j))
        /\ Len(Prologue) \in Nat /\ Len(Appended(j)) \in Nat
    BY PrologueIs, AppendedIs, Concatenation
  <1>4. /\ Commands(j) \in Seq(CommandSet)
        /\ Len(Commands(j)) = Len(Prologue \o Appended(j)) + Len(DNSOf(j))
    <2> DEFINE s == Prologue \o Appended(j)
               d == DNSOf(j)
    <2>1. s \in Seq(CommandSet) /\ d \in Seq(CommandSet)
      BY <1>2, <1>3
    <2> HIDE DEF s, d
    <2>2. s \o d \in Seq(CommandSet) /\ Len(s \o d) = Len(s) + Len(d)
      BY <2>1, Concatenation
    <2>3. QED
      BY <1>1, <2>2 DEF s, d
  <1>5. QED
    BY <1>1, <1>2, <1>3, <1>4

LEMMA FlushFirstJoin ==
    ASSUME NEW p \in Seq(CommandSet), NEW q \in Seq(CommandSet), NEW chain,
           FlushFirst(p, chain), FlushFirst(q, chain),
           \/ ~Occurs(Flush(chain), q)
           \/ \A r \in RulesOf(chain) : ~Occurs(Append1(chain, r), p)
    PROVE  FlushFirst(p \o q, chain)
  <1> DEFINE s == p \o q
  <1>1. /\ Len(p) \in Nat /\ Len(q) \in Nat
        /\ \A k \in Before(q) : End(s, k) = End(q, k)
        /\ \A k \in Before(p) : End(s, Len(q) + k) = End(p, k)
        /\ \A k \in Before(s) : k \in Before(q) \/ (k >= Len(q) /\ k - Len(q) \in Before(p))
    BY JoinedPlaces
  <1>2. \A k \in Before(s) : k \notin Before(q) => End(s, k) = End(p, k - Len(q))
    <2> SUFFICES ASSUME NEW k \in Before(s), k \notin Before(q)
                 PROVE  End(s, k) = End(p, k - Len(q))
      OBVIOUS
    <2>1. k - Len(q) \in Before(p) /\ k \in Int /\ Len(q) + (k - Len(q)) = k
      BY <1>1 DEF Before
    <2>2. QED
      BY <1>1, <2>1
  <1>3. Before(s) \subseteq Int
    BY DEF Before
  <1> HIDE DEF s
  <1> SUFFICES ASSUME NEW k \in Before(s), End(s, k) = Flush(chain),
                      NEW m \in Before(s), m >= k,
                      NEW r \in RulesOf(chain), End(s, m) = Append1(chain, r)
               PROVE  FALSE
    BY DEF FlushFirst, s
  <1>4. CASE k \in Before(q)
    <2>1. Occurs(Flush(chain), q)
      BY <1>1, <1>4, OccursInPlace
    <2>2. CASE m \in Before(q)
      BY <1>1, <1>4, <2>2 DEF FlushFirst
    <2>3. CASE m \notin Before(q)
      <3>1. m - Len(q) \in Before(p) /\ End(p, m - Len(q)) = Append1(chain, r)
        BY <1>1, <1>2, <2>3
      <3>2. QED
        BY <2>1, <3>1, OccursInPlace
    <2>4. QED
      BY <2>2, <2>3
  <1>5. CASE k \notin Before(q)
    <2>1. k - Len(q) \in Before(p) /\ End(p, k - Len(q)) = Flush(chain) /\ k >= Len(q)
      BY <1>1, <1>2, <1>5
    <2>2. m \notin Before(q) /\ m - Len(q) >= k - Len(q)
      BY <1>1, <1>3, <2>1 DEF Before
    <2>3. m - Len(q) \in Before(p) /\ End(p, m - Len(q)) = Append1(chain, r)
      BY <1>1, <1>2, <2>2
    <2>4. QED
      BY <2>1, <2>2, <2>3 DEF FlushFirst
  <1>6. QED
    BY <1>4, <1>5

\* Without a flush, or without an append, there is nothing to be in order.
LEMMA FlushFirstTrivial ==
    ASSUME NEW q \in Seq(CommandSet), NEW chain,
           \/ ~Occurs(Flush(chain), q)
           \/ \A r \in RulesOf(chain) : ~Occurs(Append1(chain, r), q)
    PROVE  FlushFirst(q, chain)
  BY OccursInPlace DEF FlushFirst

\* Whatever a chain holds, a job sets its rules; so does one that starts the service.
LEMMA JobSets ==
    ASSUME NEW j \in {"direct", "vpn"}, NEW chain \in RouterChains, NEW have
    PROVE  /\ Sets(Commands(j), chain, have, Target(chain, j))
           /\ Sets(Boot \o Commands(j), chain, have, Target(chain, j))
  <1> DEFINE a == Appended(j)
             d == DNSOf(j)
             s == Prologue \o a
             q == Commands(j)
  <1>1. /\ a \in Seq(CommandSet) /\ d \in Seq(CommandSet) /\ s \in Seq(CommandSet)
        /\ q \in Seq(CommandSet) /\ q = s \o d /\ Clear(d) /\ Prologue \in Seq(CommandSet)
        /\ Boot \in Seq(CommandSet) /\ Clear(Boot)
    BY AppendedIs, JobSplits, PrologueIs, ClearParts
  <1>2. /\ Occurs(Flush(chain), Prologue) /\ ~Occurs(Flush(chain), a)
        /\ ~Occurs(Flush(chain), d) /\ ~Occurs(Flush(chain), Boot)
        /\ \A r \in RulesOf(chain) :
             /\ ~Occurs(Append1(chain, r), Prologue) /\ ~Occurs(Append1(chain, r), d)
             /\ ~Occurs(Append1(chain, r), Boot)
        /\ Adds(a, chain) = Target(chain, j)
    BY <1>1, PrologueIs, AppendedIs, RouterCommandsAre DEF Clear
  <1> HIDE DEF a, d, q
  <1>3. FlushFirst(s, chain)
    BY <1>1, <1>2, FlushFirstTrivial, FlushFirstJoin
  <1>4. \A c : Occurs(c, s) <=> Occurs(c, Prologue) \/ Occurs(c, a)
    BY <1>1, OccursInConcatenation
  <1> HIDE DEF s
  <1>5. FlushFirst(q, chain) /\ \A c : Occurs(c, q) <=> Occurs(c, s) \/ Occurs(c, d)
    BY <1>1, <1>2, <1>3, FlushFirstTrivial, FlushFirstJoin, OccursInConcatenation
  <1>6. Occurs(Flush(chain), q) /\ Adds(q, chain) = Target(chain, j)
    BY <1>2, <1>4, <1>5 DEF Adds
  <1>7. FlushFirst(Boot \o q, chain)
        /\ \A c : Occurs(c, Boot \o q) <=> Occurs(c, Boot) \/ Occurs(c, q)
    <2>1. FlushFirst(Boot, chain)
      BY <1>1, <1>2, FlushFirstTrivial
    <2>2. FlushFirst(Boot \o q, chain)
      BY <1>1, <1>2, <1>5, <2>1, FlushFirstJoin
    <2>3. QED
      BY <1>1, <2>2, OccursInConcatenation
  <1>8. Occurs(Flush(chain), Boot \o q) /\ Adds(Boot \o q, chain) = Target(chain, j)
    BY <1>2, <1>6, <1>7 DEF Adds
  <1>9. QED
    BY <1>5, <1>6, <1>7, <1>8 DEF Sets, q

LEMMA ClampsLastJoin ==
    ASSUME NEW p \in Seq(CommandSet), NEW q \in Seq(CommandSet),
           ~Occurs(ClampCmd, p), ClampsLast(q)
    PROVE  ClampsLast(p \o q)
  <1> SUFFICES ASSUME NEW k \in Before(p \o q), End(p \o q, k) = ClampCmd
               PROVE  k \in ClampPlaces
    BY DEF ClampsLast
  <1>1. CASE k \in Before(q)
    BY <1>1, JoinedPlaces DEF ClampsLast
  <1>2. CASE k >= Len(q) /\ k - Len(q) \in Before(p)
    <2>1. Len(q) + (k - Len(q)) = k
      BY JoinedPlaces DEF Before
    <2>2. End(p, k - Len(q)) = ClampCmd
      BY <1>2, <2>1, JoinedPlaces
    <2>3. QED
      BY <1>2, <2>2, OccursInPlace
  <1>3. QED
    BY <1>1, <1>2, JoinedPlaces

\* A sequence that has room for one more search has room for all of its own.
LEMMA ShortHasRoom ==
    ASSUME NEW q \in Seq(CommandSet), Longest \in Nat, Len(q) + 6 <= Longest
    PROVE  Room(q)
  BY DEF Room, Before

LEMMA JobsFit ==
    /\ Longest \in Nat
    /\ \A j \in Jobs : Room(Commands(j)) /\ ClampsLast(Commands(j))
    /\ \A j \in {"direct", "vpn"} : Room(Boot \o Commands(j)) /\ ClampsLast(Boot \o Commands(j))
  <1>1. /\ Boot \in Seq(CommandSet) /\ Len(Boot) \in Nat /\ Clear(Boot)
        /\ MaintainManagementAccess \in Seq(CommandSet) /\ Clear(MaintainManagementAccess)
        /\ Len(MaintainManagementAccess) <= Len(Boot) /\ Len(MaintainManagementAccess) \in Nat
    BY ClearParts
  <1>2. \A j \in {"direct", "vpn"} :
          /\ Commands(j) \in Seq(CommandSet) /\ Len(Commands(j)) \in Nat
          /\ 6 <= Len(Commands(j)) /\ Len(Commands(j)) <= Len(Commands("vpn"))
    <2> TAKE j \in {"direct", "vpn"}
    <2>1. /\ Commands(j) \in Seq(CommandSet) /\ Len(Prologue) \in Nat
          /\ Len(Commands(j)) = Len(Prologue) + Len(Appended(j)) + 6
          /\ Len(Commands("vpn")) = Len(Prologue) + Len(Appended("vpn")) + 6
          /\ Len(Appended(j)) \in Nat /\ Len(Appended("vpn")) \in Nat
      BY JobSplits
    <2>2. Len(Appended(j)) <= Len(Appended("vpn"))
      BY AppendedIs
    <2> DEFINE l == Len(Commands(j))
               m == Len(Commands("vpn"))
               x == Len(Appended(j))
               y == Len(Appended("vpn"))
    <2>3. l \in Nat /\ 6 <= l /\ l <= m
      <3>1. /\ l = Len(Prologue) + x + 6 /\ m = Len(Prologue) + y + 6 /\ x <= y
            /\ x \in Nat /\ y \in Nat /\ Len(Prologue) \in Nat
        BY <2>1, <2>2
      <3> HIDE DEF l, m, x, y
      <3>2. QED
        BY <3>1
    <2>4. QED
      BY <2>1, <2>3
  <1>3. /\ Longest = Len(Boot) + Len(Commands("vpn")) + 6 /\ Longest \in Nat
    <2> DEFINE v == ApplyVPNNAT
               d == ApplyVPNDNS
    <2>1. v \in Seq(CommandSet) /\ v = Commands("vpn") /\ Len(v) \in Nat
      BY <1>2 DEF Commands
    <2>2. d \in Seq(CommandSet) /\ Len(d) = 6
      BY DNSCommands
    <2>3. Longest = Len((Boot \o v) \o d)
      BY DEF Longest
    <2> HIDE DEF v, d
    <2>4. Boot \o v \in Seq(CommandSet) /\ Len(Boot \o v) = Len(Boot) + Len(v)
      BY <1>1, <2>1, Concatenation
    <2>5. Len((Boot \o v) \o d) = Len(Boot \o v) + Len(d)
      BY <2>2, <2>4, Concatenation
    <2>6. QED
      BY <1>1, <2>1, <2>2, <2>3, <2>4, <2>5
  <1>4. \A j \in {"direct", "vpn"} : Room(Commands(j)) /\ Room(Boot \o Commands(j))
    <2> TAKE j \in {"direct", "vpn"}
    <2> DEFINE q == Commands(j)
               n == Len(Commands("vpn"))
    <2>1. q \in Seq(CommandSet) /\ Len(q) \in Nat /\ Len(q) <= n /\ n \in Nat
      BY <1>2
    <2> HIDE DEF q
    <2>2. Boot \o q \in Seq(CommandSet) /\ Len(Boot \o q) = Len(Boot) + Len(q)
      BY <1>1, <2>1, Concatenation
    <2>3. Longest = Len(Boot) + n + 6
      BY <1>3
    <2> HIDE DEF n
    <2>4. Len(q) + 6 <= Longest /\ Len(Boot \o q) + 6 <= Longest
      BY <1>1, <2>1, <2>2, <2>3
    <2>5. QED
      BY <1>3, <2>1, <2>2, <2>4, ShortHasRoom DEF q
  <1>5. \A j \in {"direct", "vpn"} : ClampsLast(Commands(j)) /\ ClampsLast(Boot \o Commands(j))
    <2> TAKE j \in {"direct", "vpn"}
    <2> DEFINE a == Appended(j)
               d == DNSOf(j)
               s == Prologue \o a
               q == Commands(j)
    <2>1. /\ a \in Seq(CommandSet) /\ d \in Seq(CommandSet) /\ s \in Seq(CommandSet)
          /\ q = s \o d /\ q \in Seq(CommandSet) /\ Len(d) = 6 /\ ~Occurs(ClampCmd, d)
          /\ ~Occurs(ClampCmd, Prologue) /\ Prologue \in Seq(CommandSet)
          /\ \A k \in Before(a) : End(a, k) = ClampCmd => k \in {1, 2}
      BY AppendedIs, JobSplits, PrologueIs, RouterCommandsAre DEF Clear
    <2> HIDE DEF a, d, q
    <2>2. \A k \in Before(s) : End(s, k) = ClampCmd => k \in {1, 2}
      <3> SUFFICES ASSUME NEW k \in Before(s), End(s, k) = ClampCmd PROVE k \in {1, 2}
        OBVIOUS
      <3>1. CASE k \in Before(a)
        BY <2>1, <3>1, JoinedPlaces
      <3>2. CASE k >= Len(a) /\ k - Len(a) \in Before(Prologue)
        <4>1. Len(a) + (k - Len(a)) = k
          BY <2>1 DEF Before
        <4>2. End(Prologue, k - Len(a)) = ClampCmd
          BY <2>1, <3>2, <4>1, JoinedPlaces
        <4>3. QED
          BY <2>1, <3>2, <4>2, OccursInPlace
      <3>3. QED
        BY <2>1, <3>1, <3>2, JoinedPlaces
    <2> HIDE DEF s
    <2>3. ClampsLast(q)
      <3> SUFFICES ASSUME NEW k \in Before(s \o d), End(s \o d, k) = ClampCmd
                   PROVE  k \in ClampPlaces
        BY <2>1 DEF ClampsLast
      <3>1. CASE k \in Before(d)
        <4>1. End(d, k) = ClampCmd
          BY <2>1, <3>1, JoinedPlaces
        <4>2. QED
          BY <2>1, <3>1, <4>1, OccursInPlace
      <3>2. CASE k >= Len(d) /\ k - Len(d) \in Before(s)
        <4>1. Len(d) + (k - Len(d)) = k /\ k \in Int
          BY <2>1 DEF Before
        <4>2. End(s \o d, Len(d) + (k - Len(d))) = End(s, k - Len(d))
          BY <2>1, <3>2, JoinedPlaces
        <4>3. End(s, k - Len(d)) = ClampCmd
          BY <4>1, <4>2, Zenon
        <4>4. k - 6 \in {1, 2}
          BY <2>1, <2>2, <3>2, <4>3
        <4>5. QED
          BY <4>1, <4>4 DEF ClampPlaces
      <3>3. QED
        BY <2>1, <3>1, <3>2, JoinedPlaces
    <2>4. ~Occurs(ClampCmd, Boot)
      BY <1>1, RouterCommandsAre DEF Clear
    <2>5. QED
      BY <1>1, <2>1, <2>3, <2>4, ClampsLastJoin DEF q
  <1>6. Room(Commands("maintain")) /\ ClampsLast(Commands("maintain"))
    <2> DEFINE m == MaintainManagementAccess
               d == ApplyVPNDNS
    <2>1. Commands("maintain") = m \o d
      BY DEF Commands
    <2>2. d \in Seq(CommandSet) /\ Len(d) = 6 /\ Clear(d)
      BY DNSCommands, ClearParts
    <2> DEFINE n == Len(Commands("vpn"))
    <2>3. n \in Nat /\ 6 <= n /\ Longest = Len(Boot) + n + 6
      BY <1>2, <1>3
    <2> HIDE DEF m, d, n
    <2>4. m \o d \in Seq(CommandSet) /\ Len(m \o d) = Len(m) + Len(d) /\ Clear(m \o d)
      BY <1>1, <2>2, Concatenation, ClearJoin DEF m
    <2>5. Len(m) <= Len(Boot) /\ Len(m) \in Nat
      BY <1>1 DEF m
    <2>6. Len(m \o d) + 6 <= Longest
      BY <1>1, <2>2, <2>3, <2>4, <2>5
    <2>7. ClampsLast(m \o d)
      BY <2>4, OccursInPlace, RouterCommandsAre DEF Clear, ClampsLast
    <2>8. QED
      BY <1>3, <2>1, <2>4, <2>6, <2>7, ShortHasRoom
  <1>7. Room(Commands("tick")) /\ ClampsLast(Commands("tick"))
    <2> DEFINE m == MaintainManagementAccess
               n == Len(Commands("vpn"))
    <2>1. Commands("tick") = m
      BY DEF Commands
    <2>2. n \in Nat /\ 6 <= n /\ Longest = Len(Boot) + n + 6
      BY <1>2, <1>3
    <2>3. m \in Seq(CommandSet) /\ Len(m) <= Len(Boot) /\ Len(m) \in Nat /\ Clear(m)
      BY <1>1
    <2> HIDE DEF m, n
    <2>4. Len(m) + 6 <= Longest
      BY <1>1, <2>2, <2>3
    <2>5. ClampsLast(m)
      BY <2>3, OccursInPlace, RouterCommandsAre DEF Clear, ClampsLast
    <2>6. QED
      BY <1>3, <2>1, <2>3, <2>4, <2>5, ShortHasRoom
  <1>8. QED
    BY <1>3, <1>4, <1>5, <1>6, <1>7 DEF Jobs

\* A direct job ends with ApplyDirectDNS.
LEMMA DirectEnds ==
    /\ DirectTail(Commands("direct")) /\ Len(Commands("direct")) \in Nat
    /\ DirectTail(Boot \o Commands("direct")) /\ Len(Boot \o Commands("direct")) \in Nat
    /\ Len(Commands("direct")) >= 6 /\ Len(Boot \o Commands("direct")) >= 6
  <1> DEFINE d == ApplyDirectDNS
  <1>1. ASSUME NEW p \in Seq(CommandSet)
        PROVE  /\ DirectTail(p \o d) /\ Len(p \o d) \in Nat /\ Len(p \o d) >= 6
               /\ p \o d \in Seq(CommandSet)
    <2>1. d \in Seq(CommandSet) /\ Len(d) = 6
      BY DNSCommands
    <2> HIDE DEF d
    <2>2. /\ Len(p \o d) = Len(p) + Len(d) /\ Len(p) \in Nat /\ p \o d \in Seq(CommandSet)
          /\ \A k \in Before(d) : End(p \o d, k) = End(d, k)
      BY <2>1, JoinedPlaces, Concatenation
    <2>3. ASSUME NEW k \in Before(p \o d), k < 6 PROVE End(p \o d, k) = d[6 - k]
      <3>1. k \in Before(d)
        BY <2>1, <2>3 DEF Before
      <3>2. QED
        BY <2>1, <2>2, <3>1 DEF End
    <2>4. QED
      BY <2>1, <2>2, <2>3 DEF DirectTail, d
  <1> DEFINE s == Prologue \o Appended("direct")
  <1>2. Commands("direct") = s \o d /\ s \in Seq(CommandSet)
    BY JobSplits DEF DNSOf
  <1>3. Boot \in Seq(CommandSet) /\ d \in Seq(CommandSet)
    BY ClearParts, DNSCommands
  <1> HIDE DEF s, d
  <1>4. Boot \o s \in Seq(CommandSet)
    BY <1>2, <1>3, Concatenation
  <1>5. Boot \o (s \o d) = (Boot \o s) \o d
    BY <1>2, <1>3, ConcatAssociative
  <1>6. QED
    BY <1>1, <1>2, <1>4, <1>5


-----------------------------------------------------------------------------
(* The types, and the clamps that are still to be appended.                *)

ClampsAhead ==
    {p \in Workers \X ClampPlaces :
        p[2] \in Before(todo[p[1]]) /\ End(todo[p[1]], p[2]) = ClampCmd}

CacheType == lastDnsmasqConfig \in Confs \cup {NoCache}

SimpleTypes ==
    /\ job \in [Workers -> Jobs] /\ conf \in [Workers -> Confs]
    /\ linked \in SUBSET RouterChains /\ clamps \in Nat
    /\ dnsFile \in Files /\ dnsServed \in Files \cup {"none"}
    /\ CacheType
    /\ clean \in [Workers -> BOOLEAN]
    /\ started \in 0 .. MaxJobs /\ failures \in 0 .. MaxFailures
    /\ restarts \in 0 .. MaxRestarts

RoomInv == \A w \in Workers : Room(todo[w]) /\ ClampsLast(todo[w])

\* Two for each job that was begun, done or not.
ClampInv == clamps + Cardinality(ClampsAhead) <= 2 * (1 + started + restarts)

TypesInv == FirewallInv /\ SimpleTypes /\ RoomInv /\ ClampInv

LEMMA EmptyFits == Room(<<>>) /\ ClampsLast(<<>>) /\ Before(<<>>) = {}
  <1>1. <<>> \in Seq(CommandSet) /\ Len(<<>>) = 0 /\ Before(<<>>) = {}
    BY DEF Before
  <1>2. Longest \in Nat
    BY JobsFit
  <1>3. QED
    BY <1>1, <1>2 DEF Room, ClampsLast

\* No step uses up the room, nor brings a clamp where there was none.
LEMMA LeavesFits ==
    ASSUME NEW q \in Seq(CommandSet), NEW r \in Seq(CommandSet), q # <<>>, Leaves(q, r),
           Room(q), ClampsLast(q),
           Len(r) <= Len(q) \/ (q[1] = ZonesCmd /\ Len(r) = Len(q) + 5)
    PROVE  /\ Room(r) /\ ClampsLast(r)
           /\ \A k \in Before(r) : End(r, k) = ClampCmd =>
                k \in Before(q) /\ k < Len(q) - 1 /\ End(q, k) = ClampCmd
  <1>1. Longest \in Nat /\ Len(q) \in Nat \ {0} /\ Len(r) \in Nat
    BY JobsFit, TailIsRest
  <1>2. Len(q) - 1 \in Before(q) /\ End(q, Len(q) - 1) = q[1]
    BY HeadHasPlace
  <1>3. Len(r) <= Longest
    <2>1. CASE Len(r) <= Len(q)
      BY <1>1, <2>1 DEF Room
    <2>2. CASE q[1] = ZonesCmd /\ Len(r) = Len(q) + 5
      <3>1. (Len(q) - 1) + 6 <= Longest
        BY <1>2, <2>2 DEF Room
      <3>2. QED
        BY <1>1, <2>2, <3>1
    <2>3. QED
      BY <2>1, <2>2
  <1>4. ZonesCmd \notin Inserted /\ ClampCmd \notin Inserted
    BY CommandNames DEF Inserted
  <1>5. ASSUME NEW k \in Before(r), End(r, k) \notin Inserted
        PROVE  k \in Before(q) /\ k < Len(q) - 1 /\ End(r, k) = End(q, k)
    BY <1>5 DEF Leaves
  <1>6. Room(r)
    BY <1>3, <1>4, <1>5 DEF Room
  <1>7. ClampsLast(r)
    BY <1>4, <1>5 DEF ClampsLast
  <1>8. QED
    BY <1>4, <1>5, <1>6, <1>7

LEMMA CommandLeaves ==
    ASSUME TypesInv, NEW w \in Workers, Command(w)
    PROVE  /\ todo[w] \in Seq(CommandSet) /\ todo'[w] \in Seq(CommandSet) /\ todo[w] # <<>>
           /\ \A v \in Workers : v # w => todo'[v] = todo[v]
           /\ Leaves(todo[w], todo'[w])
           /\ Len(todo'[w]) <= Len(todo[w])
                \/ (todo[w][1] = ZonesCmd /\ Len(todo'[w]) = Len(todo[w]) + 5)
  <1>1. ShapeInv /\ clean \in [Workers -> BOOLEAN] /\ todo \in [Workers -> Seq(CommandSet)]
    BY DEF TypesInv, FirewallInv, ShapeInv, TypeInv, SimpleTypes
  <1>2. Busy(w) /\ StepOf(w)
    BY <1>1, CommandSteps
  <1>3. todo' = [todo EXCEPT ![w] = todo'[w]] /\ todo'[w] \in Seq(CommandSet)
    BY <1>2 DEF StepOf, Passes, JobShape, PartShape
  <1>4. todo[w] \in Seq(CommandSet) /\ todo[w] # <<>> /\ Len(todo[w]) \in Nat \ {0}
    BY <1>1, <1>2, TailIsRest DEF Busy
  <1>5. \A v \in Workers : v # w => todo'[v] = todo[v]
    BY <1>1, <1>3
  <1>6. Moves(w) \/ Inserts(w) \/ Returns(w)
    BY <1>1, StepLeaves
  <1>7. CASE Moves(w)
    <2>1. Leaves(todo[w], todo'[w]) /\ Len(todo'[w]) = Len(todo[w]) - 1
      BY <1>4, <1>7, TailIsRest DEF Moves
    <2>2. Len(todo'[w]) <= Len(todo[w])
      BY <1>4, <2>1
    <2>3. QED
      BY <1>3, <1>4, <1>5, <2>1, <2>2
  <1>8. CASE Inserts(w)
    BY <1>3, <1>4, <1>5, <1>8 DEF Inserts
  <1>9. CASE Returns(w)
    <2>1. PICK n \in {2, 3, 4, 5} : Rest(todo'[w], todo[w], n)
      BY <1>9 DEF Returns
    <2>2. Len(todo[w]) = Len(todo'[w]) + n /\ Len(todo'[w]) \in Nat
      BY <1>3, <2>1 DEF Rest
    <2>3. Len(todo'[w]) <= Len(todo[w])
      BY <2>2
    <2>4. QED
      BY <1>3, <1>4, <1>5, <1>9, <2>3 DEF Returns
  <1>10. QED
    BY <1>6, <1>7, <1>8, <1>9

LEMMA AheadAreFinite ==
    /\ ClampsAhead \subseteq Workers \X ClampPlaces
    /\ \A S \in SUBSET (Workers \X ClampPlaces) : IsFiniteSet(S) /\ Cardinality(S) \in Nat
  <1>1. ClampsAhead \subseteq Workers \X ClampPlaces
    BY DEF ClampsAhead
  <1>2. IsFiniteSet(ClampPlaces)
    <2>1. IsFiniteSet({7}) /\ ClampPlaces = {7} \cup {8}
      BY FS_Singleton DEF ClampPlaces
    <2>2. QED
      BY <2>1, FS_AddElement
  <1>3. IsFiniteSet(Workers \X ClampPlaces)
    BY <1>2, ForwardingAssumption, FS_Product
  <1>4. QED
    BY <1>1, <1>3, FS_Subset, FS_CardinalityType

\* One goroutine is at most two clamps ahead.
LEMMA TwoAhead ==
    ASSUME NEW S \in SUBSET (Workers \X ClampPlaces), NEW w \in Workers,
           NEW T \in SUBSET (S \cup {<<w, 7>>, <<w, 8>>})
    PROVE  Cardinality(T) <= Cardinality(S) + 2 /\ Cardinality(S) \in Nat
           /\ Cardinality(T) \in Nat
  <1> DEFINE U == S \cup {<<w, 7>>}
             V == U \cup {<<w, 8>>}
  <1>1. IsFiniteSet(S) /\ Cardinality(S) \in Nat
    BY AheadAreFinite
  <1>2. IsFiniteSet(U) /\ Cardinality(U) \in Nat /\ Cardinality(U) <= Cardinality(S) + 1
    <2>1. /\ IsFiniteSet(U)
          /\ Cardinality(U) = IF <<w, 7>> \in S THEN Cardinality(S) ELSE Cardinality(S) + 1
      BY <1>1, FS_AddElement
    <2> HIDE DEF U
    <2>2. QED
      BY <1>1, <2>1
  <1>3. IsFiniteSet(V) /\ Cardinality(V) \in Nat /\ Cardinality(V) <= Cardinality(U) + 1
    <2> HIDE DEF U
    <2>1. /\ IsFiniteSet(V)
          /\ Cardinality(V) = IF <<w, 8>> \in U THEN Cardinality(U) ELSE Cardinality(U) + 1
      BY <1>2, FS_AddElement
    <2> HIDE DEF V
    <2>2. QED
      BY <1>2, <2>1
  <1>4. T \subseteq V
    OBVIOUS
  <1> HIDE DEF U, V
  <1>5. Cardinality(T) <= Cardinality(V) /\ Cardinality(T) \in Nat
    BY <1>3, <1>4, FS_Subset, FS_CardinalityType
  <1>6. QED
    BY <1>1, <1>2, <1>3, <1>5

\* What changes with a command besides what is left to do.
LEMMA SimpleCommand ==
    ASSUME TypesInv, NEW w \in Workers, Command(w)
    PROVE  /\ SimpleTypes' /\ started' = started /\ restarts' = restarts
           /\ (Clamp(w) /\ clamps' = clamps + 1) \/ clamps' = clamps
  <1>1. /\ started' = started /\ restarts' = restarts
        /\ (Clamp(w) /\ clamps' = clamps + 1) \/ clamps' = clamps
    BY Zenon DEF Command, RunFlush, RunAppend, DeleteJump, InsertJump, Clamp, Accept, CheckZones,
       ReadVPNDNS, Forget, Compare, Write, Test, Restart, WriteFails, Serve, ServeFails, Remember,
       chainVars, dnsVars, countVars
  <1>2. SimpleTypes
    BY DEF TypesInv
  <1>3. clamps' \in Nat
    BY <1>1, <1>2 DEF SimpleTypes
  <1>4. job' = job
    BY Zenon DEF Command, RunFlush, RunAppend, DeleteJump, InsertJump, Clamp, Accept, CheckZones,
       ReadVPNDNS, Forget, Compare, Write, Test, Restart, WriteFails, Serve, ServeFails, Remember,
       chainVars, dnsVars, countVars
  <1>5. job' \in [Workers -> Jobs] /\ linked' \in SUBSET RouterChains
        /\ conf' \in [Workers -> Confs]
    BY <1>2, <1>4, FirewallCommand DEF TypesInv, SimpleTypes, FirewallInv, ShapeInv, TypeInv
  <1>6. \/ failures' = failures
        \/ failures < MaxFailures /\ failures' = failures + 1
    BY Zenon DEF Command, RunFlush, RunAppend, DeleteJump, InsertJump, Clamp, Accept, CheckZones,
       ReadVPNDNS, Forget, Compare, Write, Test, Restart, WriteFails, Serve, ServeFails, Remember,
       chainVars, dnsVars, countVars
  <1>7. failures' \in 0 .. MaxFailures
    BY <1>2, <1>6, ForwardingAssumption DEF SimpleTypes
  <1>8. conf[w] \in Confs /\ FileSeen \subseteq Files
    BY <1>2 DEF SimpleTypes, FileSeen, Files
  <1>9. dnsFile' \in {dnsFile, conf[w], "part"}
    BY Zenon DEF Command, RunFlush, RunAppend, DeleteJump, InsertJump, Clamp, Accept, CheckZones,
       ReadVPNDNS, Forget, Compare, Write, Test, Restart, WriteFails, Serve, ServeFails, Remember,
       chainVars, dnsVars, countVars
  <1>10. /\ dnsServed' \in FileSeen \cup {dnsServed, "none"}
         /\ lastDnsmasqConfig' \in {lastDnsmasqConfig, NoCache, conf[w]}
    BY Zenon DEF Command, RunFlush, RunAppend, DeleteJump, InsertJump, Clamp, Accept, CheckZones,
       ReadVPNDNS, Forget, Compare, Write, Test, Restart, WriteFails, Serve, ServeFails, Remember,
       chainVars, dnsVars, countVars
  <1>11. dnsFile' \in Files /\ dnsServed' \in Files \cup {"none"} /\ CacheType'
    BY <1>2, <1>8, <1>9, <1>10 DEF SimpleTypes, CacheType, Files
  <1>12. clean' = clean \/ clean' = [clean EXCEPT ![w] = FALSE]
    BY Zenon DEF Command, RunFlush, RunAppend, DeleteJump, InsertJump, Clamp, Accept, CheckZones,
       ReadVPNDNS, Forget, Compare, Write, Test, Restart, WriteFails, Serve, ServeFails, Remember,
       chainVars, dnsVars, countVars
  <1>13. clean' \in [Workers -> BOOLEAN]
    BY <1>2, <1>12 DEF SimpleTypes
  <1>14. started' \in 0 .. MaxJobs /\ restarts' \in 0 .. MaxRestarts
    BY <1>1, <1>2 DEF SimpleTypes
  <1>15. SimpleTypes'
    BY <1>3, <1>5, <1>7, <1>11, <1>13, <1>14 DEF SimpleTypes
  <1>16. QED
    BY <1>1, <1>15

LEMMA TypesCommand ==
    ASSUME TypesInv, NEW w \in Workers, Command(w)
    PROVE  TypesInv'
  <1>1. FirewallInv' /\ SimpleTypes'
    BY FirewallCommand, SimpleCommand DEF TypesInv
  <1>2. /\ todo[w] \in Seq(CommandSet) /\ todo'[w] \in Seq(CommandSet) /\ todo[w] # <<>>
        /\ \A v \in Workers : v # w => todo'[v] = todo[v]
        /\ Leaves(todo[w], todo'[w])
        /\ Len(todo'[w]) <= Len(todo[w])
             \/ (todo[w][1] = ZonesCmd /\ Len(todo'[w]) = Len(todo[w]) + 5)
    BY CommandLeaves
  <1>3. \A v \in Workers : Room(todo[v]) /\ ClampsLast(todo[v])
    BY DEF TypesInv, RoomInv
  <1>4. /\ Room(todo'[w]) /\ ClampsLast(todo'[w])
        /\ \A k \in Before(todo'[w]) : End(todo'[w], k) = ClampCmd =>
             k \in Before(todo[w]) /\ k < Len(todo[w]) - 1 /\ End(todo[w], k) = ClampCmd
    BY <1>2, <1>3, LeavesFits
  <1>5. RoomInv'
    <2> SUFFICES ASSUME NEW v \in Workers PROVE Room(todo'[v]) /\ ClampsLast(todo'[v])
      BY DEF RoomInv
    <2>1. QED
      BY <1>2, <1>3, <1>4
  <1>6. /\ ClampsAhead' \in SUBSET ClampsAhead
        /\ <<w, Len(todo[w]) - 1>> \notin ClampsAhead'
    <2> DEFINE S == {p \in Workers \X ClampPlaces :
                       p[2] \in Before(todo'[p[1]]) /\ End(todo'[p[1]], p[2]) = ClampCmd}
    <2>1. S = ClampsAhead'
      BY DEF ClampsAhead
    <2>2. ASSUME NEW p \in S
          PROVE  /\ p \in ClampsAhead /\ p # <<w, Len(todo[w]) - 1>>
      <3>1. /\ p \in Workers \X ClampPlaces /\ p[1] \in Workers /\ p[2] \in ClampPlaces
            /\ p[2] \in Before(todo'[p[1]]) /\ End(todo'[p[1]], p[2]) = ClampCmd
        BY <2>2
      <3>2. CASE p[1] = w
        <4>1. /\ p[2] \in Before(todo[w]) /\ p[2] < Len(todo[w]) - 1
              /\ End(todo[w], p[2]) = ClampCmd
          BY <1>4, <3>1, <3>2
        <4>2. p[2] # Len(todo[w]) - 1
          BY <1>2, <4>1 DEF Before
        <4>3. QED
          BY <3>1, <3>2, <4>1, <4>2 DEF ClampsAhead
      <3>3. CASE p[1] # w
        BY <1>2, <3>1, <3>3 DEF ClampsAhead
      <3>4. QED
        BY <3>2, <3>3
    <2>3. QED
      BY <2>1, <2>2
  <1>7. /\ IsFiniteSet(ClampsAhead) /\ Cardinality(ClampsAhead) \in Nat
        /\ Cardinality(ClampsAhead') \in Nat
        /\ Cardinality(ClampsAhead') <= Cardinality(ClampsAhead)
    <2>1. ClampsAhead \in SUBSET (Workers \X ClampPlaces)
      BY AheadAreFinite
    <2>2. IsFiniteSet(ClampsAhead) /\ Cardinality(ClampsAhead) \in Nat
      BY <2>1, AheadAreFinite
    <2>3. QED
      BY <1>6, <2>2, FS_Subset, FS_CardinalityType
  <1>8. /\ started' = started /\ restarts' = restarts
        /\ (Clamp(w) /\ clamps' = clamps + 1) \/ clamps' = clamps
    BY SimpleCommand
  <1>9. ASSUME Clamp(w) PROVE Cardinality(ClampsAhead') <= Cardinality(ClampsAhead) - 1
    <2> DEFINE x == <<w, Len(todo[w]) - 1>>
    <2>1. todo[w][1] = ClampCmd
      <3>1. ShapeInv /\ Does(w, "clamp") /\ Busy(w)
        BY <1>9 DEF TypesInv, FirewallInv, Clamp, Does
      <3>2. QED
        BY <3>1, Commanded, NamesAreUnique
    <2>2. Len(todo[w]) - 1 \in Before(todo[w]) /\ End(todo[w], Len(todo[w]) - 1) = ClampCmd
      BY <1>2, <2>1, HeadHasPlace
    <2>3. x \in ClampsAhead
      BY <1>3, <2>2 DEF ClampsAhead, ClampsLast
    <2>4. IsFiniteSet(ClampsAhead \ {x})
          /\ Cardinality(ClampsAhead \ {x}) = Cardinality(ClampsAhead) - 1
      BY <1>7, <2>3, FS_RemoveElement
    <2>5. ClampsAhead' \subseteq ClampsAhead \ {x}
      BY <1>6
    <2>6. Cardinality(ClampsAhead') <= Cardinality(ClampsAhead \ {x})
      BY <2>4, <2>5, FS_Subset
    <2>7. QED
      BY <2>4, <2>6
  <1>10. clamps \in Nat /\ started \in Nat /\ restarts \in Nat
         /\ clamps + Cardinality(ClampsAhead) <= 2 * (1 + started + restarts)
    BY ForwardingAssumption DEF TypesInv, SimpleTypes, ClampInv
  <1>11. clamps' + Cardinality(ClampsAhead') <= 2 * (1 + started' + restarts')
    <2> DEFINE m == Cardinality(ClampsAhead)
               n == Cardinality(ClampsAhead')
    <2>1. m \in Nat /\ n \in Nat /\ n <= m /\ (Clamp(w) => n <= m - 1)
          /\ clamps + m <= 2 * (1 + started + restarts)
      BY <1>7, <1>9, <1>10
    <2> HIDE DEF m, n
    <2>2. clamps' + n <= 2 * (1 + started' + restarts')
      BY <1>8, <1>10, <2>1
    <2>3. QED
      BY <2>2 DEF n
  <1>12. QED
    BY <1>1, <1>5, <1>11 DEF TypesInv, ClampInv

\* Whoever is the only one with anything to do.
OnlyOne(first, q) == todo = [w \in Workers |-> IF w = first THEN q ELSE <<>>]
Fits(q) == q \in Seq(CommandSet) /\ Room(q) /\ ClampsLast(q)
OnlyFits == \A first \in Workers : \A q : OnlyOne(first, q) /\ Fits(q) =>
                /\ RoomInv
                /\ ClampsAhead \subseteq {<<first, 7>>, <<first, 8>>}

LEMMA OnlyOneFits == OnlyFits
  <1> SUFFICES ASSUME NEW first \in Workers, NEW q, OnlyOne(first, q), Fits(q)
               PROVE  RoomInv /\ ClampsAhead \subseteq {<<first, 7>>, <<first, 8>>}
    BY DEF OnlyFits
  <1>1. \A w \in Workers : todo[w] = IF w = first THEN q ELSE <<>>
    BY DEF OnlyOne
  <1>2. RoomInv
    BY <1>1, EmptyFits DEF RoomInv, Fits
  <1>3. ASSUME NEW p \in ClampsAhead PROVE p \in {<<first, 7>>, <<first, 8>>}
    <2>1. p \in Workers \X ClampPlaces /\ p[2] \in Before(todo[p[1]])
      BY <1>3 DEF ClampsAhead
    <2>2. p[1] = first
      BY <1>1, <2>1, EmptyFits
    <2>3. QED
      BY <2>1, <2>2 DEF ClampPlaces
  <1>4. QED
    BY <1>2, <1>3

LEMMA BootFits == \A j \in {"direct", "vpn"} : Fits(Boot \o Commands(j))
  BY JobsFit, BootIsShaped DEF Fits, JobShape, PartShape

LEMMA TypesStart ==
    ASSUME TypesInv, NEW w \in Workers, NEW j \in Jobs, Start(w, j)
    PROVE  TypesInv'
  <1>1. FirewallInv'
    BY FirewallStart DEF TypesInv
  <1>2. SimpleTypes'
    <2>1. /\ job' = [job EXCEPT ![w] = j] /\ started < MaxJobs /\ started' = started + 1
          /\ clean' = [v \in Workers |-> IF v = w THEN Quiet ELSE clean[v] /\ ~Busy(v)]
          /\ UNCHANGED <<conf, linked, clamps, dnsFile, dnsServed, restarts, failures>>
          /\ lastDnsmasqConfig' = lastDnsmasqConfig
      BY DEF Start, chainVars, dnsVars
    <2>2. Quiet \in BOOLEAN /\ \A v \in Workers : (clean[v] /\ ~Busy(v)) \in BOOLEAN
      BY DEF Quiet, Busy
    <2>3. clean' \in [Workers -> BOOLEAN]
      BY <2>1, <2>2
    <2>4. job' \in [Workers -> Jobs] /\ started' \in 0 .. MaxJobs
      BY <2>1, ForwardingAssumption DEF TypesInv, SimpleTypes
    <2>5. QED
      BY <2>1, <2>3, <2>4 DEF TypesInv, SimpleTypes, CacheType
  <1>3. /\ todo \in [Workers -> Seq(CommandSet)]
        /\ todo' = [todo EXCEPT ![w] = Commands(j)]
        /\ clamps' = clamps /\ restarts' = restarts /\ started' = started + 1
    BY DEF TypesInv, FirewallInv, ShapeInv, TypeInv, Start, chainVars
  <1>4. todo'[w] = Commands(j) /\ \A v \in Workers : v # w => todo'[v] = todo[v]
    BY <1>3
  <1>5. RoomInv'
    <2> SUFFICES ASSUME NEW v \in Workers PROVE Room(todo'[v]) /\ ClampsLast(todo'[v])
      BY DEF RoomInv
    <2>1. QED
      BY <1>4, JobsFit DEF TypesInv, RoomInv
  <1>6. ClampsAhead' \subseteq ClampsAhead \cup {<<w, 7>>, <<w, 8>>}
    <2> DEFINE S == {p \in Workers \X ClampPlaces :
                       p[2] \in Before(todo'[p[1]]) /\ End(todo'[p[1]], p[2]) = ClampCmd}
    <2>1. S = ClampsAhead'
      BY DEF ClampsAhead
    <2>2. ASSUME NEW p \in S PROVE p \in ClampsAhead \cup {<<w, 7>>, <<w, 8>>}
      <3>1. p \in Workers \X ClampPlaces /\ p[1] \in Workers /\ p[2] \in {7, 8}
        BY <2>2 DEF ClampPlaces
      <3>2. CASE p[1] = w
        BY <3>1, <3>2
      <3>3. CASE p[1] # w
        BY <1>4, <2>2, <3>1, <3>3 DEF ClampsAhead
      <3>4. QED
        BY <3>2, <3>3
    <2>3. QED
      BY <2>1, <2>2
  <1>7. ClampInv'
    <2> DEFINE m == Cardinality(ClampsAhead)
               n == Cardinality(ClampsAhead')
    <2>1. m \in Nat /\ n \in Nat /\ n <= m + 2
      <3>1. ClampsAhead \in SUBSET (Workers \X ClampPlaces)
        BY AheadAreFinite
      <3>2. QED
        BY <1>6, <3>1, TwoAhead
    <2>2. /\ clamps \in Nat /\ started \in Nat /\ restarts \in Nat
          /\ clamps + m <= 2 * (1 + started + restarts)
      BY ForwardingAssumption DEF TypesInv, SimpleTypes, ClampInv
    <2> HIDE DEF m, n
    <2>3. clamps' + n <= 2 * (1 + started' + restarts')
      BY <1>3, <2>1, <2>2
    <2>4. QED
      BY <2>3 DEF ClampInv, n
  <1>8. QED
    BY <1>1, <1>2, <1>5, <1>7 DEF TypesInv

\* The service is started with nothing done and nothing else to do.
Booted == \E first \in Workers, j \in {"direct", "vpn"} : OnlyOne(first, Boot \o Commands(j))
AtMostTwo ==
    RoomInv /\ Cardinality(ClampsAhead) \in Nat /\ Cardinality(ClampsAhead) <= 2

LEMMA BootedFits == Booted => AtMostTwo
  <1> SUFFICES ASSUME Booted PROVE AtMostTwo
    OBVIOUS
  <1>1. PICK first \in Workers, j \in {"direct", "vpn"} : OnlyOne(first, Boot \o Commands(j))
    BY DEF Booted
  <1>2. RoomInv /\ ClampsAhead \subseteq {} \cup {<<first, 7>>, <<first, 8>>}
    BY <1>1, OnlyOneFits, BootFits DEF OnlyFits
  <1>3. {} \in SUBSET (Workers \X ClampPlaces) /\ Cardinality({}) = 0
    BY FS_EmptySet
  <1>4. Cardinality(ClampsAhead) <= 0 + 2 /\ Cardinality(ClampsAhead) \in Nat
    BY <1>2, <1>3, TwoAhead
  <1>5. QED
    BY <1>2, <1>4 DEF AtMostTwo

LEMMA TypesInit == Init => TypesInv
  <1> SUFFICES ASSUME Init PROVE TypesInv
    OBVIOUS
  <1>1. PICK first \in Workers, j \in {"direct", "vpn"} :
          /\ todo = [w \in Workers |-> IF w = first THEN Boot \o Commands(j) ELSE <<>>]
          /\ job = [w \in Workers |-> j] /\ conf = [w \in Workers |-> "direct"]
          /\ linked = {} /\ clamps = 0
          /\ dnsFile \in Confs /\ dnsServed \in {dnsFile, "none"} /\ lastDnsmasqConfig = NoCache
          /\ clean = [w \in Workers |-> w = first]
          /\ started = 0 /\ failures = 0 /\ restarts = 0
    BY Zenon DEF Init
  <1>2. SimpleTypes
    <2>1. "direct" \in Confs /\ j \in Jobs
      BY DEF Confs, Jobs
    <2>2. job \in [Workers -> Jobs] /\ conf \in [Workers -> Confs]
      BY <1>1, <2>1
    <2>3. clean \in [Workers -> BOOLEAN] /\ linked \in SUBSET RouterChains
      BY <1>1
    <2>4. /\ clamps \in Nat /\ started \in 0 .. MaxJobs /\ failures \in 0 .. MaxFailures
          /\ restarts \in 0 .. MaxRestarts
      BY <1>1, ForwardingAssumption
    <2>5. dnsFile \in Files /\ dnsServed \in Files \cup {"none"} /\ CacheType
      BY <1>1 DEF CacheType, Files
    <2>6. QED
      BY <2>2, <2>3, <2>4, <2>5 DEF SimpleTypes
  <1>3. Booted
    BY <1>1 DEF Booted, OnlyOne
  <1>4. RoomInv /\ Cardinality(ClampsAhead) \in Nat /\ Cardinality(ClampsAhead) <= 2
    BY <1>3, BootedFits DEF AtMostTwo
  <1>5. ClampInv
    BY <1>1, <1>4 DEF ClampInv
  <1>6. QED
    BY <1>2, <1>4, <1>5, FirewallInit DEF TypesInv

LEMMA TypesCrash ==
    ASSUME TypesInv, Crash
    PROVE  TypesInv'
  <1>1. FirewallInv'
    BY FirewallCrash DEF TypesInv
  <1>2. PICK first \in Workers, j \in {"direct", "vpn"} :
          /\ todo' = [w \in Workers |-> IF w = first THEN Boot \o Commands(j) ELSE <<>>]
          /\ job' = [job EXCEPT ![first] = j]
          /\ clean' = [w \in Workers |-> w = first]
    BY Zenon DEF Crash
  <1>3. /\ restarts < MaxRestarts /\ restarts' = restarts + 1
        /\ (clamps' = clamps \/ clamps' = 0)
        /\ dnsFile' \in FileSeen /\ dnsServed' \in {dnsServed, dnsFile', "none"}
        /\ lastDnsmasqConfig' = NoCache
        /\ started' = started /\ failures' = failures
    BY Zenon DEF Crash
  <1>4. SimpleTypes'
    <2>1. j \in Jobs
      BY DEF Jobs
    <2>2. job' \in [Workers -> Jobs] /\ clean' \in [Workers -> BOOLEAN]
      BY <1>2, <2>1 DEF TypesInv, SimpleTypes
    <2>3. restarts' \in 0 .. MaxRestarts /\ clamps' \in Nat
      BY <1>3, ForwardingAssumption DEF TypesInv, SimpleTypes
    <2>4. linked' \in SUBSET RouterChains /\ conf' \in [Workers -> Confs]
      BY <1>1 DEF FirewallInv, ShapeInv, TypeInv
    <2>5. dnsFile' \in Files /\ dnsServed' \in Files \cup {"none"} /\ CacheType'
      <3>1. FileSeen \subseteq Files
        BY DEF TypesInv, SimpleTypes, FileSeen, Files
      <3>2. QED
        BY <1>3, <3>1 DEF TypesInv, SimpleTypes, CacheType
    <2>6. QED
      BY <1>3, <2>2, <2>3, <2>4, <2>5 DEF TypesInv, SimpleTypes
  <1>5. AtMostTwo'
    <2>1. Booted'
      BY <1>2 DEF Booted, OnlyOne
    <2>2. QED
      BY <2>1, BootedFits, PTL
  <1>6. RoomInv' /\ Cardinality(ClampsAhead)' \in Nat /\ Cardinality(ClampsAhead)' <= 2
    BY <1>5 DEF AtMostTwo
  <1>7. clamps \in Nat /\ started \in Nat /\ restarts \in Nat
        /\ clamps <= 2 * (1 + started + restarts)
    <2>1. Cardinality(ClampsAhead) \in Nat
      BY AheadAreFinite
    <2> DEFINE m == Cardinality(ClampsAhead)
    <2>2. clamps \in Nat /\ started \in Nat /\ restarts \in Nat
          /\ clamps + m <= 2 * (1 + started + restarts)
      BY ForwardingAssumption DEF TypesInv, SimpleTypes, ClampInv
    <2>3. m \in Nat
      BY <2>1
    <2> HIDE DEF m
    <2>4. QED
      BY <2>2, <2>3
  <1>8. ClampInv'
    <2> DEFINE n == Cardinality(ClampsAhead)'
    <2>1. n \in Nat /\ n <= 2
      BY <1>6
    <2> HIDE DEF n
    <2>2. clamps' + n <= 2 * (1 + started' + restarts')
      BY <1>3, <1>7, <2>1
    <2>3. QED
      BY <2>2 DEF ClampInv, n
  <1>9. QED
    BY <1>1, <1>4, <1>6, <1>8 DEF TypesInv

LEMMA TypesStutter ==
    ASSUME TypesInv, UNCHANGED vars
    PROVE  TypesInv'
  <1>1. FirewallInv'
    BY FirewallStutters DEF TypesInv
  <1>2. /\ UNCHANGED <<todo, job, conf, linked, clamps, dnsFile, dnsServed, clean>>
        /\ lastDnsmasqConfig' = lastDnsmasqConfig
        /\ UNCHANGED <<started, failures, restarts>>
    BY DEF vars, chainVars, dnsVars, countVars
  <1>3. QED
    BY <1>1, <1>2 DEF TypesInv, SimpleTypes, CacheType, RoomInv, ClampInv, ClampsAhead

LEMMA TypesNext ==
    ASSUME TypesInv, [Next]_vars
    PROVE  TypesInv'
  <1>1. CASE Crash
    BY <1>1, TypesCrash
  <1>2. ASSUME NEW w \in Workers, Command(w) PROVE TypesInv'
    BY <1>2, TypesCommand
  <1>3. ASSUME NEW w \in Workers, NEW j \in Jobs, Start(w, j) PROVE TypesInv'
    BY <1>3, TypesStart
  <1>4. CASE UNCHANGED vars
    BY <1>4, TypesStutter
  <1>5. QED
    BY <1>1, <1>2, <1>3, <1>4 DEF Next

LEMMA TypesInvIsInvariant == Spec => []TypesInv
  <1>1. Init => TypesInv
    BY TypesInit
  <1>2. TypesInv /\ [Next]_vars => TypesInv'
    BY TypesNext
  <1>3. QED
    BY <1>1, <1>2, PTL DEF Spec

\* Every goroutine's commands fit, however often a search for the zones puts more in, and
\* mangle holds at most two clamps for each job that was begun: each call appends.
THEOREM TypeCorrect == Spec => []TypeOK
  <1>1. TypesInv => TypeOK
    <2> SUFFICES ASSUME TypesInv PROVE TypeOK
      OBVIOUS
    <2>1. \A w \in Workers : Len(todo[w]) <= Len(Boot \o ApplyVPNNAT \o ApplyVPNDNS)
      BY DEF TypesInv, RoomInv, Room, Longest
    <2>2. rules \in [Chains -> SUBSET (ManagementRules \cup ForwardWAN \cup ForwardTunnel
                                        \cup {"wan", "tun"})]
      <3>1. RulesOf("in") \cup RulesOf("fwd")
              = ManagementRules \cup ForwardWAN \cup ForwardTunnel \cup {"wan", "tun"}
        BY DEF RulesOf
      <3>2. QED
        BY <3>1 DEF TypesInv, FirewallInv, ShapeInv, TypeInv
    <2>3. clamps \in 0 .. 2 * (1 + started + restarts)
      <3> DEFINE m == Cardinality(ClampsAhead)
      <3>1. m \in Nat
        BY AheadAreFinite
      <3>2. clamps + m <= 2 * (1 + started + restarts) /\ clamps \in Nat
            /\ started \in Nat /\ restarts \in Nat
        BY ForwardingAssumption DEF TypesInv, SimpleTypes, ClampInv
      <3> HIDE DEF m
      <3>3. QED
        BY <3>1, <3>2
    <2>4. jumps \in Nat
      BY DEF TypesInv, FirewallInv, ShapeInv, TypeInv
    <2>5. lastDnsmasqConfig \in Confs \cup {NoCache}
      BY Zenon DEF TypesInv, SimpleTypes, CacheType
    <2>6. /\ job \in [Workers -> Jobs] /\ conf \in [Workers -> Confs]
          /\ linked \in SUBSET RouterChains
          /\ dnsFile \in Files /\ dnsServed \in Files \cup {"none"}
          /\ clean \in [Workers -> BOOLEAN]
          /\ started \in 0 .. MaxJobs /\ failures \in 0 .. MaxFailures
          /\ restarts \in 0 .. MaxRestarts
      BY DEF TypesInv, SimpleTypes
    <2>7. QED
      BY <2>1, <2>2, <2>3, <2>4, <2>5, <2>6, Zenon DEF TypeOK
  <1>2. QED
    BY <1>1, TypesInvIsInvariant, PTL

-----------------------------------------------------------------------------
(* A job that nothing overlaps.                                            *)

Alone(w) == \A v \in Workers \ {w} : ~Busy(v)

\* The commands left make of both chains what the job is for.
RulesAhead(w) ==
    job[w] \in {"direct", "vpn"} =>
      \A chain \in RouterChains :
        Sets(todo[w], chain, rules[chain], Target(chain, job[w]))

\* The commands left of ApplyDirectDNS, and what those before have done.
DirectAhead(w) ==
    job[w] = "direct" =>
      /\ DirectTail(todo[w])
      /\ Len(todo[w]) <= 5 => conf[w] = "direct"
      /\ Len(todo[w]) = 5 => lastDnsmasqConfig = NoCache
      /\ Len(todo[w]) <= 3 => dnsFile = "direct"
      /\ Len(todo[w]) <= 1 => dnsServed = "direct"

SoloInv ==
    \A w \in Workers : clean[w] /\ Busy(w) => Alone(w) /\ RulesAhead(w) /\ DirectAhead(w)

\* What a first command does to the rules of a chain.
Changes(c, chain, have, new) ==
    /\ c = Flush(chain) => new = {}
    /\ \A x \in RulesOf(chain) : c = Append1(chain, x) => new = have \cup {x}
    /\ c # Flush(chain) /\ (\A x \in RulesOf(chain) : c # Append1(chain, x)) => new = have

LEMMA SetsStep ==
    ASSUME NEW q \in Seq(CommandSet), NEW r \in Seq(CommandSet), q # <<>>, Leaves(q, r),
           NEW chain \in RouterChains, NEW have, NEW new, NEW want,
           Sets(q, chain, have, want), Changes(q[1], chain, have, new)
    PROVE  Sets(r, chain, new, want)
  <1> DEFINE Of(c) == c = Flush(chain) \/ \E x \in RulesOf(chain) : c = Append1(chain, x)
  <1>1. \A c : Of(c) => c \notin Inserted /\ c \notin Writing
    BY CommandsDiffer, CommandNames DEF Inserted, Writing
  <1>2. Len(q) - 1 \in Before(q) /\ End(q, Len(q) - 1) = q[1] /\ Len(q) \in Nat
    BY HeadHasPlace, TailIsRest
  <1>3. ASSUME NEW c, Of(c), NEW k \in Before(r), End(r, k) = c
        PROVE  k \in Before(q) /\ k < Len(q) - 1 /\ End(q, k) = c
    BY <1>1, <1>3 DEF Leaves
  <1>4. ASSUME NEW c, Of(c), Occurs(c, q) PROVE c = q[1] \/ Occurs(c, r)
    <2>1. PICK k \in Before(q) : End(q, k) = c
      BY <1>4, OccursInPlace
    <2>2. k = Len(q) - 1 \/ (k \in Before(r) /\ End(r, k) = c)
      BY <1>1, <1>4, <2>1 DEF Leaves
    <2>3. QED
      BY <1>2, <2>1, <2>2, OccursInPlace
  <1>5. ASSUME NEW c, Of(c), Occurs(c, r)
        PROVE  Occurs(c, q) /\ \E k \in Before(q) : k < Len(q) - 1 /\ End(q, k) = c
    <2>1. PICK k \in Before(r) : End(r, k) = c
      BY <1>5, OccursInPlace
    <2>2. k \in Before(q) /\ k < Len(q) - 1 /\ End(q, k) = c
      BY <1>3, <1>5, <2>1
    <2>3. QED
      BY <2>2, OccursInPlace
  <1>6. FlushFirst(q, chain)
    BY DEF Sets
  <1>7. FlushFirst(r, chain)
    <2> SUFFICES ASSUME NEW k \in Before(r), End(r, k) = Flush(chain),
                        NEW m \in Before(r), m >= k,
                        NEW x \in RulesOf(chain), End(r, m) = Append1(chain, x)
                 PROVE  FALSE
      BY DEF FlushFirst
    <2>1. k \in Before(q) /\ End(q, k) = Flush(chain)
      BY <1>3
    <2>2. m \in Before(q) /\ End(q, m) = Append1(chain, x)
      BY <1>3
    <2>3. QED
      BY <1>6, <2>1, <2>2 DEF FlushFirst
  <1>8. CASE Occurs(Flush(chain), r)
    <2>1. PICK k \in Before(q) : k < Len(q) - 1 /\ End(q, k) = Flush(chain)
      BY <1>5, <1>8
    <2>2. Len(q) - 1 >= k
      BY <1>2, <2>1 DEF Before
    <2>3. \A x \in RulesOf(chain) : q[1] # Append1(chain, x)
      BY <1>2, <1>6, <2>1, <2>2 DEF FlushFirst
    <2>4. Adds(r, chain) = Adds(q, chain)
      BY <1>4, <1>5, <2>3 DEF Adds
    <2>5. Occurs(Flush(chain), q)
      BY <1>5, <1>8
    <2>6. QED
      BY <1>7, <1>8, <2>4, <2>5 DEF Sets
  <1>9. CASE ~Occurs(Flush(chain), r) /\ q[1] = Flush(chain)
    <2>1. Occurs(Flush(chain), q)
      BY <1>2, <1>9, OccursInPlace
    <2>2. \A x \in RulesOf(chain) : q[1] # Append1(chain, x)
      BY <1>9, CommandsDiffer
    <2>3. Adds(r, chain) = Adds(q, chain)
      BY <1>4, <1>5, <2>2 DEF Adds
    <2>4. new = {} /\ Adds(q, chain) = want
      BY <1>9, <2>1 DEF Changes, Sets
    <2>5. QED
      BY <1>7, <1>9, <2>3, <2>4 DEF Sets
  <1>10. CASE ~Occurs(Flush(chain), r) /\ q[1] # Flush(chain)
    <2>1. ~Occurs(Flush(chain), q)
      BY <1>4, <1>10
    <2>2. have \cup Adds(q, chain) = want
      BY <2>1 DEF Sets
    <2>3. CASE \E x \in RulesOf(chain) : q[1] = Append1(chain, x)
      <3>1. PICK x \in RulesOf(chain) : q[1] = Append1(chain, x)
        BY <2>3
      <3>2. new = have \cup {x}
        BY <3>1 DEF Changes
      <3>3. Occurs(Append1(chain, x), q)
        BY <1>2, <3>1, OccursInPlace
      <3>4. \A y \in RulesOf(chain) :
              Occurs(Append1(chain, y), q) <=> y = x \/ Occurs(Append1(chain, y), r)
        BY <1>4, <1>5, <3>1, <3>3, CommandsDiffer
      <3>5. Adds(q, chain) = Adds(r, chain) \cup {x}
        BY <3>4 DEF Adds
      <3>6. new \cup Adds(r, chain) = want
        BY <2>2, <3>2, <3>5
      <3>7. QED
        BY <1>7, <1>10, <3>6 DEF Sets
    <2>4. CASE \A x \in RulesOf(chain) : q[1] # Append1(chain, x)
      <3>1. new = have /\ Adds(r, chain) = Adds(q, chain)
        BY <1>4, <1>5, <1>10, <2>4 DEF Adds, Changes
      <3>2. QED
        BY <1>7, <1>10, <2>2, <3>1 DEF Sets
    <2>5. QED
      BY <2>3, <2>4
  <1>11. QED
    BY <1>8, <1>9, <1>10

\* The commands that an action is of.
LEMMA ActionNames ==
    ASSUME ShapeInv, NEW w \in Workers, Command(w)
    PROVE  /\ todo[w] \in Seq(CommandSet) /\ todo[w] # <<>>
           /\ Head(todo[w]) = todo[w][1] /\ todo[w][1] \in CommandSet
           /\ RunFlush(w) => todo[w][1][1] = "flush"
           /\ RunAppend(w) => todo[w][1][1] = "append"
           /\ DeleteJump(w) => todo[w][1][1] = "deleteJump"
           /\ InsertJump(w) => todo[w][1][1] = "insertJump"
           /\ Clamp(w) => todo[w][1][1] = "clamp"
           /\ Accept(w) => todo[w][1][1] = "accept"
           /\ CheckZones(w) => todo[w][1][1] = "zones"
           /\ ReadVPNDNS(w) => todo[w][1][1] = "readVPNDNS"
           /\ Forget(w) => todo[w][1][1] = "forget"
           /\ Compare(w) => todo[w][1][1] = "compare"
           /\ Write(w) => todo[w][1][1] = "write"
           /\ Test(w) => todo[w][1][1] = "test"
           /\ Restart(w) => todo[w][1][1] = "restart"
           /\ Serve(w) => todo[w][1][1] = "serve"
           /\ WriteFails(w) => todo[w][1][1] \in {"compare", "write", "test", "restart"}
           /\ ServeFails(w) => todo[w][1][1] = "serve"
           /\ Remember(w) => todo[w][1][1] = "remember"
  <1>1. Busy(w)
    BY CommandSteps
  <1>2. /\ todo[w] \in Seq(CommandSet) /\ todo[w] # <<>>
        /\ Head(todo[w]) = todo[w][1] /\ todo[w][1] \in CommandSet
        /\ \A name : Does(w, name) <=> todo[w][1][1] = name
    BY <1>1, Commanded
  <1>3. /\ RunFlush(w) => Does(w, "flush")
        /\ RunAppend(w) => Does(w, "append")
        /\ DeleteJump(w) => Does(w, "deleteJump")
        /\ InsertJump(w) => Does(w, "insertJump")
        /\ Clamp(w) => Does(w, "clamp")
        /\ Accept(w) => Does(w, "accept")
        /\ CheckZones(w) => Does(w, "zones")
        /\ ReadVPNDNS(w) => Does(w, "readVPNDNS")
        /\ Forget(w) => Does(w, "forget")
        /\ Compare(w) => Does(w, "compare")
        /\ Write(w) => Does(w, "write")
        /\ Test(w) => Does(w, "test")
        /\ Restart(w) => Does(w, "restart")
        /\ Serve(w) => Does(w, "serve")
        /\ WriteFails(w) => \E name \in {"compare", "write", "test", "restart"} : Does(w, name)
        /\ ServeFails(w) => Does(w, "serve")
        /\ Remember(w) => Does(w, "remember")
    BY Zenon DEF RunFlush, RunAppend, DeleteJump, InsertJump, Clamp, Accept, CheckZones,
       ReadVPNDNS, Forget, Compare, Write, Test, Restart, WriteFails, Serve, ServeFails, Remember
  <1>4. QED
    BY <1>2, <1>3

LEMMA RulesChange ==
    ASSUME TypesInv, NEW w \in Workers, Command(w), NEW chain \in RouterChains
    PROVE  Changes(todo[w][1], chain, rules[chain], rules'[chain])
  <1> DEFINE c == todo[w][1]
  <1>1. ShapeInv /\ chain \in Chains /\ chain \in DOMAIN rules
    BY DEF TypesInv, FirewallInv, ShapeInv, TypeInv, RouterChains, Chains
  <1>2. Head(todo[w]) = c /\ c \in CommandSet
    BY <1>1, ActionNames
  <1>3. CASE RunFlush(w)
    <2>1. c[1] = "flush" /\ rules' = [rules EXCEPT ![c[2]] = {}]
      BY <1>1, <1>2, <1>3, ActionNames DEF RunFlush
    <2>2. PICK ch \in Chains : c = Flush(ch)
      BY <1>2, <2>1, NamesAreUnique
    <2>3. c[2] = ch
      BY <2>2, CommandNames
    <2>4. rules'[chain] = IF ch = chain THEN {} ELSE rules[chain]
      BY <1>1, <2>1, <2>3
    <2>5. \A x : c # Append1(chain, x)
      BY <2>2, CommandsDiffer
    <2>6. c = Flush(chain) <=> ch = chain
      BY <2>2, CommandsDiffer
    <2> HIDE DEF c
    <2>7. Changes(c, chain, rules[chain], rules'[chain])
      BY <2>4, <2>5, <2>6 DEF Changes
    <2>8. QED
      BY <2>7 DEF c
  <1>4. CASE RunAppend(w)
    <2>1. c[1] = "append" /\ rules' = [rules EXCEPT ![c[2]] = @ \cup {c[3]}]
      BY <1>1, <1>2, <1>4, ActionNames DEF RunAppend
    <2>2. PICK ch \in Chains : \E y \in RulesOf(ch) : c = Append1(ch, y)
      BY <1>2, <2>1, NamesAreUnique
    <2>3. PICK y \in RulesOf(ch) : c = Append1(ch, y)
      BY <2>2
    <2>4. c[2] = ch /\ c[3] = y
      BY <2>3, CommandNames
    <2>5. rules'[chain] = IF ch = chain THEN rules[chain] \cup {y} ELSE rules[chain]
      BY <1>1, <2>1, <2>4
    <2>6. c # Flush(chain)
      BY <2>3, CommandsDiffer
    <2>7. \A x : c = Append1(chain, x) <=> ch = chain /\ x = y
      BY <2>3, CommandsDiffer
    <2> HIDE DEF c
    <2>8. Changes(c, chain, rules[chain], rules'[chain])
      BY <2>5, <2>6, <2>7 DEF Changes
    <2>9. QED
      BY <2>8 DEF c
  <1>5. CASE ~RunFlush(w) /\ ~RunAppend(w)
    <2>1. rules' = rules
      BY <1>5, Zenon DEF Command, DeleteJump, InsertJump, Clamp, Accept, CheckZones, ReadVPNDNS,
         Forget, Compare, Write, Test, Restart, WriteFails, Serve, ServeFails, Remember, chainVars
    <2>2. c[1] \in {"deleteJump", "insertJump", "clamp", "accept", "zones", "readVPNDNS", "forget",
                    "compare", "write", "test", "restart", "serve", "remember"}
      BY <1>1, <1>5, ActionNames DEF Command
    <2>3. c # Flush(chain) /\ \A x : c # Append1(chain, x)
      BY <2>2, CommandNames
    <2> HIDE DEF c
    <2>4. Changes(c, chain, rules[chain], rules'[chain])
      BY <2>1, <2>3 DEF Changes
    <2>5. QED
      BY <2>4 DEF c
  <1>6. QED
    BY <1>3, <1>4, <1>5

\* What the commands of ApplyDirectDNS do, while nothing of dnsmasq fails.
LEMMA DirectCommands ==
    ASSUME TypesInv, NEW w \in Workers, Command(w), clean'[w], Alone(w)
    PROVE  /\ job' = job
           /\ todo[w][1] = ForgetCmd =>
                todo'[w] = Tail(todo[w]) /\ conf'[w] = "direct" /\ lastDnsmasqConfig' = NoCache
           /\ todo[w][1] = CompareCmd =>
                conf[w] = lastDnsmasqConfig \/ (todo'[w] = Tail(todo[w]) /\ conf' = conf)
           /\ todo[w][1] = WriteCmd =>
                todo'[w] = Tail(todo[w]) /\ conf' = conf /\ dnsFile' = conf[w]
           /\ todo[w][1] = TestCmd =>
                todo'[w] = Tail(todo[w]) /\ conf' = conf /\ dnsFile' = dnsFile
           /\ todo[w][1] = RestartCmd =>
                /\ todo'[w] = Tail(todo[w]) /\ conf' = conf
                /\ dnsFile' = dnsFile /\ dnsServed' = dnsFile
           /\ todo[w][1] = RememberCmd =>
                /\ todo'[w] = Tail(todo[w]) /\ conf'[w] = "direct"
                /\ dnsFile' = dnsFile /\ dnsServed' = dnsServed
  <1> DEFINE c == todo[w][1]
  <1>1. /\ ShapeInv /\ todo \in [Workers -> Seq(CommandSet)]
        /\ conf \in [Workers -> Confs] /\ clean \in [Workers -> BOOLEAN]
    BY DEF TypesInv, FirewallInv, ShapeInv, TypeInv, SimpleTypes
  <1>2. ~WriteFails(w)
    <2>1. WriteFails(w) => clean' = [clean EXCEPT ![w] = FALSE]
      BY DEF WriteFails
    <2>2. QED
      BY <1>1, <2>1
  <1>3. /\ c = ForgetCmd => Forget(w)
        /\ c = CompareCmd => Compare(w)
        /\ c = WriteCmd => Write(w)
        /\ c = TestCmd => Test(w)
        /\ c = RestartCmd => Restart(w)
        /\ c = RememberCmd => Remember(w)
    <2>1. /\ c = ForgetCmd => c[1] = "forget"
          /\ c = CompareCmd => c[1] = "compare"
          /\ c = WriteCmd => c[1] = "write"
          /\ c = TestCmd => c[1] = "test"
          /\ c = RestartCmd => c[1] = "restart"
          /\ c = RememberCmd => c[1] = "remember"
      BY CommandNames
    <2>2. QED
      BY <1>1, <1>2, <2>1, ActionNames DEF Command
  <1>4. Done(w) => todo'[w] = Tail(todo[w])
    BY <1>1 DEF Done
  <1>5. job' = job
    BY Zenon DEF Command, RunFlush, RunAppend, DeleteJump, InsertJump, Clamp, Accept, CheckZones,
       ReadVPNDNS, Forget, Compare, Write, Test, Restart, WriteFails, Serve, ServeFails, Remember
  <1>6. Forget(w) =>
          todo'[w] = Tail(todo[w]) /\ conf'[w] = "direct" /\ lastDnsmasqConfig' = NoCache
    <2>1. Forget(w) => /\ Done(w) /\ conf' = [conf EXCEPT ![w] = "direct"]
                       /\ lastDnsmasqConfig' = NoCache
      BY Zenon DEF Forget
    <2>2. QED
      BY <1>1, <1>4, <2>1
  <1>7. Compare(w) =>
          conf[w] = lastDnsmasqConfig \/ (todo'[w] = Tail(todo[w]) /\ conf' = conf)
    BY <1>4 DEF Compare
  <1>8. Write(w) => todo'[w] = Tail(todo[w]) /\ conf' = conf /\ dnsFile' = conf[w]
    BY <1>4 DEF Write
  <1>9. Test(w) => todo'[w] = Tail(todo[w]) /\ conf' = conf /\ dnsFile' = dnsFile
    BY <1>4 DEF Test, dnsVars
  <1>10. Restart(w) => /\ todo'[w] = Tail(todo[w]) /\ conf' = conf
                       /\ dnsFile' = dnsFile /\ dnsServed' = dnsFile
    <2> SUFFICES ASSUME Restart(w) PROVE FileSeen = {dnsFile}
      BY <1>4 DEF Restart
    <2>1. ~Does(w, "write")
      BY DEF Restart, Does
    <2>2. \A v \in Workers : ~Does(v, "write")
      BY <2>1 DEF Alone, Does
    <2>3. QED
      BY <2>2 DEF FileSeen
  <1>11. Remember(w) => /\ todo'[w] = Tail(todo[w]) /\ conf'[w] = "direct"
                        /\ dnsFile' = dnsFile /\ dnsServed' = dnsServed
    BY <1>1, <1>4 DEF Remember, Dropped
  <1>12. QED
    BY <1>3, <1>5, <1>6, <1>7, <1>8, <1>9, <1>10, <1>11

\* The last commands stay the last, and none of them is gone before its time.
LEMMA DirectTailStays ==
    ASSUME NEW q \in Seq(CommandSet), NEW r \in Seq(CommandSet), q # <<>>, Leaves(q, r),
           DirectTail(q)
    PROVE  /\ DirectTail(r)
           /\ Len(q) > 6 => Len(r) >= 6
           /\ Len(q) = 6 => q[1] = ForgetCmd
           /\ Len(q) = 5 => q[1] = CompareCmd
           /\ Len(q) = 4 => q[1] = WriteCmd
           /\ Len(q) = 3 => q[1] = TestCmd
           /\ Len(q) = 2 => q[1] = RestartCmd
           /\ Len(q) = 1 => q[1] = RememberCmd
           /\ Len(q) \in Nat \ {0} /\ Len(Tail(q)) = Len(q) - 1
  <1>1. /\ Len(q) \in Nat \ {0} /\ Len(r) \in Nat /\ Len(Tail(q)) = Len(q) - 1
        /\ Len(q) - 1 \in Before(q) /\ End(q, Len(q) - 1) = q[1]
    BY TailIsRest, HeadHasPlace
  <1>2. ASSUME NEW n \in 1 .. 6, Len(q) = n PROVE q[1] = ApplyDirectDNS[7 - n]
    <2>1. Len(q) - 1 < 6 /\ 6 - (Len(q) - 1) = 7 - n
      BY <1>2
    <2>2. End(q, Len(q) - 1) = ApplyDirectDNS[6 - (Len(q) - 1)]
      BY <1>1, <2>1 DEF DirectTail
    <2>3. QED
      BY <1>1, <2>1, <2>2
  <1>3. /\ Len(q) = 6 => q[1] = ForgetCmd
        /\ Len(q) = 5 => q[1] = CompareCmd
        /\ Len(q) = 4 => q[1] = WriteCmd
        /\ Len(q) = 3 => q[1] = TestCmd
        /\ Len(q) = 2 => q[1] = RestartCmd
        /\ Len(q) = 1 => q[1] = RememberCmd
    <2>1. ASSUME NEW n \in 1 .. 6, NEW i \in 1 .. 6, 7 - n = i, Len(q) = n
          PROVE  q[1] = ApplyDirectDNS[i]
      BY <1>2, <2>1
    <2>2. Len(q) = 6 => q[1] = ApplyDirectDNS[1]
      <3>1. 6 \in 1 .. 6 /\ 1 \in 1 .. 6 /\ 7 - 6 = 1
        OBVIOUS
      <3>2. QED
        BY <2>1, <3>1
    <2>3. Len(q) = 5 => q[1] = ApplyDirectDNS[2]
      <3>1. 5 \in 1 .. 6 /\ 2 \in 1 .. 6 /\ 7 - 5 = 2
        OBVIOUS
      <3>2. QED
        BY <2>1, <3>1
    <2>4. Len(q) = 4 => q[1] = ApplyDirectDNS[3]
      <3>1. 4 \in 1 .. 6 /\ 3 \in 1 .. 6 /\ 7 - 4 = 3
        OBVIOUS
      <3>2. QED
        BY <2>1, <3>1
    <2>5. Len(q) = 3 => q[1] = ApplyDirectDNS[4]
      <3>1. 3 \in 1 .. 6 /\ 4 \in 1 .. 6 /\ 7 - 3 = 4
        OBVIOUS
      <3>2. QED
        BY <2>1, <3>1
    <2>6. Len(q) = 2 => q[1] = ApplyDirectDNS[5]
      <3>1. 2 \in 1 .. 6 /\ 5 \in 1 .. 6 /\ 7 - 2 = 5
        OBVIOUS
      <3>2. QED
        BY <2>1, <3>1
    <2>7. Len(q) = 1 => q[1] = ApplyDirectDNS[6]
      <3>1. 1 \in 1 .. 6 /\ 6 \in 1 .. 6 /\ 7 - 1 = 6
        OBVIOUS
      <3>2. QED
        BY <2>1, <3>1
    <2>8. QED
      BY <2>2, <2>3, <2>4, <2>5, <2>6, <2>7, DNSCommands
  <1>4. ASSUME NEW k \in Before(r), k < 6 PROVE End(r, k) = ApplyDirectDNS[6 - k]
    <2>1. ~(q[1] = ZonesCmd /\ k >= Len(q) - 1)
      <3>1. ASSUME q[1] = ZonesCmd, k >= Len(q) - 1 PROVE FALSE
        <4>1. Len(q) \in {1, 2, 3, 4, 5, 6}
          <5> DEFINE l == Len(q)
                     m == Len(r)
          <5>1. l \in Nat \ {0} /\ m \in Nat /\ k \in 0 .. m - 1 /\ k >= l - 1
            BY <1>1, <1>4, <3>1 DEF Before
          <5> HIDE DEF l, m
          <5>2. l \in {1, 2, 3, 4, 5, 6}
            BY <1>4, <5>1
          <5>3. QED
            BY <5>2 DEF l
        <4>2. q[1] \in {ForgetCmd, CompareCmd, WriteCmd, TestCmd, RestartCmd, RememberCmd}
          BY <1>3, <4>1
        <4>3. QED
          BY <3>1, <4>2, CommandNames
      <3>2. QED
        BY <3>1
    <2>2. k \in Before(q) /\ End(r, k) = End(q, k)
      BY <2>1 DEF Leaves
    <2>3. QED
      BY <1>4, <2>2 DEF DirectTail
  <1>5. ASSUME Len(q) > 6 PROVE Len(r) >= 6
    <2>1. 5 \in Before(q) /\ 5 # Len(q) - 1
      BY <1>1, <1>5 DEF Before
    <2>2. End(q, 5) = ApplyDirectDNS[6 - 5] /\ 6 - 5 = 1
      BY <2>1 DEF DirectTail
    <2>3. End(q, 5) = ForgetCmd
      BY <2>2, DNSCommands
    <2>4. ForgetCmd \notin Writing
      BY CommandNames DEF Writing
    <2>5. 5 \in Before(r)
      BY <2>1, <2>3, <2>4 DEF Leaves
    <2>6. QED
      BY <1>1, <2>5 DEF Before
  <1>6. QED
    BY <1>1, <1>3, <1>4, <1>5 DEF DirectTail

\* Whatever a goroutine does while nothing disturbs it, the rest of its job is as before.
LEMMA SoloStep ==
    ASSUME TypesInv, NEW w \in Workers, Command(w), clean'[w], Alone(w),
           RulesAhead(w), DirectAhead(w)
    PROVE  RulesAhead(w)' /\ DirectAhead(w)'
  <1> DEFINE q == todo[w]
             r == todo'[w]
  <1>1. q \in Seq(CommandSet) /\ r \in Seq(CommandSet) /\ q # <<>> /\ Leaves(q, r)
    BY CommandLeaves
  <1>2. job' = job
    BY DirectCommands
  <1>3. RulesAhead(w)'
    <2> SUFFICES ASSUME job[w] \in {"direct", "vpn"}, NEW chain \in RouterChains
                 PROVE  Sets(r, chain, rules'[chain], Target(chain, job[w]))
      BY <1>2 DEF RulesAhead
    <2>1. Sets(q, chain, rules[chain], Target(chain, job[w]))
      BY DEF RulesAhead
    <2>2. Changes(q[1], chain, rules[chain], rules'[chain])
      BY RulesChange
    <2>3. QED
      BY <1>1, <2>1, <2>2, SetsStep
  <1>4. DirectAhead(w)'
    <2> SUFFICES ASSUME job[w] = "direct" PROVE DirectAhead(w)'
      BY <1>2 DEF DirectAhead
    <2> DEFINE l == Len(q)
               m == Len(r)
               t == Tail(q)
    <2>1. /\ DirectTail(q)
          /\ l <= 5 => conf[w] = "direct"
          /\ l = 5 => lastDnsmasqConfig = NoCache
          /\ l <= 3 => dnsFile = "direct"
          /\ l <= 1 => dnsServed = "direct"
      BY DEF DirectAhead
    <2>2. /\ DirectTail(r)
          /\ l > 6 => m >= 6
          /\ l = 6 => q[1] = ForgetCmd
          /\ l = 5 => q[1] = CompareCmd
          /\ l = 4 => q[1] = WriteCmd
          /\ l = 3 => q[1] = TestCmd
          /\ l = 2 => q[1] = RestartCmd
          /\ l = 1 => q[1] = RememberCmd
          /\ l \in Nat \ {0} /\ m \in Nat /\ (r = t => m = l - 1)
      <3>1. DirectTail(q)
        BY <2>1
      <3> HIDE DEF q, r
      <3>2. Len(t) = l - 1
        BY <1>1, <3>1, DirectTailStays
      <3>3. m \in Nat
        BY <1>1
      <3>4. r = t => m = l - 1
        BY <3>2, Zenon
      <3>5. /\ DirectTail(r) /\ l \in Nat \ {0}
            /\ l > 6 => m >= 6
            /\ l = 6 => q[1] = ForgetCmd
            /\ l = 5 => q[1] = CompareCmd
            /\ l = 4 => q[1] = WriteCmd
            /\ l = 3 => q[1] = TestCmd
            /\ l = 2 => q[1] = RestartCmd
            /\ l = 1 => q[1] = RememberCmd
        BY <1>1, <3>1, DirectTailStays
      <3>6. QED
        BY <3>3, <3>4, <3>5, Zenon
    <2>3. "direct" # NoCache
      BY Zenon DEF NoCache
    <2>4. /\ q[1] = ForgetCmd =>
               r = t /\ conf'[w] = "direct" /\ lastDnsmasqConfig' = NoCache
          /\ q[1] = CompareCmd => conf[w] = lastDnsmasqConfig \/ (r = t /\ conf' = conf)
          /\ q[1] = WriteCmd => r = t /\ conf' = conf /\ dnsFile' = conf[w]
          /\ q[1] = TestCmd => r = t /\ conf' = conf /\ dnsFile' = dnsFile
          /\ q[1] = RestartCmd =>
               r = t /\ conf' = conf /\ dnsFile' = dnsFile /\ dnsServed' = dnsFile
          /\ q[1] = RememberCmd =>
               r = t /\ conf'[w] = "direct" /\ dnsFile' = dnsFile /\ dnsServed' = dnsServed
      BY DirectCommands
    <2> SUFFICES /\ m <= 5 => conf'[w] = "direct"
                 /\ m = 5 => lastDnsmasqConfig' = NoCache
                 /\ m <= 3 => dnsFile' = "direct"
                 /\ m <= 1 => dnsServed' = "direct"
      BY <1>2, <2>2 DEF DirectAhead
    <2> HIDE DEF q, r, l, m, t
    <2>5. l > 6 \/ l = 6 \/ l = 5 \/ l = 4 \/ l = 3 \/ l = 2 \/ l = 1
      BY <2>2
    <2>6. CASE l > 6
      BY <2>2, <2>6
    <2>7. CASE l = 6
      <3>1. m = 5 /\ r = t
        BY <2>2, <2>4, <2>7
      <3>2. QED
        BY <2>2, <2>4, <2>7, <3>1
    <2>8. CASE l = 5
      <3>1. conf[w] = "direct" /\ conf[w] # lastDnsmasqConfig
        BY <2>1, <2>3, <2>8
      <3>2. m = 4 /\ conf' = conf
        BY <2>2, <2>4, <2>8, <3>1
      <3>3. QED
        BY <3>1, <3>2
    <2>9. CASE l = 4
      <3>1. m = 3 /\ conf' = conf /\ dnsFile' = conf[w]
        BY <2>2, <2>4, <2>9
      <3>2. conf[w] = "direct"
        BY <2>1, <2>9
      <3>3. QED
        BY <3>1, <3>2
    <2>10. CASE l = 3
      <3>1. m = 2 /\ conf' = conf /\ dnsFile' = dnsFile
        BY <2>2, <2>4, <2>10
      <3>2. conf[w] = "direct" /\ dnsFile = "direct"
        BY <2>1, <2>10
      <3>3. QED
        BY <3>1, <3>2
    <2>11. CASE l = 2
      <3>1. m = 1 /\ conf' = conf /\ dnsFile' = dnsFile /\ dnsServed' = dnsFile
        BY <2>2, <2>4, <2>11
      <3>2. conf[w] = "direct" /\ dnsFile = "direct"
        BY <2>1, <2>11
      <3>3. QED
        BY <3>1, <3>2
    <2>12. CASE l = 1
      <3>1. m = 0 /\ conf'[w] = "direct" /\ dnsFile' = dnsFile /\ dnsServed' = dnsServed
        BY <2>2, <2>4, <2>12
      <3>2. dnsFile = "direct" /\ dnsServed = "direct"
        BY <2>1, <2>12
      <3>3. QED
        BY <3>1, <3>2
    <2>13. QED
      BY <2>5, <2>6, <2>7, <2>8, <2>9, <2>10, <2>11, <2>12
  <1>5. QED
    BY <1>3, <1>4

\* A job that has just begun, with nothing else to do.
LEMMA JobBegins ==
    ASSUME NEW w \in Workers, NEW j \in Jobs, job[w] = j,
           \/ todo[w] = Commands(j)
           \/ j \in {"direct", "vpn"} /\ todo[w] = Boot \o Commands(j)
    PROVE  RulesAhead(w) /\ DirectAhead(w)
  <1>2. RulesAhead(w)
    BY JobSets DEF RulesAhead
  <1>3. ASSUME NEW q, DirectTail(q), Len(q) \in Nat, Len(q) >= 6, todo[w] = q
        PROVE  DirectAhead(w)
    <2> DEFINE l == Len(q)
    <2>1. l \in Nat /\ l >= 6
      BY <1>3
    <2> HIDE DEF l
    <2>2. ~(l <= 5) /\ l # 5 /\ ~(l <= 3) /\ ~(l <= 1)
      BY <2>1
    <2>3. QED
      BY <1>3, <2>2 DEF DirectAhead, l
  <1>4. DirectAhead(w)
    BY <1>3, DirectEnds DEF DirectAhead
  <1>5. QED
    BY <1>2, <1>4

JobBegun ==
    \A w \in Workers, j \in Jobs :
      job[w] = j
      /\ (todo[w] = Commands(j) \/ (j \in {"direct", "vpn"} /\ todo[w] = Boot \o Commands(j)))
        => RulesAhead(w) /\ DirectAhead(w)

LEMMA JobIsBegun == JobBegun
  BY JobBegins DEF JobBegun

\* Only one goroutine has anything to do, and that is all of a job.
Begun == \E first \in Workers, j \in {"direct", "vpn"} :
    /\ OnlyOne(first, Boot \o Commands(j))
    /\ job[first] = j
    /\ clean = [w \in Workers |-> w = first]

LEMMA BegunAlone == Begun => SoloInv
  <1> SUFFICES ASSUME Begun, NEW w \in Workers, clean[w], Busy(w)
               PROVE  Alone(w) /\ RulesAhead(w) /\ DirectAhead(w)
    BY DEF SoloInv
  <1>1. PICK first \in Workers, j \in {"direct", "vpn"} :
          /\ OnlyOne(first, Boot \o Commands(j))
          /\ job[first] = j
          /\ clean = [v \in Workers |-> v = first]
    BY DEF Begun
  <1>2. w = first
    BY <1>1
  <1>3. todo[w] = Boot \o Commands(j) /\ \A v \in Workers \ {w} : todo[v] = <<>>
    BY <1>1, <1>2 DEF OnlyOne
  <1>4. j \in Jobs /\ j \in {"direct", "vpn"}
    BY DEF Jobs
  <1>5. QED
    BY <1>1, <1>2, <1>3, <1>4, JobBegins DEF Alone, Busy

SoloTypes == TypesInv /\ SoloInv

LEMMA SoloInit == Init => SoloTypes
  <1>1. Init => Begun
    <2> SUFFICES ASSUME Init PROVE Begun
      OBVIOUS
    <2>1. PICK first \in Workers, j \in {"direct", "vpn"} :
            /\ todo = [w \in Workers |-> IF w = first THEN Boot \o Commands(j) ELSE <<>>]
            /\ job = [w \in Workers |-> j]
            /\ clean = [w \in Workers |-> w = first]
      BY Zenon DEF Init
    <2>2. QED
      BY <2>1 DEF Begun, OnlyOne
  <1>2. QED
    BY <1>1, BegunAlone, TypesInit DEF SoloTypes

LEMMA SoloCommand ==
    ASSUME SoloTypes, NEW u \in Workers, Command(u)
    PROVE  SoloInv'
  <1> SUFFICES ASSUME NEW w \in Workers, clean'[w], todo'[w] # <<>>
               PROVE  Alone(w)' /\ RulesAhead(w)' /\ DirectAhead(w)'
    BY DEF SoloInv, Busy
  <1>1. TypesInv /\ SoloInv
    BY DEF SoloTypes
  <1>2. Busy(u) /\ \A v \in Workers : v # u => todo'[v] = todo[v]
    BY <1>1, CommandSteps, CommandLeaves DEF TypesInv, FirewallInv
  <1>3. clean' = clean \/ clean' = [clean EXCEPT ![u] = FALSE]
    BY Zenon DEF Command, RunFlush, RunAppend, DeleteJump, InsertJump, Clamp, Accept, CheckZones,
       ReadVPNDNS, Forget, Compare, Write, Test, Restart, WriteFails, Serve, ServeFails, Remember,
       chainVars, dnsVars, countVars
  <1>4. clean[w]
    BY <1>1, <1>3 DEF TypesInv, SimpleTypes
  <1>5. w = u
    <2>1. ASSUME w # u PROVE FALSE
      <3>1. Busy(w)
        BY <1>2, <2>1 DEF Busy
      <3>2. Alone(w)
        BY <1>1, <1>4, <3>1 DEF SoloInv
      <3>3. QED
        BY <1>2, <2>1, <3>2 DEF Alone
    <2>2. QED
      BY <2>1
  <1>6. Alone(w) /\ RulesAhead(w) /\ DirectAhead(w)
    BY <1>1, <1>2, <1>4, <1>5 DEF SoloInv
  <1>7. Alone(w)'
    BY <1>2, <1>5, <1>6 DEF Alone, Busy
  <1>8. RulesAhead(w)' /\ DirectAhead(w)'
    BY <1>1, <1>5, <1>6, SoloStep
  <1>9. QED
    BY <1>7, <1>8

LEMMA SoloStart ==
    ASSUME SoloTypes, NEW u \in Workers, NEW j \in Jobs, Start(u, j)
    PROVE  SoloInv'
  <1> SUFFICES ASSUME NEW w \in Workers, clean'[w], todo'[w] # <<>>
               PROVE  Alone(w)' /\ RulesAhead(w)' /\ DirectAhead(w)'
    BY DEF SoloInv, Busy
  <1>1. /\ todo \in [Workers -> Seq(CommandSet)] /\ job \in [Workers -> Jobs]
    BY DEF SoloTypes, TypesInv, SimpleTypes, FirewallInv, ShapeInv, TypeInv
  <1>2. /\ todo' = [todo EXCEPT ![u] = Commands(j)]
        /\ job' = [job EXCEPT ![u] = j]
        /\ clean' = [v \in Workers |-> IF v = u THEN Quiet ELSE clean[v] /\ ~Busy(v)]
    BY DEF Start
  <1>3. \A v \in Workers : v # u => todo'[v] = todo[v]
    BY <1>1, <1>2
  <1>4. w = u
    <2>1. ASSUME w # u PROVE FALSE
      <3>1. todo[w] = <<>>
        BY <1>2, <2>1 DEF Busy
      <3>2. QED
        BY <1>3, <2>1, <3>1
    <2>2. QED
      BY <2>1
  <1>5. Quiet
    BY <1>2, <1>4
  <1>6. Alone(w)'
    BY <1>3, <1>4, <1>5 DEF Alone, Quiet, Busy
  <1>7. todo'[w] = Commands(j) /\ job'[w] = j
    BY <1>1, <1>2, <1>4
  <1>8. JobBegun'
    BY JobIsBegun, PTL
  <1>9. RulesAhead(w)' /\ DirectAhead(w)'
    BY <1>7, <1>8 DEF JobBegun
  <1>10. QED
    BY <1>6, <1>9

LEMMA SoloCrash ==
    ASSUME SoloTypes, Crash
    PROVE  SoloInv'
  <1>1. Begun'
    <2>1. PICK first \in Workers, j \in {"direct", "vpn"} :
          /\ todo' = [w \in Workers |-> IF w = first THEN Boot \o Commands(j) ELSE <<>>]
          /\ job' = [job EXCEPT ![first] = j]
          /\ clean' = [w \in Workers |-> w = first]
      BY Zenon DEF Crash
    <2>2. job'[first] = j
      BY <2>1 DEF SoloTypes, TypesInv, SimpleTypes
    <2>3. QED
      BY <2>1, <2>2 DEF Begun, OnlyOne
  <1>2. QED
    BY <1>1, BegunAlone, PTL

LEMMA SoloNext ==
    ASSUME SoloTypes, [Next]_vars
    PROVE  SoloTypes'
  <1>1. TypesInv'
    BY TypesNext DEF SoloTypes
  <1>2. CASE Crash
    BY <1>1, <1>2, SoloCrash DEF SoloTypes
  <1>3. ASSUME NEW w \in Workers, Command(w) PROVE SoloTypes'
    BY <1>1, <1>3, SoloCommand DEF SoloTypes
  <1>4. ASSUME NEW w \in Workers, NEW j \in Jobs, Start(w, j) PROVE SoloTypes'
    BY <1>1, <1>4, SoloStart DEF SoloTypes
  <1>5. CASE UNCHANGED vars
    <2>1. SoloInv'
      BY <1>5 DEF SoloTypes, SoloInv, Alone, RulesAhead, DirectAhead, Busy, vars, chainVars,
                  dnsVars
    <2>2. QED
      BY <1>1, <2>1 DEF SoloTypes
  <1>6. QED
    BY <1>2, <1>3, <1>4, <1>5 DEF Next

LEMMA SoloInvIsInvariant == Spec => []SoloTypes
  <1>1. Init => SoloTypes
    BY SoloInit
  <1>2. SoloTypes /\ [Next]_vars => SoloTypes'
    BY SoloNext
  <1>3. QED
    BY <1>1, <1>2, PTL DEF Spec

\* A job ends with a command of its own, after which nothing of it is ahead.
LEMMA EndsWithCommand ==
    ASSUME SoloTypes, [Next]_vars, NEW w \in Workers, clean'[w], Ends(w), restarts' = restarts
    PROVE  /\ RulesAhead(w)' /\ DirectAhead(w)' /\ job' = job
           /\ todo'[w] = <<>>
  <1>1. TypesInv /\ SoloInv /\ restarts \in Nat /\ todo \in [Workers -> Seq(CommandSet)]
        /\ Busy(w) /\ todo'[w] = <<>>
    BY ForwardingAssumption
       DEF SoloTypes, TypesInv, SimpleTypes, FirewallInv, ShapeInv, TypeInv, Ends
  <1>2. Command(w)
    <2>1. ~Crash
      <3>1. Crash => restarts' = restarts + 1
        BY Zenon DEF Crash
      <3>2. restarts + 1 # restarts
        BY <1>1
      <3>3. QED
        BY <3>1, <3>2
    <2>2. ASSUME NEW u \in Workers, u # w, Command(u) PROVE FALSE
      <3>1. todo'[w] = todo[w]
        BY <1>1, <2>2, CommandLeaves
      <3>2. QED
        BY <1>1, <3>1 DEF Busy
    <2>3. ASSUME NEW u \in Workers, NEW j \in Jobs, Start(u, j) PROVE FALSE
      <3>1. ~Busy(u) /\ todo' = [todo EXCEPT ![u] = Commands(j)]
        BY <2>3 DEF Start
      <3>2. todo'[w] = todo[w]
        BY <1>1, <3>1
      <3>3. QED
        BY <1>1, <3>2 DEF Busy
    <2>4. todo' # todo
      BY <1>1 DEF Busy
    <2>5. QED
      BY <2>1, <2>2, <2>3, <2>4 DEF Next, vars
  <1>3. clean[w]
    <2>1. clean' = clean \/ clean' = [clean EXCEPT ![w] = FALSE]
      BY <1>2, Zenon DEF Command, RunFlush, RunAppend, DeleteJump, InsertJump, Clamp, Accept, CheckZones,
       ReadVPNDNS, Forget, Compare, Write, Test, Restart, WriteFails, Serve, ServeFails, Remember,
       chainVars, dnsVars, countVars
    <2>2. QED
      BY <1>1, <2>1 DEF TypesInv, SimpleTypes
  <1>4. Alone(w) /\ RulesAhead(w) /\ DirectAhead(w)
    BY <1>1, <1>3 DEF SoloInv
  <1>5. QED
    BY <1>1, <1>2, <1>4, SoloStep, DirectCommands

\* Whatever an earlier overlap, failure or crash has left, ApplyDirectNAT or ApplyVPNNAT
\* that nothing overlaps ends with its rules in both chains and no others.
THEOREM SoloJobsSetTheirRules == Spec => SoloJobSetsRules
  <1>1. ASSUME SoloTypes, [Next]_vars, NEW w \in Workers, clean'[w], Ends(w),
               job[w] \in {"direct", "vpn"}, restarts' = restarts
        PROVE  rules'["nat"] = NATOf(job[w]) /\ rules'["fwd"] = ForwardOf(job[w])
    <2>1. RulesAhead(w)' /\ job' = job /\ todo'[w] = <<>>
      BY <1>1, EndsWithCommand
    <2>2. \A chain \in RouterChains :
            Sets(<<>>, chain, rules'[chain], Target(chain, job[w]))
      BY <1>1, <2>1 DEF RulesAhead
    <2>3. \A c : ~Occurs(c, <<>>)
      BY DEF Occurs
    <2>4. \A chain \in RouterChains : rules'[chain] = Target(chain, job[w])
      BY <2>2, <2>3 DEF Sets, Adds
    <2>5. QED
      BY <2>4 DEF RouterChains, Target
  <1>2. SoloTypes /\ [Next]_vars =>
          [\A w \in Workers :
             clean'[w] /\ Ends(w) /\ job[w] \in {"direct", "vpn"} /\ restarts' = restarts
             => rules'["nat"] = NATOf(job[w]) /\ rules'["fwd"] = ForwardOf(job[w])]_vars
    BY <1>1
  <1>3. QED
    BY <1>2, SoloInvIsInvariant, PTL DEF Spec, SoloJobSetsRules

\* ApplyDirectNAT that nothing overlaps, and in which dnsmasq does not fail, is never
\* skipped by the cache: neither the file nor dnsmasq has a zone of the VPN afterwards.
THEOREM SoloDirectForgetsZones == Spec => SoloDirectDropsZones
  <1>1. ASSUME SoloTypes, [Next]_vars, NEW w \in Workers, clean'[w], Ends(w),
               job[w] = "direct", restarts' = restarts
        PROVE  dnsFile' = "direct" /\ dnsServed' = "direct"
    <2>1. DirectAhead(w)' /\ job' = job /\ todo'[w] = <<>>
      BY <1>1, EndsWithCommand
    <2>2. Len(<<>>) <= 3 /\ Len(<<>>) <= 1
      OBVIOUS
    <2>3. QED
      BY <1>1, <2>1, <2>2 DEF DirectAhead
  <1>2. SoloTypes /\ [Next]_vars =>
          [\A w \in Workers : clean'[w] /\ Ends(w) /\ job[w] = "direct" /\ restarts' = restarts
             => dnsFile' = "direct" /\ dnsServed' = "direct"]_vars
    BY <1>1
  <1>3. QED
    BY <1>2, SoloInvIsInvariant, PTL DEF Spec, SoloDirectDropsZones
=============================================================================
