-------------------------- MODULE ForwardingProofs --------------------------
(***************************************************************************)
(* Proofs about Forwarding, for any number of goroutines, jobs, failures   *)
(* and restarts: what holds when all goroutines are done is what each of   *)
(* them still has to do before.                                            *)
(***************************************************************************)
EXTENDS Forwarding, SequenceTheorems, FiniteSetTheorems, TLAPS

\* Rules that every job which flushes them puts back, by chain.
Kept == {<<"in", "mgmt">>, <<"in", "ifaces">>,
         <<"nat", "wan">>, <<"fwd", "lan-wan">>, <<"fwd", "wan-lan">>}

DeleteCmd == <<"deleteJump">>
InsertCmd == <<"insertJump">>
ZonesCmd == <<"zones">>
ReadCmd == <<"readVPNDNS">>
ForgetCmd == <<"forget">>
CompareCmd == <<"compare">>
WriteCmd == <<"write">>
TestCmd == <<"test">>
RestartCmd == <<"restart">>
RememberCmd == <<"remember">>
ServeCmd == <<"serve">>
ClampCmd == <<"clamp">>
AcceptCmd == <<"accept">>

RulesOf(chain) ==
    IF chain = "in" THEN ManagementRules
    ELSE ForwardWAN \cup ForwardTunnel \cup {"wan", "tun"}

Flushes == {Flush(c) : c \in Chains}
Appends == UNION {{Append1(c, r) : r \in RulesOf(c)} : c \in Chains}
CommandSet ==
    Flushes \cup Appends \cup
    {DeleteCmd, InsertCmd, ZonesCmd, ReadCmd, ForgetCmd, CompareCmd, WriteCmd, TestCmd,
     RestartCmd, RememberCmd, ServeCmd, ClampCmd, AcceptCmd}

Occurs(c, q) == \E i \in 1 .. Len(q) : q[i] = c
Followed(q, a, b) == \A i \in 1 .. Len(q) : q[i] = a => \E j \in i + 1 .. Len(q) : q[j] = b

-----------------------------------------------------------------------------
(* Commands.                                                               *)

LEMMA KeptAre ==
    /\ \A k \in Kept : k[1] \in Chains /\ k[2] \in RulesOf(k[1])
    /\ \A k \in Kept : Flush(k[1]) \in CommandSet /\ Append1(k[1], k[2]) \in CommandSet
  <1>1. \A k \in Kept : k[1] \in Chains /\ k[2] \in RulesOf(k[1])
    BY DEF Kept, Chains, RulesOf, ManagementRules, ForwardWAN
  <1>2. QED
    BY <1>1 DEF CommandSet, Flushes, Appends

LEMMA CommandNames ==
    /\ \A c : Flush(c)[1] = "flush" /\ Flush(c)[2] = c
    /\ \A c, r : Append1(c, r)[1] = "append" /\ Append1(c, r)[2] = c /\ Append1(c, r)[3] = r
    /\ DeleteCmd[1] = "deleteJump" /\ InsertCmd[1] = "insertJump" /\ ZonesCmd[1] = "zones"
    /\ ReadCmd[1] = "readVPNDNS" /\ ForgetCmd[1] = "forget" /\ CompareCmd[1] = "compare"
    /\ WriteCmd[1] = "write" /\ TestCmd[1] = "test" /\ RestartCmd[1] = "restart"
    /\ RememberCmd[1] = "remember" /\ ServeCmd[1] = "serve" /\ ClampCmd[1] = "clamp"
    /\ AcceptCmd[1] = "accept"
  BY DEF Flush, Append1, DeleteCmd, InsertCmd, ZonesCmd, ReadCmd, ForgetCmd, CompareCmd,
         WriteCmd, TestCmd, RestartCmd, RememberCmd, ServeCmd, ClampCmd, AcceptCmd

\* A command is known by its name, and commands with different names differ.
LEMMA NamesAreUnique ==
    ASSUME NEW c \in CommandSet
    PROVE  /\ c[1] = "flush" => \E ch \in Chains : c = Flush(ch)
           /\ c[1] = "append" => \E ch \in Chains : \E r \in RulesOf(ch) : c = Append1(ch, r)
           /\ c[1] = "deleteJump" => c = DeleteCmd
           /\ c[1] = "insertJump" => c = InsertCmd
           /\ c[1] = "zones" => c = ZonesCmd
           /\ c[1] = "readVPNDNS" => c = ReadCmd
           /\ c[1] = "forget" => c = ForgetCmd
           /\ c[1] = "compare" => c = CompareCmd
           /\ c[1] = "write" => c = WriteCmd
           /\ c[1] = "test" => c = TestCmd
           /\ c[1] = "restart" => c = RestartCmd
           /\ c[1] = "remember" => c = RememberCmd
           /\ c[1] = "serve" => c = ServeCmd
           /\ c[1] = "clamp" => c = ClampCmd
           /\ c[1] = "accept" => c = AcceptCmd
  <1>1. CASE c \in Flushes
    <2>1. PICK ch \in Chains : c = Flush(ch)
      BY <1>1 DEF Flushes
    <2>2. QED
      BY <2>1, CommandNames
  <1>2. CASE c \in Appends
    <2>1. PICK ch \in Chains : \E r \in RulesOf(ch) : c = Append1(ch, r)
      BY <1>2 DEF Appends
    <2>2. QED
      BY <2>1, CommandNames
  <1>3. QED
    BY <1>1, <1>2, CommandNames DEF CommandSet

LEMMA PlainCommands ==
    {DeleteCmd, InsertCmd, ZonesCmd, ReadCmd, ForgetCmd, CompareCmd, WriteCmd, TestCmd,
     RestartCmd, RememberCmd, ServeCmd, ClampCmd, AcceptCmd} \subseteq CommandSet
  BY DEF CommandSet

-----------------------------------------------------------------------------
(* Sequences of commands.                                                  *)

\* A jump is inserted only after one was deleted, a text remembered only after
\* dnsmasq was restarted.
Inner == {InsertCmd, RememberCmd}
Needs(c) == IF c = InsertCmd THEN DeleteCmd ELSE RestartCmd
InsertsShape(q) ==
    \A i \in 1 .. Len(q) : q[i] \in Inner /\ i > 1 => q[i - 1] = Needs(q[i])

\* b comes right after a, and after a there are m commands at least.
Leads(q, a, b, m) == \A i \in 1 .. Len(q) : q[i] = a => i + m <= Len(q) /\ q[i + 1] = b

\* The steps of writeDnsmasqConfig come together.
WriteShape(q) ==
    /\ Leads(q, CompareCmd, WriteCmd, 4)
    /\ Leads(q, WriteCmd, TestCmd, 3)
    /\ Leads(q, TestCmd, RestartCmd, 2)
    /\ Leads(q, RestartCmd, RememberCmd, 1)

\* What has been deleted or flushed is put back.
FirewallShape(q) ==
    /\ Followed(q, DeleteCmd, InsertCmd)
    /\ Followed(q, Flush("in"), Append1("in", "mgmt"))
    /\ Followed(q, Flush("in"), Append1("in", "ifaces"))

\* Of a part of a job, and of a job.
PartShape(q) ==
    /\ q \in Seq(CommandSet)
    /\ InsertsShape(q) /\ WriteShape(q) /\ FirewallShape(q)

JobShape(q) ==
    /\ PartShape(q)
    /\ \A k \in Kept : Followed(q, Flush(k[1]), Append1(k[1], k[2]))

LEMMA Concatenation ==
    ASSUME NEW p \in Seq(CommandSet), NEW q \in Seq(CommandSet)
    PROVE  /\ p \o q \in Seq(CommandSet) /\ Len(p \o q) = Len(p) + Len(q)
           /\ Len(p) \in Nat /\ Len(q) \in Nat
           /\ \A i \in 1 .. Len(p) : (p \o q)[i] = p[i]
           /\ \A i \in 1 .. Len(q) : (p \o q)[Len(p) + i] = q[i]
           /\ \A i \in 1 .. Len(p) + Len(q) :
                i \in 1 .. Len(p) \/ \E j \in 1 .. Len(q) : i = Len(p) + j
  <1>1. \A i \in 1 .. Len(p) + Len(q) :
          i \in 1 .. Len(p) \/ \E j \in 1 .. Len(q) : i = Len(p) + j
    <2>1. SUFFICES ASSUME NEW i \in 1 .. Len(p) + Len(q), i \notin 1 .. Len(p)
                   PROVE  \E j \in 1 .. Len(q) : i = Len(p) + j
      OBVIOUS
    <2>2. i - Len(p) \in 1 .. Len(q) /\ i = Len(p) + (i - Len(p))
      BY <2>1
    <2>3. QED
      BY <2>2
  <1>2. QED
    BY <1>1

LEMMA OccursInConcatenation ==
    ASSUME NEW p \in Seq(CommandSet), NEW q \in Seq(CommandSet), NEW c
    PROVE  Occurs(c, p \o q) <=> Occurs(c, p) \/ Occurs(c, q)
  <1> DEFINE s == p \o q
  <1>1. /\ Len(s) = Len(p) + Len(q) /\ Len(p) \in Nat /\ Len(q) \in Nat
        /\ \A i \in 1 .. Len(p) : s[i] = p[i]
        /\ \A i \in 1 .. Len(q) : s[Len(p) + i] = q[i]
        /\ \A i \in 1 .. Len(p) + Len(q) :
             i \in 1 .. Len(p) \/ \E j \in 1 .. Len(q) : i = Len(p) + j
    BY Concatenation
  <1> HIDE DEF s
  <1>2. ASSUME NEW i \in 1 .. Len(p) PROVE i \in 1 .. Len(s)
    BY <1>1
  <1>3. ASSUME NEW i \in 1 .. Len(q) PROVE Len(p) + i \in 1 .. Len(s)
    BY <1>1
  <1>4. ASSUME Occurs(c, s) PROVE Occurs(c, p) \/ Occurs(c, q)
    <2>1. PICK i \in 1 .. Len(p) + Len(q) : s[i] = c
      BY <1>1, <1>4 DEF Occurs
    <2>2. QED
      BY <1>1, <2>1 DEF Occurs
  <1>5. ASSUME Occurs(c, p) PROVE Occurs(c, s)
    BY <1>1, <1>2, <1>5 DEF Occurs
  <1>6. ASSUME Occurs(c, q) PROVE Occurs(c, s)
    <2>1. PICK i \in 1 .. Len(q) : q[i] = c
      BY <1>6 DEF Occurs
    <2>2. s[Len(p) + i] = c
      BY <1>1, <2>1
    <2>3. QED
      BY <1>3, <2>2 DEF Occurs
  <1>7. QED
    BY <1>4, <1>5, <1>6 DEF s

LEMMA FollowedInConcatenation ==
    ASSUME NEW p \in Seq(CommandSet), NEW q \in Seq(CommandSet), NEW a, NEW b,
           Followed(q, a, b), Followed(p, a, b) \/ Occurs(b, q)
    PROVE  Followed(p \o q, a, b)
  <1> DEFINE s == p \o q
  <1>1. /\ Len(s) = Len(p) + Len(q) /\ Len(p) \in Nat /\ Len(q) \in Nat
        /\ \A i \in 1 .. Len(p) : s[i] = p[i]
        /\ \A i \in 1 .. Len(q) : s[Len(p) + i] = q[i]
        /\ \A i \in 1 .. Len(p) + Len(q) :
             i \in 1 .. Len(p) \/ \E j \in 1 .. Len(q) : i = Len(p) + j
    BY Concatenation
  <1> HIDE DEF s
  <1>2. ASSUME NEW i \in 1 .. Len(s), s[i] = a PROVE \E j \in i + 1 .. Len(s) : s[j] = b
    <2>1. CASE i \in 1 .. Len(p) /\ Followed(p, a, b)
      <3>1. PICK j \in i + 1 .. Len(p) : p[j] = b
        BY <1>1, <1>2, <2>1 DEF Followed
      <3>2. j \in i + 1 .. Len(s) /\ s[j] = b
        BY <1>1, <2>1, <3>1
      <3>3. QED
        BY <3>2
    <2>2. CASE i \in 1 .. Len(p) /\ Occurs(b, q)
      <3>1. PICK j \in 1 .. Len(q) : q[j] = b
        BY <2>2 DEF Occurs
      <3>2. Len(p) + j \in i + 1 .. Len(s) /\ s[Len(p) + j] = b
        BY <1>1, <2>2, <3>1
      <3>3. QED
        BY <3>2
    <2>3. ASSUME NEW k \in 1 .. Len(q), i = Len(p) + k
          PROVE  \E j \in i + 1 .. Len(s) : s[j] = b
      <3>1. PICK j \in k + 1 .. Len(q) : q[j] = b
        BY <1>1, <1>2, <2>3 DEF Followed
      <3>2. Len(p) + j \in i + 1 .. Len(s) /\ s[Len(p) + j] = b
        BY <1>1, <2>3, <3>1
      <3>3. QED
        BY <3>2
    <2>4. QED
      BY <1>1, <2>1, <2>2, <2>3
  <1>3. Followed(s, a, b)
    BY <1>2 DEF Followed
  <1>4. QED
    BY <1>3 DEF s

LEMMA LeadsInConcatenation ==
    ASSUME NEW p \in Seq(CommandSet), NEW q \in Seq(CommandSet), NEW a, NEW b,
           NEW m \in Nat \ {0}, Leads(p, a, b, m), Leads(q, a, b, m)
    PROVE  Leads(p \o q, a, b, m)
  <1> DEFINE s == p \o q
  <1>1. /\ Len(s) = Len(p) + Len(q) /\ Len(p) \in Nat /\ Len(q) \in Nat
        /\ \A i \in 1 .. Len(p) : s[i] = p[i]
        /\ \A i \in 1 .. Len(q) : s[Len(p) + i] = q[i]
        /\ \A i \in 1 .. Len(p) + Len(q) :
             i \in 1 .. Len(p) \/ \E j \in 1 .. Len(q) : i = Len(p) + j
    BY Concatenation
  <1> HIDE DEF s
  <1>2. ASSUME NEW i \in 1 .. Len(s), s[i] = a PROVE i + m <= Len(s) /\ s[i + 1] = b
    <2>1. CASE i \in 1 .. Len(p)
      <3>1. p[i] = a
        BY <1>1, <1>2, <2>1
      <3>2. i + m <= Len(p) /\ p[i + 1] = b
        BY <2>1, <3>1 DEF Leads
      <3>3. i + 1 \in 1 .. Len(p) /\ i + m <= Len(s)
        BY <1>1, <2>1, <3>2
      <3>4. QED
        BY <1>1, <3>2, <3>3
    <2>2. ASSUME NEW j \in 1 .. Len(q), i = Len(p) + j
          PROVE  i + m <= Len(s) /\ s[i + 1] = b
      <3>1. q[j] = a
        BY <1>1, <1>2, <2>2
      <3>2. j + m <= Len(q) /\ q[j + 1] = b
        BY <3>1 DEF Leads
      <3>3. j + 1 \in 1 .. Len(q) /\ i + 1 = Len(p) + (j + 1) /\ i + m <= Len(s)
        BY <1>1, <2>2, <3>2
      <3>4. QED
        BY <1>1, <3>2, <3>3
    <2>3. QED
      BY <1>1, <2>1, <2>2
  <1>3. Leads(s, a, b, m)
    BY <1>2 DEF Leads
  <1>4. QED
    BY <1>3 DEF s

LEMMA PartsTogether ==
    ASSUME NEW p, NEW q, PartShape(p), PartShape(q), q # <<>> => q[1] \notin Inner
    PROVE  PartShape(p \o q)
  <1> DEFINE s == p \o q
  <1>0. p \in Seq(CommandSet) /\ q \in Seq(CommandSet)
    BY DEF PartShape
  <1>1. /\ Len(s) = Len(p) + Len(q) /\ Len(p) \in Nat /\ Len(q) \in Nat
        /\ \A i \in 1 .. Len(p) : s[i] = p[i]
        /\ \A i \in 1 .. Len(q) : s[Len(p) + i] = q[i]
        /\ \A i \in 1 .. Len(p) + Len(q) :
             i \in 1 .. Len(p) \/ \E j \in 1 .. Len(q) : i = Len(p) + j
        /\ s \in Seq(CommandSet)
    BY <1>0, Concatenation
  <1>2. FirewallShape(s)
    BY <1>0, FollowedInConcatenation DEF PartShape, FirewallShape
  <1>3. WriteShape(s)
    BY <1>0, LeadsInConcatenation DEF PartShape, WriteShape
  <1> HIDE DEF s
  <1>4. InsertsShape(s)
    <2> SUFFICES ASSUME NEW i \in 1 .. Len(s), s[i] \in Inner, i > 1
                 PROVE  s[i - 1] = Needs(s[i])
      BY DEF InsertsShape
    <2>1. CASE i \in 1 .. Len(p)
      <3>1. p[i] = s[i] /\ i - 1 \in 1 .. Len(p)
        BY <1>1, <2>1
      <3>2. p[i - 1] = Needs(p[i])
        BY <2>1, <3>1 DEF PartShape, InsertsShape
      <3>3. QED
        BY <1>1, <3>1, <3>2
    <2>2. ASSUME NEW j \in 1 .. Len(q), i = Len(p) + j PROVE s[i - 1] = Needs(s[i])
      <3>1. q[j] = s[i] /\ q[j] \in Inner
        BY <1>1, <2>2
      <3>2. q # <<>> /\ j # 1
        BY <1>0, <2>2, <3>1
      <3>3. q[j - 1] = Needs(q[j])
        BY <1>1, <3>1, <3>2 DEF PartShape, InsertsShape
      <3>4. j - 1 \in 1 .. Len(q) /\ i - 1 = Len(p) + (j - 1)
        BY <1>1, <2>2, <3>2
      <3>5. QED
        BY <1>1, <3>1, <3>3, <3>4
    <2>3. QED
      BY <1>1, <2>1, <2>2
  <1>5. QED
    BY <1>1, <1>2, <1>3, <1>4 DEF PartShape, s

\* What is left of a sequence once its first n commands are gone.
Rest(r, q, n) ==
    /\ r \in Seq(CommandSet) /\ Len(q) = Len(r) + n
    /\ \A i \in 1 .. Len(r) : r[i] = q[i + n]

LEMMA RestIndices ==
    ASSUME NEW q \in Seq(CommandSet), NEW r, NEW n \in Nat, Rest(r, q, n)
    PROVE  /\ Len(r) \in Nat /\ Len(q) \in Nat
           /\ \A i \in 1 .. Len(r) : i + n \in 1 .. Len(q) /\ r[i] = q[i + n]
           /\ \A j \in 1 .. Len(q) : j > n => j - n \in 1 .. Len(r) /\ r[j - n] = q[j]
  <1>1. Len(r) \in Nat /\ Len(q) \in Nat /\ Len(q) = Len(r) + n
    BY DEF Rest
  <1>2. ASSUME NEW i \in 1 .. Len(r) PROVE i + n \in 1 .. Len(q) /\ r[i] = q[i + n]
    BY <1>1 DEF Rest
  <1>3. ASSUME NEW j \in 1 .. Len(q), j > n PROVE j - n \in 1 .. Len(r) /\ r[j - n] = q[j]
    <2>1. j - n \in 1 .. Len(r) /\ (j - n) + n = j
      BY <1>1, <1>3
    <2>2. QED
      BY <1>2, <2>1
  <1>4. QED
    BY <1>1, <1>2, <1>3

LEMMA RestFollowed ==
    ASSUME NEW q \in Seq(CommandSet), NEW r, NEW n \in Nat, Rest(r, q, n),
           NEW a, NEW b, Followed(q, a, b)
    PROVE  Followed(r, a, b)
  <1>1. ASSUME NEW i \in 1 .. Len(r), r[i] = a PROVE \E j \in i + 1 .. Len(r) : r[j] = b
    <2>1. i + n \in 1 .. Len(q) /\ q[i + n] = a
      BY <1>1, RestIndices
    <2>2. PICK j \in (i + n) + 1 .. Len(q) : q[j] = b
      BY <2>1 DEF Followed
    <2>3. j > n /\ j \in 1 .. Len(q)
      BY <1>1, <2>2, RestIndices
    <2>4. j - n \in i + 1 .. Len(r) /\ r[j - n] = b
      BY <1>1, <2>2, <2>3, RestIndices
    <2>5. QED
      BY <2>4
  <1>2. QED
    BY <1>1 DEF Followed

LEMMA RestLeads ==
    ASSUME NEW q \in Seq(CommandSet), NEW r, NEW n \in Nat, Rest(r, q, n),
           NEW a, NEW b, NEW m \in Nat \ {0}, Leads(q, a, b, m)
    PROVE  Leads(r, a, b, m)
  <1>1. ASSUME NEW i \in 1 .. Len(r), r[i] = a PROVE i + m <= Len(r) /\ r[i + 1] = b
    <2>1. i + n \in 1 .. Len(q) /\ q[i + n] = a
      BY <1>1, RestIndices
    <2>2. (i + n) + m <= Len(q) /\ q[(i + n) + 1] = b
      BY <2>1 DEF Leads
    <2>3. Len(q) = Len(r) + n /\ Len(r) \in Nat
      BY RestIndices DEF Rest
    <2>4. i + m <= Len(r) /\ i + 1 \in 1 .. Len(r) /\ (i + 1) + n = (i + n) + 1
      BY <2>2, <2>3
    <2>5. r[i + 1] = q[(i + 1) + n]
      BY <2>4, RestIndices
    <2>6. QED
      BY <2>2, <2>4, <2>5
  <1>2. QED
    BY <1>1 DEF Leads

LEMMA RestShape ==
    ASSUME NEW q, JobShape(q), NEW r, NEW n \in Nat, Rest(r, q, n)
    PROVE  JobShape(r)
  <1>0. q \in Seq(CommandSet) /\ r \in Seq(CommandSet)
    BY DEF JobShape, PartShape, Rest
  <1>1. FirewallShape(r) /\ \A k \in Kept : Followed(r, Flush(k[1]), Append1(k[1], k[2]))
    BY <1>0, RestFollowed DEF JobShape, PartShape, FirewallShape
  <1>2. InsertsShape(r)
    <2> SUFFICES ASSUME NEW i \in 1 .. Len(r), r[i] \in Inner, i > 1
                 PROVE  r[i - 1] = Needs(r[i])
      BY DEF InsertsShape
    <2>1. i - 1 \in 1 .. Len(r) /\ (i - 1) + n = (i + n) - 1 /\ i + n > 1
      BY <1>0, RestIndices
    <2>2. i + n \in 1 .. Len(q) /\ q[i + n] = r[i] /\ r[i - 1] = q[(i + n) - 1]
      BY <1>0, <2>1, RestIndices
    <2>3. QED
      BY <2>1, <2>2 DEF JobShape, PartShape, InsertsShape
  <1>3. WriteShape(r)
    BY <1>0, RestLeads DEF JobShape, PartShape, WriteShape
  <1>4. QED
    BY <1>0, <1>1, <1>2, <1>3 DEF JobShape, PartShape

-----------------------------------------------------------------------------
(* The jobs.                                                               *)

LEMMA CommandsDiffer ==
    /\ \A c, d : Flush(c) = Flush(d) => c = d
    /\ \A c, d, r, t : Append1(c, r) = Append1(d, t) => c = d /\ r = t
    /\ \A c, d, r : Flush(c) # Append1(d, r)
    /\ \A x \in {DeleteCmd, InsertCmd, ZonesCmd, ReadCmd, ForgetCmd, CompareCmd, WriteCmd,
                 TestCmd, RestartCmd, RememberCmd, ServeCmd, ClampCmd, AcceptCmd} :
         /\ \A c : x # Flush(c)
         /\ \A c, r : x # Append1(c, r)
  BY CommandNames

LEMMA PlainCommandsDiffer ==
    /\ InsertCmd \notin {DeleteCmd, ZonesCmd, ReadCmd, ForgetCmd, CompareCmd, WriteCmd,
                         TestCmd, RestartCmd, RememberCmd, ServeCmd, ClampCmd, AcceptCmd}
    /\ DeleteCmd \notin {InsertCmd, ZonesCmd, ReadCmd, ForgetCmd, CompareCmd, WriteCmd,
                         TestCmd, RestartCmd, RememberCmd, ServeCmd, ClampCmd, AcceptCmd}
    /\ CompareCmd \notin {ZonesCmd, ReadCmd, ForgetCmd, WriteCmd, TestCmd, RestartCmd,
                          RememberCmd, ServeCmd, ClampCmd, AcceptCmd}
    /\ WriteCmd \notin {ZonesCmd, ReadCmd, ForgetCmd, TestCmd, RestartCmd, RememberCmd,
                        ServeCmd, ClampCmd, AcceptCmd}
    /\ TestCmd \notin {ZonesCmd, ReadCmd, ForgetCmd, RestartCmd, RememberCmd, ServeCmd,
                       ClampCmd, AcceptCmd}
    /\ RestartCmd \notin {ZonesCmd, ReadCmd, ForgetCmd, RememberCmd, ServeCmd, ClampCmd, AcceptCmd}
    /\ ServeCmd \notin {ZonesCmd, ReadCmd, ForgetCmd, RememberCmd, ClampCmd, AcceptCmd}
    /\ RememberCmd \notin {ZonesCmd, ReadCmd, ForgetCmd, ClampCmd, AcceptCmd}
  BY CommandNames

\* A command that neither deletes, flushes, inserts nor writes.
Harmless(c) ==
    /\ c \in CommandSet
    /\ c \notin {DeleteCmd, InsertCmd, CompareCmd, WriteCmd, TestCmd, RestartCmd, RememberCmd}
    /\ c # Flush("in")

LEMMA HarmlessParts ==
    ASSUME NEW q \in Seq(CommandSet), \A i \in 1 .. Len(q) : Harmless(q[i])
    PROVE  PartShape(q) /\ (q # <<>> => q[1] \notin Inner)
  <1>1. InsertsShape(q)
    BY DEF InsertsShape, Harmless, Inner
  <1>2. WriteShape(q)
    BY DEF WriteShape, Leads, Harmless
  <1>3. FirewallShape(q)
    BY DEF FirewallShape, Followed, Harmless
  <1>4. q # <<>> => 1 \in 1 .. Len(q)
    OBVIOUS
  <1>5. QED
    BY <1>1, <1>2, <1>3, <1>4 DEF PartShape, Harmless, Inner

LEMMA FirewallPart ==
    /\ PartShape(ensureManagementFirewall) /\ ensureManagementFirewall[1] \notin Inner
    /\ \A c \in {Append1("in", "mgmt"), Append1("in", "ifaces"), InsertCmd} :
         Occurs(c, ensureManagementFirewall)
  <1> DEFINE FI == Flush("in")
             M == Append1("in", "mgmt")
             I == Append1("in", "ifaces")
             e == ensureManagementFirewall
  <1>1. e = <<FI, M, I, DeleteCmd, InsertCmd>>
    BY DEF ensureManagementFirewall, DeleteCmd, InsertCmd
  <1>2. {FI, M, I, DeleteCmd, InsertCmd} \subseteq CommandSet
    BY PlainCommands DEF CommandSet, Flushes, Appends, Chains, RulesOf, ManagementRules
  <1>3. /\ \A x \in {FI, M, I} : x \notin {DeleteCmd, InsertCmd, CompareCmd, WriteCmd, TestCmd,
                                        RestartCmd, RememberCmd}
        /\ DeleteCmd \notin {InsertCmd, CompareCmd, WriteCmd, TestCmd, RestartCmd, RememberCmd}
        /\ InsertCmd \notin {CompareCmd, WriteCmd, TestCmd, RestartCmd}
        /\ FI \notin {M, I} /\ M # I
    BY CommandsDiffer, PlainCommandsDiffer
  <1> HIDE DEF FI, M, I, e
  <1>4. /\ e \in Seq(CommandSet) /\ Len(e) = 5
        /\ e[1] = FI /\ e[2] = M /\ e[3] = I /\ e[4] = DeleteCmd /\ e[5] = InsertCmd
    BY <1>1, <1>2
  <1>5. \A i \in 1 .. 5 : i \in {1, 2, 3, 4, 5}
    OBVIOUS
  <1>6. InsertsShape(e)
    BY <1>3, <1>4, <1>5 DEF InsertsShape, Inner, Needs
  <1>7. WriteShape(e)
    BY <1>3, <1>4, <1>5 DEF WriteShape, Leads
  <1>8. Followed(e, DeleteCmd, InsertCmd) /\ Followed(e, FI, M) /\ Followed(e, FI, I)
    BY <1>3, <1>4, <1>5 DEF Followed
  <1>9. Occurs(M, e) /\ Occurs(I, e) /\ Occurs(InsertCmd, e)
    BY <1>4 DEF Occurs
  <1>10. QED
    BY <1>3, <1>4, <1>6, <1>7, <1>8, <1>9 DEF PartShape, FirewallShape, Inner, e, FI, M, I

LEMMA WritePart ==
    /\ PartShape(writeDnsmasqConfig) /\ writeDnsmasqConfig[1] \notin Inner
    /\ Occurs(CompareCmd, writeDnsmasqConfig)
  <1> DEFINE e == writeDnsmasqConfig
  <1>1. e = <<CompareCmd, WriteCmd, TestCmd, RestartCmd, RememberCmd>>
    BY DEF writeDnsmasqConfig, CompareCmd, WriteCmd, TestCmd, RestartCmd, RememberCmd
  <1> HIDE DEF e
  <1>2. /\ e \in Seq(CommandSet) /\ Len(e) = 5 /\ e[1] = CompareCmd /\ e[2] = WriteCmd
        /\ e[3] = TestCmd /\ e[4] = RestartCmd /\ e[5] = RememberCmd
    BY <1>1, PlainCommands
  <1>3. \A i \in 1 .. 5 : i \in {1, 2, 3, 4, 5}
    OBVIOUS
  <1>4. InsertsShape(e)
    BY <1>2, <1>3, PlainCommandsDiffer DEF InsertsShape, Inner, Needs
  <1>5. WriteShape(e)
    BY <1>2, <1>3, PlainCommandsDiffer DEF WriteShape, Leads
  <1>6. \A i \in 1 .. 5 : e[i] # Flush("in") /\ e[i] # DeleteCmd
    BY <1>2, <1>3, PlainCommandsDiffer, CommandsDiffer
  <1>7. FirewallShape(e)
    BY <1>2, <1>6 DEF FirewallShape, Followed
  <1>8. Occurs(CompareCmd, e) /\ e[1] \notin Inner
    BY <1>2, PlainCommandsDiffer DEF Occurs, Inner
  <1>9. QED
    BY <1>2, <1>4, <1>5, <1>7, <1>8 DEF PartShape, e

\* A part of a job that does not begin in the middle of an operation can follow any
\* other.
Part(q) == PartShape(q) /\ q # <<>> /\ q[1] \notin Inner
NoFlush(q) == \A i \in 1 .. Len(q) : q[i] \notin {Flush("nat"), Flush("fwd")}

LEMMA PartsJoin ==
    ASSUME NEW p, NEW q, Part(p), Part(q)
    PROVE  Part(p \o q) /\ (NoFlush(p) /\ NoFlush(q) => NoFlush(p \o q))
  <1> DEFINE s == p \o q
  <1>1. p \in Seq(CommandSet) /\ q \in Seq(CommandSet) /\ PartShape(s)
    BY PartsTogether DEF Part, PartShape
  <1>2. /\ Len(s) = Len(p) + Len(q) /\ Len(p) \in Nat /\ Len(q) \in Nat
        /\ \A i \in 1 .. Len(p) : s[i] = p[i]
        /\ \A i \in 1 .. Len(q) : s[Len(p) + i] = q[i]
        /\ \A i \in 1 .. Len(p) + Len(q) :
             i \in 1 .. Len(p) \/ \E j \in 1 .. Len(q) : i = Len(p) + j
    BY <1>1, Concatenation
  <1>3. Len(p) > 0
    BY <1>1 DEF Part
  <1> HIDE DEF s
  <1>4. s # <<>> /\ s[1] = p[1]
    BY <1>1, <1>2, <1>3
  <1>5. ASSUME NoFlush(p), NoFlush(q) PROVE NoFlush(s)
    <2> SUFFICES ASSUME NEW i \in 1 .. Len(s) PROVE s[i] \notin {Flush("nat"), Flush("fwd")}
      BY DEF NoFlush
    <2>1. CASE i \in 1 .. Len(p)
      BY <1>2, <1>5, <2>1 DEF NoFlush
    <2>2. ASSUME NEW j \in 1 .. Len(q), i = Len(p) + j
          PROVE  s[i] \notin {Flush("nat"), Flush("fwd")}
      BY <1>2, <1>5, <2>2 DEF NoFlush
    <2>3. QED
      BY <1>2, <2>1, <2>2
  <1>6. QED
    BY <1>1, <1>4, <1>5 DEF Part, s

LEMMA HarmlessJoin ==
    ASSUME NEW q \in Seq(CommandSet), q # <<>>, \A i \in 1 .. Len(q) : Harmless(q[i])
    PROVE  Part(q)
  BY HarmlessParts DEF Part

LEMMA HarmlessCommands ==
    /\ \A c \in {ZonesCmd, ReadCmd, ForgetCmd, ServeCmd, ClampCmd, AcceptCmd} : Harmless(c)
    /\ \A ch \in {"nat", "fwd"} : Harmless(Flush(ch))
    /\ \A ch \in Chains : \A r \in RulesOf(ch) : Harmless(Append1(ch, r))
  <1>1. \A c \in {ZonesCmd, ReadCmd, ForgetCmd, ServeCmd, ClampCmd, AcceptCmd} : Harmless(c)
    BY PlainCommands, PlainCommandsDiffer, CommandsDiffer DEF Harmless
  <1>2. \A ch \in {"nat", "fwd"} : Harmless(Flush(ch))
    BY CommandsDiffer DEF Harmless, CommandSet, Flushes, Chains
  <1>3. ASSUME NEW ch \in Chains, NEW r \in RulesOf(ch) PROVE Harmless(Append1(ch, r))
    <2>1. Append1(ch, r) \in CommandSet
      BY DEF CommandSet, Appends
    <2>2. QED
      BY <2>1, CommandsDiffer DEF Harmless
  <1>4. QED
    BY <1>1, <1>2, <1>3

LEMMA DNSParts ==
    /\ Part(ApplyVPNDNS) /\ NoFlush(ApplyVPNDNS)
    /\ Part(ApplyDirectDNS) /\ NoFlush(ApplyDirectDNS)
    /\ Occurs(CompareCmd, ApplyVPNDNS) /\ Occurs(CompareCmd, ApplyDirectDNS)
  <1>1. Part(writeDnsmasqConfig) /\ NoFlush(writeDnsmasqConfig)
    <2>1. \A i \in 1 .. 5 : i \in {1, 2, 3, 4, 5}
      OBVIOUS
    <2>2. writeDnsmasqConfig = <<CompareCmd, WriteCmd, TestCmd, RestartCmd, RememberCmd>>
      BY DEF writeDnsmasqConfig, CompareCmd, WriteCmd, TestCmd, RestartCmd, RememberCmd
    <2>3. Len(writeDnsmasqConfig) = 5 /\ writeDnsmasqConfig # <<>>
      BY <2>2
    <2>4. \A i \in 1 .. 5 : writeDnsmasqConfig[i] \notin {Flush("nat"), Flush("fwd")}
      BY <2>1, <2>2, CommandsDiffer
    <2>5. QED
      BY <2>3, <2>4, WritePart DEF Part, NoFlush
  <1>2. Part(<<ReadCmd>>) /\ NoFlush(<<ReadCmd>>)
    <2>1. <<ReadCmd>> \in Seq(CommandSet)
      BY PlainCommands
    <2>2. \A i \in 1 .. Len(<<ReadCmd>>) : <<ReadCmd>>[i] = ReadCmd
      OBVIOUS
    <2>3. QED
      BY <2>1, <2>2, HarmlessCommands, HarmlessJoin, CommandsDiffer DEF NoFlush
  <1>3. Part(<<ForgetCmd>>) /\ NoFlush(<<ForgetCmd>>)
    <2>1. <<ForgetCmd>> \in Seq(CommandSet)
      BY PlainCommands
    <2>2. \A i \in 1 .. Len(<<ForgetCmd>>) : <<ForgetCmd>>[i] = ForgetCmd
      OBVIOUS
    <2>3. QED
      BY <2>1, <2>2, HarmlessCommands, HarmlessJoin, CommandsDiffer DEF NoFlush
  <1>4. ApplyVPNDNS = <<ReadCmd>> \o writeDnsmasqConfig
        /\ ApplyDirectDNS = <<ForgetCmd>> \o writeDnsmasqConfig
    BY DEF ApplyVPNDNS, ApplyDirectDNS, ReadCmd, ForgetCmd
  <1>5. QED
    BY <1>1, <1>2, <1>3, <1>4, PartsJoin, WritePart, OccursInConcatenation DEF Part, PartShape

LEMMA MaintenancePart ==
    /\ Part(MaintainManagementAccess) /\ NoFlush(MaintainManagementAccess)
    /\ Part(ensureManagementFirewall) /\ NoFlush(ensureManagementFirewall)
    /\ \A c \in {Append1("in", "mgmt"), Append1("in", "ifaces"), InsertCmd} :
         Occurs(c, MaintainManagementAccess)
  <1>1. Part(ensureManagementFirewall) /\ NoFlush(ensureManagementFirewall)
    <2>1. ensureManagementFirewall =
            <<Flush("in"), Append1("in", "mgmt"), Append1("in", "ifaces"), DeleteCmd, InsertCmd>>
      BY DEF ensureManagementFirewall, DeleteCmd, InsertCmd
    <2>2. \A x \in {Flush("in"), Append1("in", "mgmt"), Append1("in", "ifaces"), DeleteCmd,
                    InsertCmd} : x \notin {Flush("nat"), Flush("fwd")}
      BY CommandsDiffer
    <2>3. ensureManagementFirewall # <<>> /\ NoFlush(ensureManagementFirewall)
      BY <2>1, <2>2 DEF NoFlush
    <2>4. QED
      BY <2>3, FirewallPart DEF Part
  <1>2. Part(<<ZonesCmd>>) /\ NoFlush(<<ZonesCmd>>)
    <2>1. <<ZonesCmd>> \in Seq(CommandSet)
      BY PlainCommands
    <2>2. \A i \in 1 .. Len(<<ZonesCmd>>) : <<ZonesCmd>>[i] = ZonesCmd
      OBVIOUS
    <2>3. QED
      BY <2>1, <2>2, HarmlessCommands, HarmlessJoin, CommandsDiffer DEF NoFlush
  <1>3. MaintainManagementAccess = ensureManagementFirewall \o <<ZonesCmd>>
    BY DEF MaintainManagementAccess, ZonesCmd
  <1>4. QED
    BY <1>1, <1>2, <1>3, PartsJoin, FirewallPart, OccursInConcatenation DEF Part, PartShape

\* The rules of a job are appended after all that it flushes.
LEMMA RulesLast ==
    ASSUME NEW p, NEW a, NEW d, Part(p), Part(a), Part(d), NoFlush(a), NoFlush(d),
           \A k \in Kept : k[1] # "in" => Occurs(Append1(k[1], k[2]), a)
    PROVE  /\ JobShape((p \o a) \o d) /\ Part((p \o a) \o d)
           /\ \A c : Occurs(c, a) \/ Occurs(c, d) => Occurs(c, (p \o a) \o d)
  <1>1. /\ p \in Seq(CommandSet) /\ a \in Seq(CommandSet) /\ d \in Seq(CommandSet)
        /\ p \o a \in Seq(CommandSet)
    BY Concatenation DEF Part, PartShape
  <1>2. Part((p \o a) \o d)
    BY PartsJoin
  <1>3. ASSUME NEW k \in Kept, k[1] # "in"
        PROVE  Followed((p \o a) \o d, Flush(k[1]), Append1(k[1], k[2]))
    <2>1. k[1] \in {"nat", "fwd"}
      BY <1>3, KeptAre DEF Chains
    <2>2. /\ Followed(a, Flush(k[1]), Append1(k[1], k[2]))
          /\ Followed(d, Flush(k[1]), Append1(k[1], k[2]))
      BY <2>1 DEF NoFlush, Followed
    <2>3. Followed(p \o a, Flush(k[1]), Append1(k[1], k[2]))
      BY <1>1, <1>3, <2>2, FollowedInConcatenation
    <2>4. QED
      BY <1>1, <2>2, <2>3, FollowedInConcatenation
  <1>4. \A k \in Kept : k[1] = "in" => k[2] \in {"mgmt", "ifaces"}
    BY DEF Kept
  <1>5. JobShape((p \o a) \o d)
    BY <1>2, <1>3, <1>4 DEF JobShape, Part, PartShape, FirewallShape
  <1>6. ASSUME NEW c, Occurs(c, a) \/ Occurs(c, d) PROVE Occurs(c, (p \o a) \o d)
    BY <1>1, <1>6, OccursInConcatenation
  <1>7. QED
    BY <1>2, <1>5, <1>6

LEMMA ProloguePart == Part(Prologue)
  <1> DEFINE f == << Flush("fwd"), Flush("nat") >>
  <1>1. Part(f)
    <2>1. Flush("fwd") \in CommandSet /\ Flush("nat") \in CommandSet
      BY DEF CommandSet, Flushes, Chains
    <2>2. f \in Seq(CommandSet) /\ f # <<>> /\ Len(f) = 2
      BY <2>1
    <2>3. \A i \in 1 .. 2 : f[i] \in {Flush("fwd"), Flush("nat")}
      OBVIOUS
    <2> HIDE DEF f
    <2>4. \A i \in 1 .. Len(f) : Harmless(f[i])
      BY <2>2, <2>3, HarmlessCommands
    <2>5. QED
      BY <2>2, <2>4, HarmlessJoin
  <1>2. Prologue = (f \o ensureManagementFirewall) \o MaintainManagementAccess
    BY DEF Prologue
  <1> HIDE DEF f
  <1>3. QED
    BY <1>1, <1>2, PartsJoin, MaintenancePart

\* What a job appends to the chains of the router.
LEMMA AppendsPart ==
    ASSUME NEW a \in Seq(CommandSet), a # <<>>,
           \A i \in 1 .. Len(a) :
             \/ a[i] \in {ClampCmd, AcceptCmd}
             \/ \E ch \in {"nat", "fwd"} : \E r \in RulesOf(ch) : a[i] = Append1(ch, r)
    PROVE  Part(a) /\ NoFlush(a)
  <1>1. ASSUME NEW i \in 1 .. Len(a)
        PROVE  Harmless(a[i]) /\ a[i] \notin {Flush("nat"), Flush("fwd")}
    BY HarmlessCommands, CommandsDiffer DEF Chains
  <1>2. QED
    BY <1>1, HarmlessJoin DEF NoFlush

LEMMA DirectJob ==
    /\ JobShape(ApplyDirectNAT) /\ Part(ApplyDirectNAT)
    /\ \A k \in Kept : k[1] # "in" => Occurs(Append1(k[1], k[2]), ApplyDirectNAT)
    /\ Occurs(CompareCmd, ApplyDirectNAT)
  <1> DEFINE a == << Append1("nat", "wan"), Append1("fwd", "lan-wan"), Append1("fwd", "wan-lan") >>
  <1>1. /\ a \in Seq(CommandSet) /\ a # <<>> /\ Len(a) = 3
        /\ \A i \in 1 .. 3 : a[i] \in {Append1("nat", "wan"), Append1("fwd", "lan-wan"),
                                       Append1("fwd", "wan-lan")}
        /\ a[1] = Append1("nat", "wan") /\ a[2] = Append1("fwd", "lan-wan")
        /\ a[3] = Append1("fwd", "wan-lan")
    BY DEF CommandSet, Appends, Chains, RulesOf, ForwardWAN
  <1>2. ApplyDirectNAT = (Prologue \o a) \o ApplyDirectDNS
    BY DEF ApplyDirectNAT
  <1> HIDE DEF a
  <1>3. Part(a) /\ NoFlush(a)
    BY <1>1, AppendsPart DEF RulesOf, ForwardWAN
  <1>4. ASSUME NEW k \in Kept, k[1] # "in" PROVE Occurs(Append1(k[1], k[2]), a)
    BY <1>1, <1>4 DEF Kept, Occurs
  <1>5. QED
    BY <1>2, <1>3, <1>4, RulesLast, ProloguePart, DNSParts

LEMMA VPNJob ==
    /\ JobShape(ApplyVPNNAT) /\ Part(ApplyVPNNAT)
    /\ \A k \in Kept : k[1] # "in" => Occurs(Append1(k[1], k[2]), ApplyVPNNAT)
    /\ Occurs(CompareCmd, ApplyVPNNAT)
  <1> DEFINE a == << Append1("nat", "tun"), Append1("nat", "wan"),
                     Append1("fwd", "lan-tun"), Append1("fwd", "tun-lan"),
                     Append1("fwd", "lan-wan"), Append1("fwd", "wan-lan"),
                     ClampCmd, ClampCmd, AcceptCmd >>
  <1>1. /\ a \in Seq(CommandSet) /\ a # <<>> /\ Len(a) = 9
        /\ \A i \in 1 .. 9 : a[i] \in {Append1("nat", "tun"), Append1("nat", "wan"),
                     Append1("fwd", "lan-tun"), Append1("fwd", "tun-lan"),
                     Append1("fwd", "lan-wan"), Append1("fwd", "wan-lan"), ClampCmd, AcceptCmd}
        /\ a[2] = Append1("nat", "wan") /\ a[5] = Append1("fwd", "lan-wan")
        /\ a[6] = Append1("fwd", "wan-lan")
    BY DEF CommandSet, Appends, Chains, RulesOf, ForwardWAN, ForwardTunnel
  <1>2. ApplyVPNNAT = (Prologue \o a) \o ApplyVPNDNS
    BY DEF ApplyVPNNAT, ClampCmd, AcceptCmd
  <1> HIDE DEF a
  <1>3. Part(a) /\ NoFlush(a)
    BY <1>1, AppendsPart DEF RulesOf, ForwardWAN, ForwardTunnel
  <1>4. ASSUME NEW k \in Kept, k[1] # "in" PROVE Occurs(Append1(k[1], k[2]), a)
    BY <1>1, <1>4 DEF Kept, Occurs
  <1>5. QED
    BY <1>2, <1>3, <1>4, RulesLast, ProloguePart, DNSParts

\* A part that flushes neither chain of the router is a job, alone and before another.
LEMMA JobWithoutFlush ==
    ASSUME NEW p, Part(p), NoFlush(p)
    PROVE  /\ JobShape(p)
           /\ \A q : JobShape(q) /\ (q # <<>> => q[1] \notin Inner) => JobShape(p \o q)
  <1>1. \A k \in Kept : Followed(p, Flush(k[1]), Append1(k[1], k[2]))
    <2>1. ASSUME NEW k \in Kept PROVE Followed(p, Flush(k[1]), Append1(k[1], k[2]))
      <3>1. CASE k[1] = "in"
        <4>1. k[2] \in {"mgmt", "ifaces"}
          BY <3>1 DEF Kept
        <4>2. QED
          BY <3>1, <4>1 DEF Part, PartShape, FirewallShape
      <3>2. CASE k[1] \in {"nat", "fwd"}
        BY <3>2 DEF NoFlush, Followed
      <3>3. QED
        BY <3>1, <3>2, KeptAre DEF Chains
    <2>2. QED
      BY <2>1
  <1>2. ASSUME NEW q, JobShape(q), q # <<>> => q[1] \notin Inner PROVE JobShape(p \o q)
    <2>1. PartShape(p \o q)
      BY <1>2, PartsTogether DEF Part, JobShape
    <2>2. \A k \in Kept : Followed(p \o q, Flush(k[1]), Append1(k[1], k[2]))
      BY <1>1, <1>2, FollowedInConcatenation DEF JobShape, Part, PartShape
    <2>3. QED
      BY <2>1, <2>2 DEF JobShape
  <1>3. QED
    BY <1>1, <1>2 DEF JobShape, Part

LEMMA JobsAreShaped == \A j \in Jobs : JobShape(Commands(j)) /\ Part(Commands(j))
  <1>1. /\ Part(MaintainManagementAccess \o ApplyVPNDNS)
        /\ NoFlush(MaintainManagementAccess \o ApplyVPNDNS)
    BY MaintenancePart, DNSParts, PartsJoin
  <1>2. JobShape(MaintainManagementAccess \o ApplyVPNDNS) /\ JobShape(MaintainManagementAccess)
    BY <1>1, JobWithoutFlush, MaintenancePart
  <1>3. /\ Commands("direct") = ApplyDirectNAT /\ Commands("vpn") = ApplyVPNNAT
        /\ Commands("maintain") = MaintainManagementAccess \o ApplyVPNDNS
        /\ Commands("tick") = MaintainManagementAccess
    BY DEF Commands
  <1>4. QED
    BY <1>1, <1>2, <1>3, DirectJob, VPNJob, MaintenancePart DEF Jobs

\* Whoever starts the service does all there is to do.
LEMMA BootIsShaped ==
    ASSUME NEW j \in {"direct", "vpn"}
    PROVE  /\ JobShape(Boot \o Commands(j)) /\ Part(Boot \o Commands(j))
           /\ \A k \in Kept : Occurs(Append1(k[1], k[2]), Boot \o Commands(j))
           /\ Occurs(InsertCmd, Boot \o Commands(j)) /\ Occurs(CompareCmd, Boot \o Commands(j))
  <1> DEFINE z == <<ZonesCmd, ServeCmd>>
             m == ensureManagementFirewall \o MaintainManagementAccess
  <1>1. Part(z) /\ NoFlush(z)
    <2>1. z \in Seq(CommandSet) /\ z # <<>> /\ Len(z) = 2
      BY PlainCommands
    <2>2. \A i \in 1 .. 2 : z[i] \in {ZonesCmd, ServeCmd}
      OBVIOUS
    <2> HIDE DEF z
    <2>3. \A i \in 1 .. Len(z) : Harmless(z[i]) /\ z[i] \notin {Flush("nat"), Flush("fwd")}
      BY <2>1, <2>2, HarmlessCommands, CommandsDiffer
    <2>4. QED
      BY <2>1, <2>3, HarmlessJoin DEF NoFlush
  <1>2. Boot = m \o z
    BY DEF Boot, ServeCmd, ZonesCmd
  <1>3. /\ Part(m) /\ NoFlush(m)
        /\ \A c \in {Append1("in", "mgmt"), Append1("in", "ifaces"), InsertCmd} : Occurs(c, m)
    BY MaintenancePart, PartsJoin, OccursInConcatenation DEF Part, PartShape
  <1> HIDE DEF m, z
  <1>4. /\ Part(Boot) /\ NoFlush(Boot)
        /\ \A c \in {Append1("in", "mgmt"), Append1("in", "ifaces"), InsertCmd} : Occurs(c, Boot)
    BY <1>1, <1>2, <1>3, PartsJoin, OccursInConcatenation DEF Part, PartShape
  <1>5. JobShape(Commands(j)) /\ Part(Commands(j))
    BY JobsAreShaped DEF Jobs
  <1>6. JobShape(Boot \o Commands(j)) /\ Part(Boot \o Commands(j))
    BY <1>4, <1>5, JobWithoutFlush, PartsJoin DEF Part
  <1>7. \A c : Occurs(c, Boot) \/ Occurs(c, Commands(j)) => Occurs(c, Boot \o Commands(j))
    BY <1>4, <1>5, OccursInConcatenation DEF Part, PartShape
  <1>8. ASSUME NEW k \in Kept PROVE Occurs(Append1(k[1], k[2]), Boot \o Commands(j))
    <2>1. CASE k[1] = "in"
      <3>1. k[2] \in {"mgmt", "ifaces"}
        BY <2>1 DEF Kept
      <3>2. QED
        BY <1>4, <1>7, <2>1, <3>1
    <2>2. CASE k[1] # "in"
      <3>1. Occurs(Append1(k[1], k[2]), Commands(j))
        BY <2>2, DirectJob, VPNJob DEF Commands
      <3>2. QED
        BY <1>7, <3>1
    <2>3. QED
      BY <2>1, <2>2
  <1>9. Occurs(CompareCmd, Commands(j))
    BY DirectJob, VPNJob DEF Commands
  <1>10. QED
    BY <1>4, <1>6, <1>7, <1>8, <1>9

-----------------------------------------------------------------------------
(* One step of a goroutine.                                                *)

TypeInv ==
    /\ todo \in [Workers -> Seq(CommandSet)]
    /\ rules \in [Chains -> SUBSET (RulesOf("in") \cup RulesOf("fwd"))]
    /\ rules["in"] \subseteq ManagementRules
    /\ linked \in SUBSET RouterChains /\ jumps \in Nat /\ failures \in Nat
    /\ conf \in [Workers -> Confs]
ShapeInv == TypeInv /\ \A w \in Workers : JobShape(todo[w])

\* The commands whose effect is there once nobody has anything to do.
Lasting == {Append1(k[1], k[2]) : k \in Kept} \cup {InsertCmd}
Writing == {CompareCmd, WriteCmd, TestCmd, RestartCmd, RememberCmd}

\* From q to r one command is done, or returned from with others that do not last.
Passes(q, r) ==
    /\ q # <<>> /\ JobShape(r)
    /\ r # <<>> /\ r[1] \in Inner => q[1] = Needs(r[1])
    /\ \A c \in Lasting : Occurs(c, q) => c = q[1] \/ Occurs(c, r)
    /\ q[1] \notin Writing /\ Occurs(CompareCmd, q) => Occurs(CompareCmd, r)

LEMMA LastingAre == Lasting \cap Writing = {}
  BY PlainCommandsDiffer, CommandsDiffer DEF Lasting, Writing

LEMMA TailIsRest ==
    ASSUME NEW q \in Seq(CommandSet), q # <<>>
    PROVE  /\ Rest(Tail(q), q, 1) /\ Head(q) = q[1] /\ q[1] \in CommandSet
           /\ Len(q) \in Nat \ {0} /\ Len(Tail(q)) = Len(q) - 1
           /\ \A i \in 1 .. Len(q) - 1 : Tail(q)[i] = q[i + 1]
  BY DEF Rest

LEMMA RestOccurs ==
    ASSUME NEW q \in Seq(CommandSet), NEW r, NEW n \in Nat, Rest(r, q, n),
           NEW c, Occurs(c, q), \A i \in 1 .. Len(q) : i <= n => q[i] # c
    PROVE  Occurs(c, r)
  <1>1. PICK i \in 1 .. Len(q) : q[i] = c
    BY DEF Occurs
  <1>2. i > n
    BY <1>1
  <1>3. i - n \in 1 .. Len(r) /\ r[i - n] = c
    BY <1>1, <1>2, RestIndices
  <1>4. QED
    BY <1>3 DEF Occurs

LEMMA TailPasses ==
    ASSUME NEW q, JobShape(q), q # <<>>
    PROVE  Passes(q, Tail(q))
  <1>1. /\ q \in Seq(CommandSet) /\ Rest(Tail(q), q, 1) /\ Len(q) \in Nat
        /\ \A i \in 1 .. Len(q) - 1 : Tail(q)[i] = q[i + 1]
        /\ Len(Tail(q)) = Len(q) - 1
    BY TailIsRest DEF JobShape, PartShape
  <1>2. JobShape(Tail(q))
    BY <1>1, RestShape
  <1>3. ASSUME Tail(q) # <<>>, Tail(q)[1] \in Inner PROVE q[1] = Needs(Tail(q)[1])
    <2>1. Len(q) > 1
      BY <1>1, <1>2, <1>3 DEF JobShape, PartShape
    <2>2. 2 \in 1 .. Len(q) /\ q[2] = Tail(q)[1] /\ 2 - 1 = 1
      BY <1>1, <1>3, <2>1
    <2>3. QED
      BY <1>3, <2>2 DEF JobShape, PartShape, InsertsShape
  <1>4. ASSUME NEW c, Occurs(c, q), c # q[1] PROVE Occurs(c, Tail(q))
    <2>1. \A i \in 1 .. Len(q) : i <= 1 => q[i] # c
      BY <1>4
    <2>2. QED
      BY <1>1, <1>4, <2>1, RestOccurs
  <1>5. QED
    BY <1>2, <1>3, <1>4 DEF Passes, Writing

\* The commands of one writeDnsmasqConfig, from any of them.
LEMMA WritesAhead ==
    ASSUME NEW q, JobShape(q), q # <<>>
    PROVE  /\ q[1] = CompareCmd => Len(q) >= 5 /\ q[2] = WriteCmd /\ q[3] = TestCmd
                                     /\ q[4] = RestartCmd /\ q[5] = RememberCmd
           /\ q[1] = WriteCmd => Len(q) >= 4 /\ q[2] = TestCmd /\ q[3] = RestartCmd
                                   /\ q[4] = RememberCmd
           /\ q[1] = TestCmd => Len(q) >= 3 /\ q[2] = RestartCmd /\ q[3] = RememberCmd
           /\ q[1] = RestartCmd => Len(q) >= 2 /\ q[2] = RememberCmd
  <1>1. q \in Seq(CommandSet) /\ Len(q) \in Nat \ {0} /\ WriteShape(q)
    BY DEF JobShape, PartShape
  <1>2. \A i \in 1 .. Len(q) :
          /\ q[i] = CompareCmd => i + 4 <= Len(q) /\ q[i + 1] = WriteCmd
          /\ q[i] = WriteCmd => i + 3 <= Len(q) /\ q[i + 1] = TestCmd
          /\ q[i] = TestCmd => i + 2 <= Len(q) /\ q[i + 1] = RestartCmd
          /\ q[i] = RestartCmd => i + 1 <= Len(q) /\ q[i + 1] = RememberCmd
    BY <1>1 DEF WriteShape, Leads
  <1>3. ASSUME q[1] = RestartCmd PROVE Len(q) >= 2 /\ q[2] = RememberCmd
    BY <1>1, <1>2, <1>3
  <1>4. ASSUME q[1] = TestCmd PROVE Len(q) >= 3 /\ q[2] = RestartCmd /\ q[3] = RememberCmd
    BY <1>1, <1>2, <1>4
  <1>5. ASSUME q[1] = WriteCmd
        PROVE  Len(q) >= 4 /\ q[2] = TestCmd /\ q[3] = RestartCmd /\ q[4] = RememberCmd
    <2>1. Len(q) >= 4 /\ q[2] = TestCmd
      BY <1>1, <1>2, <1>5
    <2>2. q[3] = RestartCmd
      BY <1>1, <1>2, <2>1
    <2>3. q[4] = RememberCmd
      BY <1>1, <1>2, <2>1, <2>2
    <2>4. QED
      BY <2>1, <2>2, <2>3
  <1>6. ASSUME q[1] = CompareCmd
        PROVE  Len(q) >= 5 /\ q[2] = WriteCmd /\ q[3] = TestCmd /\ q[4] = RestartCmd
                 /\ q[5] = RememberCmd
    <2>1. Len(q) >= 5 /\ q[2] = WriteCmd
      BY <1>1, <1>2, <1>6
    <2>2. q[3] = TestCmd
      BY <1>1, <1>2, <2>1
    <2>3. q[4] = RestartCmd
      BY <1>1, <1>2, <2>1, <2>2
    <2>4. q[5] = RememberCmd
      BY <1>1, <1>2, <2>1, <2>3
    <2>5. QED
      BY <2>1, <2>2, <2>3, <2>4
  <1>7. QED
    BY <1>3, <1>4, <1>5, <1>6

LEMMA RestAfterWrite ==
    ASSUME NEW q \in Seq(CommandSet), NEW n \in Nat \ {0}, n <= Len(q), q[n] = RememberCmd,
           \A i \in 1 .. n - 1 : q[i] # RememberCmd
    PROVE  Rest(SubSeq(q, 1 + SelectInSeq(q, LAMBDA c : c = <<"remember">>), Len(q)), q, n)
  <1> DEFINE I == {i \in 1 .. Len(q) : q[i] = <<"remember">>}
  <1>1. SelectInSeq(q, LAMBDA c : c = <<"remember">>) = IF I # {} THEN Min(I) ELSE 0
    BY DEF SelectInSeq
  <1>2. n \in I /\ \A i \in I : n <= i
    BY DEF RememberCmd
  <1>3. Min(I) = n
    BY <1>2 DEF Min
  <1>4. Rest(SubSeq(q, 1 + n, Len(q)), q, n)
    <2>1. /\ n \in Int /\ 1 + n \in Int /\ Len(q) \in Nat /\ Len(q) \in Int
          /\ \A i \in 1 + n .. Len(q) : q[i] \in CommandSet
      OBVIOUS
    <2> DEFINE r == SubSeq(q, 1 + n, Len(q))
               m == Len(q) - (1 + n) + 1
    <2>2. /\ r \in Seq(CommandSet)
          /\ Len(r) = IF 1 + n <= Len(q) THEN m ELSE 0
          /\ \A i \in 1 .. m : r[i] = q[1 + n + i - 1]
      BY <2>1, SubSeqProperties
    <2> HIDE DEF r
    <2>3. Len(r) = m /\ Len(q) = Len(r) + n
      BY <2>1, <2>2
    <2>4. \A i \in 1 .. Len(r) : r[i] = q[i + n]
      BY <2>1, <2>2, <2>3
    <2>5. QED
      BY <2>2, <2>3, <2>4 DEF Rest, r
  <1>5. QED
    BY <1>1, <1>2, <1>3, <1>4

\* writeDnsmasqConfig returns before its end: only commands of its own are left out.
LEMMA ReturnRest ==
    ASSUME NEW w \in Workers, JobShape(todo[w]), todo[w] # <<>>,
           todo[w][1] \in {CompareCmd, WriteCmd, TestCmd, RestartCmd}
    PROVE  \E n \in {2, 3, 4, 5} :
             n <= Len(todo[w]) /\ Rest(AfterWrite(w), todo[w], n) /\ todo[w][n] = RememberCmd
               /\ (\A i \in 1 .. n : todo[w][i] \in Writing)
  <1> DEFINE q == todo[w]
             r == AfterWrite(w)
  <1>1. PICK n \in {2, 3, 4, 5} :
          n <= Len(q) /\ q[n] = RememberCmd /\ (\A i \in 1 .. n - 1 : q[i] # RememberCmd)
            /\ (\A i \in 1 .. n : q[i] \in Writing)
    <2> HIDE DEF q
    <2>1. CASE q[1] = CompareCmd
      <3>1. Len(q) >= 5 /\ q[2] = WriteCmd /\ q[3] = TestCmd /\ q[4] = RestartCmd
              /\ q[5] = RememberCmd
        BY <2>1, WritesAhead DEF q
      <3>2. \A i \in 1 .. 5 : i \in {1, 2, 3, 4, 5}
        OBVIOUS
      <3>3. /\ \A i \in 1 .. 5 - 1 : q[i] # RememberCmd
            /\ \A i \in 1 .. 5 : q[i] \in Writing
        BY <2>1, <3>1, <3>2, PlainCommandsDiffer DEF Writing
      <3>4. 5 <= Len(q)
        BY <3>1 DEF q, JobShape, PartShape
      <3>5. QED
        BY <3>1, <3>3, <3>4
    <2>2. CASE q[1] = TestCmd
      <3>1. Len(q) >= 3 /\ q[2] = RestartCmd /\ q[3] = RememberCmd
        BY <2>2, WritesAhead DEF q
      <3>2. \A i \in 1 .. 3 : i \in {1, 2, 3}
        OBVIOUS
      <3>3. /\ \A i \in 1 .. 3 - 1 : q[i] # RememberCmd
            /\ \A i \in 1 .. 3 : q[i] \in Writing
        BY <2>2, <3>1, <3>2, PlainCommandsDiffer DEF Writing
      <3>4. 3 <= Len(q)
        BY <3>1 DEF q, JobShape, PartShape
      <3>5. QED
        BY <3>1, <3>3, <3>4
    <2>3. CASE q[1] = RestartCmd
      <3>1. Len(q) >= 2 /\ q[2] = RememberCmd
        BY <2>3, WritesAhead DEF q
      <3>2. \A i \in 1 .. 2 : i \in {1, 2}
        OBVIOUS
      <3>3. /\ \A i \in 1 .. 2 - 1 : q[i] # RememberCmd
            /\ \A i \in 1 .. 2 : q[i] \in Writing
        BY <2>3, <3>1, <3>2, PlainCommandsDiffer DEF Writing
      <3>4. 2 <= Len(q)
        BY <3>1 DEF q, JobShape, PartShape
      <3>5. QED
        BY <3>1, <3>3, <3>4
    <2>4. CASE q[1] = WriteCmd
      <3>1. Len(q) >= 4 /\ q[2] = TestCmd /\ q[3] = RestartCmd /\ q[4] = RememberCmd
        BY <2>4, WritesAhead DEF q
      <3>2. \A i \in 1 .. 4 : i \in {1, 2, 3, 4}
        OBVIOUS
      <3>3. /\ \A i \in 1 .. 4 - 1 : q[i] # RememberCmd
            /\ \A i \in 1 .. 4 : q[i] \in Writing
        BY <2>4, <3>1, <3>2, PlainCommandsDiffer DEF Writing
      <3>4. 4 <= Len(q)
        BY <3>1 DEF q, JobShape, PartShape
      <3>5. QED
        BY <3>1, <3>3, <3>4
    <2>5. QED
      BY <2>1, <2>2, <2>3, <2>4 DEF q
  <1>2. q \in Seq(CommandSet) /\ n \in Nat \ {0} /\ Len(q) \in Nat
    BY DEF JobShape, PartShape
  <1>3. Rest(r, q, n)
    BY <1>1, <1>2, RestAfterWrite DEF AfterWrite
  <1>4. QED
    BY <1>1, <1>3

\* Nothing of what is left out lasts.
LEMMA ReturnPasses ==
    ASSUME NEW w \in Workers, JobShape(todo[w]), todo[w] # <<>>,
           todo[w][1] \in {CompareCmd, WriteCmd, TestCmd, RestartCmd}
    PROVE  Passes(todo[w], AfterWrite(w))
  <1> DEFINE q == todo[w]
             r == AfterWrite(w)
  <1>1. PICK n \in {2, 3, 4, 5} :
          n <= Len(q) /\ Rest(r, q, n) /\ q[n] = RememberCmd /\ (\A i \in 1 .. n : q[i] \in Writing)
    BY ReturnRest
  <1>2. q \in Seq(CommandSet) /\ n \in Nat \ {0} /\ Len(q) \in Nat
    BY DEF JobShape, PartShape
  <1>3. Rest(r, q, n)
    BY <1>1
  <1>4. JobShape(r)
    BY <1>2, <1>3, RestShape
  <1> HIDE DEF q, r
  <1>5. ASSUME r # <<>>, r[1] \in Inner PROVE FALSE
    <2>1. 1 \in 1 .. Len(r) /\ r \in Seq(CommandSet)
      BY <1>4, <1>5 DEF JobShape, PartShape
    <2>2. 1 + n \in 1 .. Len(q) /\ q[1 + n] \in Inner
      BY <1>2, <1>3, <1>5, <2>1, RestIndices
    <2>3. q[(1 + n) - 1] \in {DeleteCmd, RestartCmd} /\ (1 + n) - 1 = n
      BY <1>2, <2>2 DEF q, JobShape, PartShape, InsertsShape, Needs
    <2>4. QED
      BY <1>1, <2>3, PlainCommandsDiffer
  <1>6. ASSUME NEW c \in Lasting, Occurs(c, q) PROVE Occurs(c, r)
    <2>1. \A i \in 1 .. Len(q) : i <= n => q[i] # c
      BY <1>1, <1>2, LastingAre
    <2>2. QED
      BY <1>2, <1>3, <1>6, <2>1, RestOccurs
  <1>7. q[1] \in Writing
    BY DEF q, Writing
  <1>8. QED
    BY <1>4, <1>5, <1>6, <1>7 DEF Passes, q, r

\* EnsureVPNDNSIfNeeded inserts a job's DNS part before what is left.
LEMMA ZonesPasses ==
    ASSUME NEW q, JobShape(q), q # <<>>, q[1] = ZonesCmd
    PROVE  Passes(q, ApplyVPNDNS \o Tail(q))
  <1>1. Passes(q, Tail(q)) /\ q[1] # DeleteCmd /\ q[1] # RestartCmd
    BY TailPasses, PlainCommandsDiffer
  <1>2. JobShape(Tail(q)) /\ (Tail(q) # <<>> => Tail(q)[1] \notin Inner)
    BY <1>1 DEF Passes, Needs
  <1>3. Part(ApplyVPNDNS) /\ NoFlush(ApplyVPNDNS)
    BY DNSParts
  <1> DEFINE t == Tail(q)
             d == ApplyVPNDNS
  <1> HIDE DEF t, d
  <1>4. JobShape(d \o t)
    BY <1>2, <1>3, JobWithoutFlush DEF t, d
  <1>5. d \in Seq(CommandSet) /\ t \in Seq(CommandSet) /\ d # <<>> /\ d[1] \notin Inner
    BY <1>2, <1>3 DEF t, d, Part, PartShape, JobShape
  <1>6. (d \o t)[1] \notin Inner
    BY <1>5, Concatenation
  <1>7. \A c : Occurs(c, t) => Occurs(c, d \o t)
    BY <1>5, OccursInConcatenation
  <1>8. QED
    BY <1>1, <1>4, <1>6, <1>7 DEF Passes, t, d

\* A step changes what w has left to do, and nobody else's.
StepOf(w) ==
    /\ todo' = [todo EXCEPT ![w] = todo'[w]]
    /\ Passes(todo[w], todo'[w])

LEMMA Commanded ==
    ASSUME ShapeInv, NEW w \in Workers, Busy(w)
    PROVE  /\ todo[w] \in Seq(CommandSet) /\ todo[w] # <<>> /\ JobShape(todo[w])
           /\ Head(todo[w]) = todo[w][1] /\ todo[w][1] \in CommandSet
           /\ \A name : Does(w, name) <=> todo[w][1][1] = name
  <1>1. todo[w] \in Seq(CommandSet) /\ todo[w] # <<>> /\ JobShape(todo[w])
    BY DEF ShapeInv, TypeInv, Busy
  <1>2. QED
    BY <1>1, TailIsRest DEF Does, Busy

LEMMA DoneSteps ==
    ASSUME ShapeInv, NEW w \in Workers, Busy(w), Done(w)
    PROVE  StepOf(w)
  <1>1. JobShape(todo[w]) /\ todo[w] # <<>>
    BY Commanded
  <1>2. todo'[w] = Tail(todo[w]) /\ todo' = [todo EXCEPT ![w] = Tail(todo[w])]
    BY DEF Done, ShapeInv, TypeInv
  <1>3. QED
    BY <1>1, <1>2, TailPasses DEF StepOf

LEMMA ReturnSteps ==
    ASSUME ShapeInv, NEW w \in Workers, ReturnFromWrite(w),
           Does(w, "compare") \/ Does(w, "write") \/ Does(w, "test") \/ Does(w, "restart")
    PROVE  StepOf(w)
  <1>1. Busy(w)
    BY DEF Does
  <1>2. /\ JobShape(todo[w]) /\ todo[w] # <<>> /\ todo[w][1] \in CommandSet
        /\ todo[w][1][1] \in {"compare", "write", "test", "restart"}
    BY <1>1, Commanded
  <1>3. todo[w][1] \in {CompareCmd, WriteCmd, TestCmd, RestartCmd}
    BY <1>2, NamesAreUnique
  <1>4. todo'[w] = AfterWrite(w) /\ todo' = [todo EXCEPT ![w] = AfterWrite(w)]
    BY DEF ReturnFromWrite, ShapeInv, TypeInv
  <1>5. QED
    BY <1>2, <1>3, <1>4, ReturnPasses DEF StepOf

\* Whatever a goroutine does next, nothing that lasts is forgotten.
LEMMA CommandSteps ==
    ASSUME ShapeInv, NEW w \in Workers, Command(w)
    PROVE  Busy(w) /\ StepOf(w)
  <1>1. Busy(w)
    <2>1. \/ Does(w, "flush") \/ Does(w, "append") \/ Does(w, "deleteJump")
          \/ Does(w, "insertJump") \/ Does(w, "clamp") \/ Does(w, "zones")
          \/ Does(w, "readVPNDNS") \/ Does(w, "forget") \/ Does(w, "compare")
          \/ Does(w, "write") \/ Does(w, "test") \/ Does(w, "restart") \/ Does(w, "serve")
          \/ Does(w, "remember") \/ Does(w, "accept")
      BY Zenon DEF Command, RunFlush, RunAppend, DeleteJump, InsertJump, Clamp, Accept, CheckZones,
             ReadVPNDNS, Forget, Compare, Write, Test, Restart, WriteFails, Serve, ServeFails, Remember
    <2>2. QED
      BY <2>1 DEF Does
  <1>2. CASE Done(w)
    BY <1>1, <1>2, DoneSteps
  <1>3. CASE ReturnFromWrite(w) /\ (Compare(w) \/ WriteFails(w))
    BY <1>1, <1>3, ReturnSteps DEF Compare, WriteFails
  <1>4. CASE CheckZones(w) /\ todo' = [todo EXCEPT ![w] = ApplyVPNDNS \o Tail(@)]
    <2>1. todo[w][1] = ZonesCmd /\ JobShape(todo[w]) /\ todo[w] # <<>>
      BY <1>1, <1>4, Commanded, NamesAreUnique DEF CheckZones
    <2>2. /\ todo'[w] = ApplyVPNDNS \o Tail(todo[w])
          /\ todo' = [todo EXCEPT ![w] = ApplyVPNDNS \o Tail(todo[w])]
      BY <1>4 DEF ShapeInv, TypeInv
    <2>3. QED
      BY <1>1, <2>1, <2>2, ZonesPasses DEF StepOf
  <1>5. Done(w) \/ (ReturnFromWrite(w) /\ (Compare(w) \/ WriteFails(w)))
          \/ (CheckZones(w) /\ todo' = [todo EXCEPT ![w] = ApplyVPNDNS \o Tail(@)])
    BY Zenon DEF Command, RunFlush, RunAppend, DeleteJump, InsertJump, Clamp, Accept, CheckZones,
             ReadVPNDNS, Forget, Compare, Write, Test, Restart, WriteFails, Serve, ServeFails, Remember
  <1>6. QED
    BY <1>1, <1>2, <1>3, <1>4, <1>5

-----------------------------------------------------------------------------
(* What is not in force is still to be done.                               *)

Pending(c) == \E w \in Workers : Occurs(c, todo[w])
Rewrites(w) == todo[w] # <<>> /\ todo[w][1] \in {WriteCmd, TestCmd, RestartCmd}
Remembers(w) == todo[w] # <<>> /\ todo[w][1] = RememberCmd

RulesInv == \A k \in Kept : k[2] \in rules[k[1]] \/ Pending(Append1(k[1], k[2]))
LinkInv == linked = RouterChains \/ Pending(Append1("nat", "wan"))
JumpInv == jumps > 0 \/ Pending(InsertCmd)
\* While dnsmasq has not read the file, somebody is about to restart it, or to write
\* it and find the cache empty.
ServeInv ==
    failures = 0 /\ dnsServed # dnsFile =>
        \/ \E w \in Workers : Rewrites(w)
        \/ /\ lastDnsmasqConfig = NoCache /\ Pending(CompareCmd)
           /\ \A w \in Workers : ~Remembers(w)

FirewallInv == ShapeInv /\ RulesInv /\ LinkInv /\ JumpInv /\ ServeInv

\* A command that lasts is pending until it is the one that is done.
LEMMA PendingLasts ==
    ASSUME ShapeInv, NEW w \in Workers, StepOf(w), NEW c \in Lasting, Pending(c)
    PROVE  Pending(c)' \/ todo[w][1] = c
  <1>1. PICK v \in Workers : Occurs(c, todo[v])
    BY DEF Pending
  <1>2. CASE v = w
    BY <1>1, <1>2 DEF StepOf, Passes, Pending
  <1>3. CASE v # w
    <2>1. todo'[v] = todo[v]
      BY <1>3 DEF StepOf, ShapeInv, TypeInv
    <2>2. QED
      BY <1>1, <2>1 DEF Pending
  <1>4. QED
    BY <1>2, <1>3

\* What is deleted or flushed is still to be put back by who did it.
LEMMA PutBack ==
    ASSUME ShapeInv, NEW w \in Workers, StepOf(w), NEW b \in Lasting, b # todo[w][1],
           Followed(todo[w], todo[w][1], b)
    PROVE  Pending(b)'
  <1> DEFINE q == todo[w]
  <1>1. q \in Seq(CommandSet) /\ q # <<>>
    BY DEF ShapeInv, TypeInv, StepOf, Passes
  <1>2. 1 \in 1 .. Len(q)
    BY <1>1
  <1>3. PICK j \in 1 + 1 .. Len(q) : q[j] = b
    BY <1>2 DEF Followed
  <1>4. j \in 1 .. Len(q)
    BY <1>1, <1>3
  <1>5. Occurs(b, q)
    BY <1>3, <1>4 DEF Occurs
  <1>6. QED
    BY <1>5 DEF StepOf, Passes, Pending

LEMMA LastingCommands ==
    /\ \A k \in Kept : Append1(k[1], k[2]) \in Lasting
    /\ InsertCmd \in Lasting /\ Append1("nat", "wan") \in Lasting
  <1>1. <<"nat", "wan">> \in Kept /\ <<"nat", "wan">>[1] = "nat" /\ <<"nat", "wan">>[2] = "wan"
    BY DEF Kept
  <1>2. QED
    BY <1>1 DEF Lasting

\* The type of the rules, and each rule that lasts.
LEMMA RulesStep ==
    ASSUME FirewallInv, NEW w \in Workers, Command(w)
    PROVE  /\ rules' \in [Chains -> SUBSET (RulesOf("in") \cup RulesOf("fwd"))]
           /\ rules'["in"] \subseteq ManagementRules /\ linked' \in SUBSET RouterChains
           /\ RulesInv' /\ LinkInv'
  <1> DEFINE c == todo[w][1]
  <1>1. /\ StepOf(w) /\ Busy(w) /\ ShapeInv /\ RulesInv /\ LinkInv
        /\ c \in CommandSet /\ todo[w] \in Seq(CommandSet) /\ todo[w] # <<>>
        /\ JobShape(todo[w]) /\ Head(todo[w]) = c
        /\ \A name : Does(w, name) <=> c[1] = name
    BY CommandSteps, Commanded DEF FirewallInv
  <1>2. /\ rules \in [Chains -> SUBSET (RulesOf("in") \cup RulesOf("fwd"))]
        /\ rules["in"] \subseteq ManagementRules /\ linked \in SUBSET RouterChains
    BY <1>1 DEF ShapeInv, TypeInv
  <1>3. \A k \in Kept : k[1] \in Chains /\ k[2] \in RulesOf(k[1])
                           /\ Append1(k[1], k[2]) \in Lasting
    BY KeptAre, LastingCommands
  <1> HIDE DEF c
  <1>4. CASE RunFlush(w)
    <2>1. PICK ch \in Chains : c = Flush(ch)
      BY <1>1, <1>4, NamesAreUnique DEF RunFlush
    <2>2. rules' = [rules EXCEPT ![ch] = {}] /\ linked' \in SUBSET RouterChains
            /\ (linked = RouterChains => linked' = RouterChains)
      <3>1. linked' = linked \cup (IF Head(todo[w])[2] = "in" THEN {} ELSE RouterChains)
        BY <1>4, Zenon DEF RunFlush
      <3>2. linked' \in SUBSET RouterChains /\ (linked = RouterChains => linked' = RouterChains)
        BY <1>2, <3>1
      <3>3. rules' = [rules EXCEPT ![Head(todo[w])[2]] = {}]
        BY <1>4, SMT DEF RunFlush
      <3>4. Head(todo[w])[2] = ch
        BY <1>1, <2>1, CommandNames
      <3>5. QED
        BY <3>2, <3>3, <3>4
    <2>3. \A d \in Lasting : d # c
      BY <2>1, CommandsDiffer DEF Lasting
    <2>4. ASSUME NEW k \in Kept PROVE k[2] \in rules'[k[1]] \/ Pending(Append1(k[1], k[2]))'
      <3>1. CASE k[1] = ch
        <4>1. Followed(todo[w], c, Append1(k[1], k[2]))
          BY <1>1, <2>1, <3>1 DEF JobShape
        <4>2. QED
          BY <1>1, <1>3, <2>3, <4>1, PutBack DEF c
      <3>2. CASE k[1] # ch /\ k[2] \in rules[k[1]]
        BY <1>2, <1>3, <2>2, <3>2
      <3>3. CASE Pending(Append1(k[1], k[2]))
        BY <1>1, <1>3, <2>3, <3>3, PendingLasts DEF c
      <3>4. QED
        BY <1>1, <3>1, <3>2, <3>3 DEF RulesInv
    <2>5. LinkInv'
      BY <1>1, <2>2, <2>3, LastingCommands, PendingLasts DEF LinkInv, c
    <2>6. /\ rules' \in [Chains -> SUBSET (RulesOf("in") \cup RulesOf("fwd"))]
          /\ rules'["in"] \subseteq ManagementRules
      BY <1>2, <2>2 DEF Chains
    <2>7. QED
      BY <2>2, <2>4, <2>5, <2>6 DEF RulesInv
  <1>5. CASE RunAppend(w)
    <2>1. PICK ch \in Chains : \E r \in RulesOf(ch) : c = Append1(ch, r)
      BY <1>1, <1>5, NamesAreUnique DEF RunAppend
    <2>2. PICK r \in RulesOf(ch) : c = Append1(ch, r)
      BY <2>1
    <2>3. rules' = [rules EXCEPT ![ch] = @ \cup {r}] /\ linked' \in SUBSET RouterChains
            /\ (linked = RouterChains \/ ch # "in" => linked' = RouterChains)
      <3>1. linked' = linked \cup (IF Head(todo[w])[2] = "in" THEN {} ELSE RouterChains)
        BY <1>5, Zenon DEF RunAppend
      <3>2. linked' \in SUBSET RouterChains
              /\ (linked = RouterChains \/ Head(todo[w])[2] # "in" => linked' = RouterChains)
        BY <1>2, <3>1
      <3>3. rules' = [rules EXCEPT ![Head(todo[w])[2]] = @ \cup {Head(todo[w])[3]}]
        BY <1>5, SMT DEF RunAppend
      <3>4. Head(todo[w])[2] = ch /\ Head(todo[w])[3] = r
        BY <1>1, <2>2, CommandNames
      <3>5. QED
        BY <3>2, <3>3, <3>4
    <2>4. ASSUME NEW k \in Kept PROVE k[2] \in rules'[k[1]] \/ Pending(Append1(k[1], k[2]))'
      <3>1. CASE k[2] \in rules[k[1]]
        BY <1>2, <1>3, <2>3, <3>1
      <3>2. CASE Append1(k[1], k[2]) = c
        <4>1. k[1] = ch /\ k[2] = r
          BY <2>2, <3>2, CommandsDiffer
        <4>2. QED
          BY <1>2, <2>3, <4>1
      <3>3. CASE Pending(Append1(k[1], k[2])) /\ Append1(k[1], k[2]) # c
        BY <1>1, <1>3, <3>3, PendingLasts DEF c
      <3>4. QED
        BY <1>1, <3>1, <3>2, <3>3 DEF RulesInv
    <2>5. LinkInv'
      <3>1. CASE linked = RouterChains
        BY <2>3, <3>1 DEF LinkInv
      <3>2. CASE Append1("nat", "wan") = c
        <4>1. ch = "nat"
          BY <2>2, <3>2, CommandsDiffer
        <4>2. QED
          BY <2>3, <4>1 DEF LinkInv
      <3>3. CASE Pending(Append1("nat", "wan")) /\ Append1("nat", "wan") # c
        BY <1>1, <3>3, LastingCommands, PendingLasts DEF LinkInv, c
      <3>4. QED
        BY <1>1, <3>1, <3>2, <3>3 DEF LinkInv
    <2>6. r \in RulesOf("in") \cup RulesOf("fwd") /\ (ch = "in" => r \in ManagementRules)
      BY DEF RulesOf
    <2>7. /\ rules' \in [Chains -> SUBSET (RulesOf("in") \cup RulesOf("fwd"))]
          /\ rules'["in"] \subseteq ManagementRules
      BY <1>2, <2>3, <2>6 DEF Chains
    <2>8. QED
      BY <2>3, <2>4, <2>5, <2>7 DEF RulesInv
  <1>6. CASE ~RunFlush(w) /\ ~RunAppend(w)
    <2>1. c[1] # "append" /\ rules' = rules /\ linked' \in SUBSET RouterChains
            /\ (linked = RouterChains => linked' = RouterChains)
      <3>1. rules' = rules /\ (linked' = linked \/ linked' = linked \cup {"fwd"})
        BY <1>6, Zenon DEF Command, DeleteJump, InsertJump, Clamp, Accept, CheckZones, ReadVPNDNS,
           Forget, Compare, Write, Test, Restart, WriteFails, Serve, ServeFails, Remember, chainVars
      <3>2. \E name \in {"deleteJump", "insertJump", "clamp", "accept", "zones", "readVPNDNS", "forget",
                          "compare", "write", "test", "restart", "serve", "remember"} :
              Does(w, name)
        BY <1>6, Zenon DEF Command, DeleteJump, InsertJump, Clamp, Accept, CheckZones, ReadVPNDNS,
           Forget, Compare, Write, Test, Restart, WriteFails, Serve, ServeFails, Remember
      <3>3. c[1] # "append"
        BY <1>1, <3>2
      <3>4. linked' \in SUBSET RouterChains /\ (linked = RouterChains => linked' = RouterChains)
        BY <1>2, <3>1 DEF RouterChains
      <3>5. QED
        BY <3>1, <3>3, <3>4
    <2>2. \A k \in Kept : Append1(k[1], k[2]) # c
      BY <2>1, CommandNames
    <2>3. Append1("nat", "wan") # c
      BY <2>1, CommandNames
    <2>4. RulesInv'
      BY <1>1, <1>3, <2>1, <2>2, PendingLasts DEF RulesInv, c
    <2>5. LinkInv'
      BY <1>1, <2>1, <2>3, LastingCommands, PendingLasts DEF LinkInv, c
    <2>6. QED
      BY <1>2, <2>1, <2>4, <2>5
  <1>7. QED
    BY <1>4, <1>5, <1>6

\* The jump, and what dnsmasq has read.
LEMMA JumpStep ==
    ASSUME FirewallInv, NEW w \in Workers, Command(w)
    PROVE  jumps' \in Nat /\ JumpInv'
  <1> DEFINE c == todo[w][1]
  <1>1. /\ StepOf(w) /\ Busy(w) /\ ShapeInv /\ JumpInv /\ jumps \in Nat
        /\ c \in CommandSet /\ JobShape(todo[w])
        /\ \A name : Does(w, name) <=> c[1] = name
    BY CommandSteps, Commanded DEF FirewallInv, ShapeInv, TypeInv
  <1>2. InsertCmd \in Lasting
    BY LastingCommands
  <1> HIDE DEF c
  <1>3. CASE DeleteJump(w)
    <2>1. c = DeleteCmd /\ c # InsertCmd
      BY <1>1, <1>3, NamesAreUnique, PlainCommandsDiffer DEF DeleteJump
    <2>2. Followed(todo[w], c, InsertCmd)
      BY <1>1, <2>1 DEF JobShape, PartShape, FirewallShape
    <2>3. Pending(InsertCmd)'
      BY <1>1, <1>2, <2>1, <2>2, PutBack DEF c
    <2>4. jumps' \in Nat
      BY <1>1, <1>3 DEF DeleteJump
    <2>5. QED
      BY <2>3, <2>4 DEF JumpInv
  <1>4. CASE InsertJump(w)
    BY <1>1, <1>4 DEF InsertJump, JumpInv
  <1>5. CASE ~DeleteJump(w) /\ ~InsertJump(w)
    <2>1. jumps' = jumps
      BY <1>5, Zenon DEF Command, RunFlush, RunAppend, Clamp, Accept, CheckZones, ReadVPNDNS, Forget,
         Compare, Write, Test, Restart, WriteFails, Serve, ServeFails, Remember, chainVars
    <2>2. \E name \in {"flush", "append", "clamp", "accept", "zones", "readVPNDNS", "forget",
                        "compare", "write", "test", "restart", "serve", "remember"} :
            Does(w, name)
      BY <1>5, Zenon DEF Command, RunFlush, RunAppend, Clamp, Accept, CheckZones, ReadVPNDNS, Forget,
         Compare, Write, Test, Restart, WriteFails, Serve, ServeFails, Remember
    <2>3. InsertCmd # c
      BY <1>1, <2>2, CommandNames
    <2>4. QED
      BY <1>1, <1>2, <2>1, <2>3, PendingLasts DEF JumpInv, c
  <1>6. QED
    BY <1>3, <1>4, <1>5

LEMMA ConfsAreTexts == \A d \in Confs : d # NoCache
  BY Zenon DEF Confs, NoCache

\* What w is not about to do it leaves to others.
LEMMA OthersKeepOn ==
    ASSUME ShapeInv, NEW w \in Workers, StepOf(w), NEW v \in Workers, v # w
    PROVE  (Rewrites(v) => Rewrites(v)') /\ (Remembers(v)' <=> Remembers(v))
  BY DEF ShapeInv, TypeInv, StepOf, Rewrites, Remembers

\* Nobody begins to remember a text but by restarting dnsmasq, and a comparison that
\* is to come is dropped only within a write.
LEMMA ComparesKeepOn ==
    ASSUME ShapeInv, NEW w \in Workers, StepOf(w), todo[w][1] \notin Writing,
           Pending(CompareCmd), \A v \in Workers : ~Remembers(v)
    PROVE  Pending(CompareCmd)' /\ \A v \in Workers : ~Remembers(v)'
  <1>1. ~Remembers(w)'
    BY PlainCommandsDiffer DEF StepOf, Passes, Remembers, Inner, Needs, Writing
  <1>2. \A v \in Workers : ~Remembers(v)'
    BY <1>1, OthersKeepOn
  <1>3. PICK v \in Workers : Occurs(CompareCmd, todo[v])
    BY DEF Pending
  <1>4. Occurs(CompareCmd, todo'[v])
    BY <1>3 DEF StepOf, Passes, ShapeInv, TypeInv
  <1>5. QED
    BY <1>2, <1>4 DEF Pending

\* What a goroutine may find in the file.
LEMMA Seen ==
    ASSUME ShapeInv, NEW f \in FileSeen, f # dnsFile
    PROVE  \E v \in Workers : Rewrites(v) /\ Does(v, "write")
  <1>1. PICK v \in Workers : Does(v, "write")
    BY DEF FileSeen
  <1>2. Busy(v)
    BY <1>1 DEF Does
  <1>3. todo[v][1] = WriteCmd /\ todo[v] # <<>>
    BY <1>1, <1>2, Commanded, NamesAreUnique
  <1>4. QED
    BY <1>1, <1>3 DEF Rewrites

LEMMA ServeStep ==
    ASSUME FirewallInv, NEW w \in Workers, Command(w)
    PROVE  failures' \in Nat /\ conf' \in [Workers -> Confs] /\ ServeInv'
  <1> DEFINE c == todo[w][1]
  <1>1. /\ StepOf(w) /\ Busy(w) /\ ShapeInv /\ ServeInv /\ failures \in Nat
        /\ c \in CommandSet /\ JobShape(todo[w]) /\ todo[w] # <<>>
        /\ todo \in [Workers -> Seq(CommandSet)] /\ Len(todo[w]) \in Nat
        /\ \A name : Does(w, name) <=> c[1] = name
        /\ conf \in [Workers -> Confs]
    BY CommandSteps, Commanded DEF FirewallInv, ShapeInv, TypeInv
  <1>2. conf' \in [Workers -> Confs]
    <2>1. \/ conf' = conf
          \/ \E d \in Confs : conf' = [conf EXCEPT ![w] = d]
      <3>1. "direct" \in Confs
        BY DEF Confs
      <3>2. QED
        BY <3>1, Zenon DEF Command, RunFlush, RunAppend, DeleteJump, InsertJump, Clamp, Accept,
           CheckZones, ReadVPNDNS, Forget, Compare, Write, Test, Restart, WriteFails, Serve,
           ServeFails, Remember, ReturnFromWrite, Dropped
    <2>2. QED
      BY <1>1, <2>1
  <1>3. \A v \in Workers : v # w /\ Rewrites(v) => Rewrites(v)'
    BY <1>1, OthersKeepOn
  <1>4. \A i \in 1 .. Len(todo[w]) - 1 : Tail(todo[w])[i] = todo[w][i + 1]
    BY <1>1, TailIsRest
  <1>5. Len(Tail(todo[w])) = Len(todo[w]) - 1
    BY <1>1, TailIsRest
  <1>6. ASSUME NEW d, Len(todo[w]) >= 2, todo[w][2] = d, Done(w)
        PROVE  todo'[w] # <<>> /\ todo'[w][1] = d
    <2>1. todo'[w] = Tail(todo[w])
      BY <1>1, <1>6 DEF Done
    <2>2. Len(todo[w]) \in Nat /\ Len(todo[w]) >= 2
      BY <1>1, <1>6
    <2>3. 1 \in 1 .. Len(todo[w]) - 1 /\ Len(todo[w]) - 1 # 0
      <3>1. \A n \in Nat : n >= 2 => 1 \in 1 .. n - 1 /\ n - 1 # 0
        OBVIOUS
      <3>2. QED
        BY <2>2, <3>1, Zenon
    <2>4. todo'[w][1] = todo[w][1 + 1]
      BY <1>4, <2>1, <2>3
    <2>5. todo'[w] # <<>>
      <3>1. Len(<<>>) = 0
        OBVIOUS
      <3>2. QED
        BY <1>5, <2>1, <2>3, <3>1, Zenon
    <2>6. QED
      BY <1>6, <2>4, <2>5
  <1> HIDE DEF c
  <1>7. ASSUME Rewrites(w)', failures' = failures PROVE failures' \in Nat /\ ServeInv'
    BY <1>1, <1>7 DEF ServeInv
  <1>8. CASE Write(w)
    <2>1. c = WriteCmd
      BY <1>1, <1>8, NamesAreUnique DEF Write
    <2>2. Len(todo[w]) >= 2 /\ todo[w][2] = TestCmd
      BY <1>1, <2>1, WritesAhead DEF c
    <2>3. Rewrites(w)' /\ failures' = failures
      BY <1>6, <1>8, <2>2 DEF Write, Rewrites
    <2>4. QED
      BY <1>2, <1>7, <2>3
  <1>9. CASE Test(w)
    <2>1. c = TestCmd
      BY <1>1, <1>9, NamesAreUnique DEF Test
    <2>2. Len(todo[w]) >= 2 /\ todo[w][2] = RestartCmd
      BY <1>1, <2>1, WritesAhead DEF c
    <2>3. Rewrites(w)' /\ failures' = failures
      BY <1>6, <1>9, <2>2 DEF Test, Rewrites
    <2>4. QED
      BY <1>2, <1>7, <2>3
  <1>10. CASE Compare(w)
    <2>1. c = CompareCmd /\ failures' = failures
      BY <1>1, <1>10, NamesAreUnique DEF Compare
    <2>2. CASE Done(w)
      <3>1. Len(todo[w]) >= 2 /\ todo[w][2] = WriteCmd
        BY <1>1, <2>1, WritesAhead DEF c
      <3>2. Rewrites(w)'
        BY <1>6, <2>2, <3>1 DEF Rewrites
      <3>3. QED
        BY <1>2, <1>7, <2>1, <3>2
    <2>3. CASE conf[w] = lastDnsmasqConfig
      <3>1. dnsFile' = dnsFile /\ dnsServed' = dnsServed
        BY <1>10 DEF Compare, dnsVars
      <3>2. ~Rewrites(w)
        BY <2>1, PlainCommandsDiffer DEF Rewrites, c
      <3>3. conf[w] # NoCache
        BY <1>1, ConfsAreTexts
      <3>4. QED
        BY <1>1, <1>2, <1>3, <2>1, <2>3, <3>1, <3>2, <3>3 DEF ServeInv
    <2>4. QED
      BY <1>10, <2>2, <2>3 DEF Compare
  <1>11. CASE Remember(w)
    <2>1. c = RememberCmd
      BY <1>1, <1>11, NamesAreUnique DEF Remember
    <2>2. Remembers(w) /\ ~Rewrites(w)
      BY <1>1, <2>1, PlainCommandsDiffer DEF Remembers, Rewrites, c
    <2>3. failures' = failures /\ dnsFile' = dnsFile /\ dnsServed' = dnsServed
      BY <1>11 DEF Remember
    <2>4. QED
      BY <1>1, <1>2, <1>3, <2>2, <2>3 DEF ServeInv
  <1>12. CASE Restart(w) \/ Serve(w)
    <2>1. failures' = failures /\ dnsFile' = dnsFile /\ c[1] # "write"
          /\ lastDnsmasqConfig' = lastDnsmasqConfig
          /\ dnsServed' \in FileSeen \cup (IF Serve(w) THEN {dnsServed} ELSE {})
      BY <1>1, <1>12 DEF Restart, Serve
    <2>2. CASE dnsServed' = dnsFile
      BY <1>1, <1>2, <2>1, <2>2 DEF ServeInv
    <2>3. CASE dnsServed' \in FileSeen /\ dnsServed' # dnsFile
      <3>1. PICK v \in Workers : Rewrites(v) /\ Does(v, "write")
        BY <1>1, <2>3, Seen
      <3>2. v # w
        BY <1>1, <2>1, <3>1
      <3>3. QED
        BY <1>1, <1>2, <1>3, <2>1, <3>1, <3>2 DEF ServeInv
    <2>4. CASE Serve(w) /\ dnsServed' = dnsServed
      <3>1. c = ServeCmd
        BY <1>1, <2>4, NamesAreUnique DEF Serve
      <3>2. c \notin Writing /\ ~Rewrites(w)
        BY <3>1, PlainCommandsDiffer DEF Writing, Rewrites, c
      <3>3. QED
        BY <1>1, <1>2, <1>3, <2>1, <2>4, <3>2, ComparesKeepOn DEF ServeInv, c
    <2>5. QED
      BY <2>1, <2>2, <2>3, <2>4
  <1>13. CASE WriteFails(w)
    BY <1>1, <1>2, <1>13 DEF WriteFails, ServeInv
  <1>14. CASE ServeFails(w)
    BY <1>1, <1>2, <1>14 DEF ServeFails, ServeInv
  <1>15. CASE \/ RunFlush(w) \/ RunAppend(w) \/ DeleteJump(w) \/ InsertJump(w) \/ Clamp(w)
              \/ Accept(w) \/ CheckZones(w) \/ ReadVPNDNS(w) \/ Forget(w)
    <2>1. /\ failures' = failures /\ dnsFile' = dnsFile /\ dnsServed' = dnsServed
          /\ lastDnsmasqConfig' = lastDnsmasqConfig \/ lastDnsmasqConfig' = NoCache
      BY <1>15, Zenon DEF RunFlush, RunAppend, DeleteJump, InsertJump, Clamp, Accept,
         CheckZones, ReadVPNDNS, Forget, dnsVars
    <2>2. \E name \in {"flush", "append", "deleteJump", "insertJump", "clamp", "accept",
                        "zones", "readVPNDNS", "forget"} : Does(w, name)
      BY <1>15, Zenon DEF RunFlush, RunAppend, DeleteJump, InsertJump, Clamp, Accept,
         CheckZones, ReadVPNDNS, Forget
    <2>3. c \notin Writing
      BY <1>1, <2>2, CommandNames DEF Writing
    <2>4. ~Rewrites(w)
      BY <2>3 DEF Rewrites, Writing, c
    <2>5. QED
      BY <1>1, <1>2, <1>3, <2>1, <2>3, <2>4, ComparesKeepOn DEF ServeInv, c
  <1>16. QED
    BY <1>8, <1>9, <1>10, <1>11, <1>12, <1>13, <1>14, <1>15 DEF Command

-----------------------------------------------------------------------------
(* The invariant, and what it says of a router at rest.                    *)

LEMMA IdleIsShaped == JobShape(<<>>) /\ \A c : ~Occurs(c, <<>>)
  <1>1. <<>> \in Seq(CommandSet) /\ Len(<<>>) = 0 /\ 1 .. 0 = {}
    OBVIOUS
  <1>2. QED
    BY <1>1 DEF JobShape, PartShape, InsertsShape, WriteShape, FirewallShape, Leads, Followed,
                Occurs

\* The service starts: one goroutine has everything to do.
Booting ==
    \E first \in Workers, j \in {"direct", "vpn"} :
        todo = [w \in Workers |-> IF w = first THEN Boot \o Commands(j) ELSE <<>>]

AllPending ==
    /\ todo \in [Workers -> Seq(CommandSet)] /\ \A w \in Workers : JobShape(todo[w])
    /\ \A c \in Lasting : Pending(c)
    /\ Pending(CompareCmd)
    /\ \A w \in Workers : Busy(w) => todo[w][1] \notin Inner

LEMMA BootingDoesAll == Booting => AllPending
  <1> SUFFICES ASSUME Booting PROVE AllPending
    OBVIOUS
  <1>1. PICK first \in Workers, j \in {"direct", "vpn"} :
          todo = [w \in Workers |-> IF w = first THEN Boot \o Commands(j) ELSE <<>>]
    BY DEF Booting
  <1> DEFINE b == Boot \o Commands(j)
  <1>2. /\ JobShape(b) /\ Part(b) /\ \A k \in Kept : Occurs(Append1(k[1], k[2]), b)
        /\ Occurs(InsertCmd, b) /\ Occurs(CompareCmd, b)
    BY BootIsShaped
  <1> HIDE DEF b
  <1>3. todo = [w \in Workers |-> IF w = first THEN b ELSE <<>>]
    BY <1>1 DEF b
  <1>4. \A w \in Workers : JobShape(todo[w]) /\ todo[w] \in Seq(CommandSet)
    BY <1>2, <1>3, IdleIsShaped DEF JobShape, PartShape
  <1>5. \A c \in Lasting : Occurs(c, b)
    BY <1>2 DEF Lasting
  <1>6. Pending(CompareCmd) /\ \A c \in Lasting : Pending(c)
    BY <1>2, <1>3, <1>5 DEF Pending
  <1>7. \A w \in Workers : Busy(w) => todo[w][1] \notin Inner
    BY <1>2, <1>3 DEF Busy, Part
  <1>8. QED
    BY <1>3, <1>4, <1>6, <1>7 DEF AllPending

LEMMA FirewallInit == Init => FirewallInv
  <1> SUFFICES ASSUME Init PROVE FirewallInv
    OBVIOUS
  <1>1. Booting
    BY DEF Init, Booting
  <1>2. /\ rules = [c \in Chains |-> {}] /\ jumps = 0 /\ failures = 0 /\ linked = {}
        /\ lastDnsmasqConfig = NoCache /\ conf = [w \in Workers |-> "direct"]
    BY DEF Init
  <1>3. TypeInv
    BY <1>1, <1>2, BootingDoesAll DEF AllPending, TypeInv, Chains, Confs
  <1>4. ShapeInv
    BY <1>1, <1>3, BootingDoesAll DEF AllPending, ShapeInv
  <1>5. RulesInv /\ LinkInv /\ JumpInv
    BY <1>1, BootingDoesAll, LastingCommands DEF AllPending, RulesInv, LinkInv, JumpInv
  <1>6. ServeInv
    BY <1>1, <1>2, BootingDoesAll DEF AllPending, ServeInv, Remembers, Busy, Inner
  <1>7. QED
    BY <1>4, <1>5, <1>6 DEF FirewallInv

LEMMA FirewallCrash ==
    ASSUME FirewallInv, Crash
    PROVE  FirewallInv'
  <1>1. Booting'
    BY DEF Crash, Booting
  <1>2. AllPending'
    BY <1>1, BootingDoesAll, PTL
  <1>3. /\ rules' = rules \/ rules' = [c \in Chains |-> {}]
        /\ jumps' = jumps \/ jumps' = 0
        /\ linked' = linked \/ linked' = {}
        /\ failures' = failures /\ lastDnsmasqConfig' = NoCache
        /\ conf' = [w \in Workers |-> "direct"]
    BY DEF Crash
  <1>4. TypeInv'
    BY <1>2, <1>3 DEF AllPending, FirewallInv, ShapeInv, TypeInv, Chains, Confs
  <1>5. ShapeInv'
    BY <1>2, <1>4 DEF AllPending, ShapeInv
  <1>6. RulesInv' /\ LinkInv' /\ JumpInv'
    BY <1>2, LastingCommands DEF AllPending, RulesInv, LinkInv, JumpInv
  <1>7. ServeInv'
    BY <1>2, <1>3 DEF AllPending, ServeInv, Remembers, Busy, Inner
  <1>8. QED
    BY <1>5, <1>6, <1>7 DEF FirewallInv

LEMMA FirewallStart ==
    ASSUME FirewallInv, NEW w \in Workers, NEW j \in Jobs, Start(w, j)
    PROVE  FirewallInv'
  <1>1. /\ todo[w] = <<>> /\ todo' = [todo EXCEPT ![w] = Commands(j)]
        /\ UNCHANGED <<rules, linked, jumps, dnsFile, dnsServed, lastDnsmasqConfig, failures,
                       conf>>
    BY DEF Start, Busy, chainVars, dnsVars
  <1>2. ShapeInv /\ TypeInv /\ RulesInv /\ LinkInv /\ JumpInv /\ ServeInv
        /\ todo \in [Workers -> Seq(CommandSet)]
    BY DEF FirewallInv, ShapeInv, TypeInv
  <1>3. JobShape(Commands(j)) /\ Commands(j) \in Seq(CommandSet)
    BY JobsAreShaped DEF JobShape, PartShape
  <1>4. \A v \in Workers : todo'[v] = IF v = w THEN Commands(j) ELSE todo[v]
    BY <1>1, <1>2
  <1>5. ShapeInv'
    BY <1>1, <1>2, <1>3, <1>4 DEF ShapeInv, TypeInv
  <1>6. \A c : Pending(c) => Pending(c)'
    BY <1>1, <1>2, <1>4, IdleIsShaped DEF Pending
  <1>7. \A v \in Workers : Rewrites(v) => Rewrites(v)'
    BY <1>1, <1>2, <1>4 DEF Rewrites
  <1>8. \A v \in Workers : Remembers(v)' => Remembers(v)
    <2>1. Commands(j)[1] # RememberCmd
      BY JobsAreShaped DEF Part, Inner
    <2>2. QED
      BY <1>4, <2>1 DEF Remembers
  <1>9. RulesInv' /\ LinkInv' /\ JumpInv'
    BY <1>1, <1>2, <1>6 DEF RulesInv, LinkInv, JumpInv
  <1>10. ServeInv'
    BY <1>1, <1>2, <1>6, <1>7, <1>8 DEF ServeInv
  <1>11. QED
    BY <1>5, <1>9, <1>10 DEF FirewallInv

LEMMA FirewallCommand ==
    ASSUME FirewallInv, NEW w \in Workers, Command(w)
    PROVE  FirewallInv'
  <1>1. StepOf(w) /\ ShapeInv /\ todo \in [Workers -> Seq(CommandSet)]
    BY CommandSteps DEF FirewallInv, ShapeInv, TypeInv
  <1>2. \A v \in Workers : JobShape(todo'[v])
    BY <1>1 DEF StepOf, Passes, ShapeInv
  <1>3. todo' \in [Workers -> Seq(CommandSet)]
    BY <1>1, <1>2 DEF StepOf, JobShape, PartShape
  <1>4. ShapeInv'
    BY <1>2, <1>3, RulesStep, JumpStep, ServeStep DEF ShapeInv, TypeInv
  <1>5. QED
    BY <1>4, RulesStep, JumpStep, ServeStep DEF FirewallInv

LEMMA FirewallStutters ==
    ASSUME FirewallInv, UNCHANGED vars
    PROVE  FirewallInv'
  BY DEF vars, chainVars, dnsVars, countVars, FirewallInv, ShapeInv, TypeInv, RulesInv,
         LinkInv, JumpInv, ServeInv, Pending, Rewrites, Remembers

THEOREM FirewallInvariant == Spec => []FirewallInv
  <1>1. FirewallInv /\ [Next]_vars => FirewallInv'
    <2> SUFFICES ASSUME FirewallInv, [Next]_vars PROVE FirewallInv'
      OBVIOUS
    <2>1. CASE Crash
      BY <2>1, FirewallCrash
    <2>2. ASSUME NEW w \in Workers, Command(w) PROVE FirewallInv'
      BY <2>2, FirewallCommand
    <2>3. ASSUME NEW w \in Workers, NEW j \in Jobs, Start(w, j) PROVE FirewallInv'
      BY <2>3, FirewallStart
    <2>4. CASE UNCHANGED vars
      BY <2>4, FirewallStutters
    <2>5. QED
      BY <2>1, <2>2, <2>3, <2>4 DEF Next
  <1>2. QED
    BY <1>1, FirewallInit, PTL DEF Spec

-----------------------------------------------------------------------------
LEMMA NothingPending == Quiet => \A c : ~Pending(c)
  BY IdleIsShaped DEF Quiet, Busy, Pending

\* Whatever overlapped, failed or died, once all jobs are done the management
\* chain holds both its rules and INPUT jumps to it.
THEOREM ManagementStaysOpen == Spec => []ManagementOpen
  <1>1. FirewallInv => ManagementOpen
    <2> SUFFICES ASSUME FirewallInv, Quiet PROVE rules["in"] = ManagementRules /\ jumps > 0
      BY DEF ManagementOpen
    <2>1. \A k \in Kept : k[2] \in rules[k[1]]
      BY NothingPending DEF FirewallInv, RulesInv
    <2>2. <<"in", "mgmt">> \in Kept /\ <<"in", "ifaces">> \in Kept
      BY DEF Kept
    <2>3. "mgmt" \in rules["in"] /\ "ifaces" \in rules["in"]
      BY <2>1, <2>2
    <2>4. rules["in"] = ManagementRules
      BY <2>3 DEF FirewallInv, ShapeInv, TypeInv, ManagementRules
    <2>5. QED
      BY <2>4, NothingPending DEF FirewallInv, JumpInv
  <1>2. QED
    BY <1>1, FirewallInvariant, PTL

\* Once all jobs are done the LAN's rules for the WAN are in both chains, and the
\* kernel's chains jump to ours.
THEOREM InternetStaysReachable == Spec => []LANReachesInternet
  <1>1. FirewallInv => LANReachesInternet
    <2> SUFFICES ASSUME FirewallInv, Quiet
                 PROVE  linked = RouterChains /\ "wan" \in rules["nat"] /\ ForwardWAN \subseteq rules["fwd"]
      BY DEF LANReachesInternet
    <2>1. \A k \in Kept : k[2] \in rules[k[1]]
      BY NothingPending DEF FirewallInv, RulesInv
    <2>2. /\ <<"nat", "wan">> \in Kept /\ <<"fwd", "lan-wan">> \in Kept
          /\ <<"fwd", "wan-lan">> \in Kept
      BY DEF Kept
    <2>3. /\ "wan" \in rules["nat"] /\ "lan-wan" \in rules["fwd"]
          /\ "wan-lan" \in rules["fwd"]
      BY <2>1, <2>2
    <2>4. linked = RouterChains
      BY NothingPending DEF FirewallInv, LinkInv
    <2>5. QED
      BY <2>3, <2>4 DEF ForwardWAN
  <1>2. QED
    BY <1>1, FirewallInvariant, PTL

\* While nothing of dnsmasq fails it serves, once all jobs are done, what its file
\* holds: every write has a restart to come, and so has every crash, which empties
\* the cache that could skip the write of main's own job.
THEOREM FileIsServed == Spec => []DnsmasqServesItsFile
  <1>1. FirewallInv => DnsmasqServesItsFile
    BY NothingPending DEF FirewallInv, ServeInv, DnsmasqServesItsFile, Rewrites, Quiet, Busy
  <1>2. QED
    BY <1>1, FirewallInvariant, PTL

-----------------------------------------------------------------------------
(* The jumps of INPUT.                                                     *)

Inside == {w \in Workers : InsideJump(w)}

LEMMA InsideIsFinite ==
    /\ IsFiniteSet(Inside) /\ Cardinality(Inside) \in Nat
    /\ IsFiniteSet(Workers) /\ Cardinality(Workers) \in Nat
    /\ Cardinality(Inside) <= Cardinality(Workers)
  <1>1. Inside \in SUBSET Workers
    BY DEF Inside
  <1>2. QED
    BY <1>1, ForwardingAssumption, FS_Subset, FS_CardinalityType

Typed == todo \in [Workers -> Seq(CommandSet)]
InsideAre == \A w \in Workers : w \in Inside <=> todo[w] # <<>> /\ todo[w][1] = InsertCmd

LEMMA InsideAtInsert == Typed => InsideAre
  <1> SUFFICES ASSUME Typed, NEW w \in Workers
               PROVE  w \in Inside <=> todo[w] # <<>> /\ todo[w][1] = InsertCmd
    BY DEF InsideAre
  <1> USE DEF Typed
  <1>1. CASE todo[w] = <<>>
    BY <1>1 DEF Inside, InsideJump, Does, Busy
  <1>2. CASE todo[w] # <<>>
    <2>1. Head(todo[w]) = todo[w][1] /\ todo[w][1] \in CommandSet
      BY <1>2, TailIsRest
    <2>2. QED
      BY <1>2, <2>1, NamesAreUnique, CommandNames DEF Inside, InsideJump, Does, Busy
  <1>3. QED
    BY <1>1, <1>2

\* No jump is there or about to be there beyond one for each goroutine.
JumpsInv == FirewallInv /\ JumpsBounded

LEMMA JumpsCommand ==
    ASSUME JumpsInv, NEW w \in Workers, Command(w)
    PROVE  JumpsBounded'
  <1> DEFINE n == Cardinality(Workers)
             m == Cardinality(Inside)
             c == todo[w][1]
  <1>1. /\ FirewallInv /\ FirewallInv' /\ StepOf(w) /\ Busy(w)
        /\ todo \in [Workers -> Seq(CommandSet)] /\ todo' \in [Workers -> Seq(CommandSet)]
        /\ jumps \in Nat /\ jumps + m <= n /\ ShapeInv
    BY FirewallCommand, CommandSteps
       DEF JumpsInv, FirewallInv, ShapeInv, TypeInv, JumpsBounded, Inside
  <1>2. /\ c \in CommandSet /\ todo[w] # <<>> /\ \A name : Does(w, name) <=> c[1] = name
    BY <1>1, Commanded
  <1>3. m \in Nat /\ n \in Nat /\ m <= n /\ IsFiniteSet(Inside)
    BY InsideIsFinite
  <1>4. m' \in Nat /\ m' <= n
    <2>1. Inside' \in SUBSET Workers
      BY DEF Inside
    <2>2. QED
      BY <2>1, ForwardingAssumption, FS_Subset, FS_CardinalityType
  <1>5. \A v \in Workers : v \in Inside <=> todo[v] # <<>> /\ todo[v][1] = InsertCmd
    BY <1>1, InsideAtInsert DEF Typed, InsideAre
  <1>6. \A v \in Workers : v \in Inside' <=> todo'[v] # <<>> /\ todo'[v][1] = InsertCmd
    <2>1. Typed'
      BY <1>1 DEF Typed
    <2>2. InsideAre'
      BY <2>1, InsideAtInsert, PTL
    <2>3. QED
      BY <2>2 DEF InsideAre
  <1>7. Inside \subseteq Workers /\ Inside' \subseteq Workers
    BY DEF Inside
  <1>8. \A v \in Workers : v # w => todo'[v] = todo[v]
    BY <1>1 DEF StepOf
  <1>9. todo'[w] # <<>> /\ todo'[w][1] = InsertCmd => c = DeleteCmd
    BY <1>1 DEF StepOf, Passes, Inner, Needs
  <1> HIDE DEF n, c
  <1>10. CASE InsertJump(w)
    <2>1. c = InsertCmd /\ c # DeleteCmd
      BY <1>2, <1>10, NamesAreUnique, PlainCommandsDiffer DEF InsertJump
    <2>2. w \in Inside /\ Inside' = Inside \ {w}
      BY <1>2, <1>5, <1>6, <1>7, <1>8, <1>9, <2>1 DEF c
    <2>3. m' = m - 1
      BY <1>3, <2>2, FS_RemoveElement
    <2>4. jumps' = jumps + 1
      BY <1>10 DEF InsertJump
    <2>5. jumps' + m' <= n
      BY <1>1, <1>3, <2>3, <2>4
    <2>6. QED
      BY <2>5 DEF JumpsBounded, Inside, n
  <1>11. CASE DeleteJump(w)
    <2>1. Inside' \subseteq Inside \cup {w}
      BY <1>5, <1>6, <1>7, <1>8
    <2>2. IsFiniteSet(Inside \cup {w}) /\ Cardinality(Inside \cup {w}) <= m + 1
          /\ Cardinality(Inside \cup {w}) \in Nat
      <3>1. /\ IsFiniteSet(Inside \cup {w})
            /\ Cardinality(Inside \cup {w}) = IF w \in Inside THEN m ELSE m + 1
        BY <1>3, FS_AddElement
      <3>2. QED
        BY <1>3, <3>1, FS_CardinalityType
    <2>3. m' <= m + 1
      <3>1. Cardinality(Inside') <= Cardinality(Inside \cup {w})
        BY <2>1, <2>2, FS_Subset
      <3>2. QED
        BY <1>3, <1>4, <2>2, <3>1
    <2>4. jumps' = IF jumps > 0 THEN jumps - 1 ELSE 0
      BY <1>11 DEF DeleteJump
    <2>5. jumps' + m' <= n
      <3>1. CASE jumps = 0
        BY <1>4, <2>4, <3>1
      <3>2. CASE jumps > 0
        BY <1>1, <1>3, <1>4, <2>3, <2>4, <3>2
      <3>3. QED
        BY <1>1, <3>1, <3>2
    <2>6. QED
      BY <2>5 DEF JumpsBounded, Inside, n
  <1>12. CASE ~DeleteJump(w) /\ ~InsertJump(w)
    <2>1. jumps' = jumps
      BY <1>12, Zenon DEF Command, RunFlush, RunAppend, Clamp, Accept, CheckZones, ReadVPNDNS, Forget,
         Compare, Write, Test, Restart, WriteFails, Serve, ServeFails, Remember, chainVars
    <2>2. \E name \in {"flush", "append", "clamp", "accept", "zones", "readVPNDNS", "forget",
                        "compare", "write", "test", "restart", "serve", "remember"} :
            Does(w, name)
      BY <1>12, Zenon DEF Command, RunFlush, RunAppend, Clamp, Accept, CheckZones, ReadVPNDNS, Forget,
         Compare, Write, Test, Restart, WriteFails, Serve, ServeFails, Remember
    <2>3. c # DeleteCmd
      BY <1>2, <2>2, CommandNames
    <2>4. Inside' \in SUBSET Inside
      BY <1>5, <1>6, <1>7, <1>8, <1>9, <2>3
    <2>5. m' <= m
      BY <1>3, <2>4, FS_Subset
    <2>6. jumps' + m' <= n
      BY <1>1, <1>3, <1>4, <2>1, <2>5
    <2>7. QED
      BY <2>6 DEF JumpsBounded, Inside, n
  <1>13. QED
    BY <1>10, <1>11, <1>12

Empty == Inside = {}

LEMMA NobodyInside == Booting => Empty
  BY BootingDoesAll, InsideAtInsert DEF AllPending, Typed, InsideAre, Busy, Inside, Empty, Inner

\* However many goroutines delete and insert the jump at once, and however often the
\* service dies between the two, INPUT holds no more jumps than there are goroutines.
THEOREM JumpsDoNotGrow == Spec => []JumpsBounded
  <1>1. Init => JumpsInv
    <2> SUFFICES ASSUME Init PROVE JumpsInv
      OBVIOUS
    <2>1. Inside = {} /\ jumps = 0
      BY NobodyInside DEF Init, Booting, Empty
    <2>2. Cardinality(Inside) = 0
      BY <2>1, FS_EmptySet
    <2>3. QED
      BY <2>1, <2>2, FirewallInit, InsideIsFinite DEF JumpsInv, JumpsBounded, Inside
  <1>2. JumpsInv /\ [Next]_vars => JumpsInv'
    <2> SUFFICES ASSUME JumpsInv, [Next]_vars PROVE JumpsInv'
      OBVIOUS
    <2>1. CASE Crash
      <3>1. FirewallInv' /\ jumps \in Nat
        BY <2>1, FirewallCrash DEF JumpsInv, FirewallInv, ShapeInv, TypeInv
      <3>2. Booting' /\ (jumps' = jumps \/ jumps' = 0)
        BY <2>1 DEF Crash, Booting
      <3>3. Empty'
        BY <3>2, NobodyInside, PTL
      <3>4. Cardinality(Inside') = 0
        BY <3>3, FS_EmptySet DEF Empty
      <3>5. jumps <= Cardinality(Workers)
        BY <3>1, InsideIsFinite DEF JumpsInv, JumpsBounded, Inside
      <3>6. jumps' + Cardinality(Inside') <= Cardinality(Workers)
        BY <3>1, <3>2, <3>4, <3>5, InsideIsFinite
      <3>7. QED
        BY <3>1, <3>6 DEF JumpsInv, JumpsBounded, Inside
    <2>2. ASSUME NEW w \in Workers, Command(w) PROVE JumpsInv'
      BY <2>2, FirewallCommand, JumpsCommand DEF JumpsInv
    <2>3. ASSUME NEW w \in Workers, NEW j \in Jobs, Start(w, j) PROVE JumpsInv'
      <3>1. FirewallInv' /\ todo' = [todo EXCEPT ![w] = Commands(j)] /\ jumps' = jumps
        BY <2>3, FirewallStart DEF JumpsInv, Start, chainVars
      <3>2. /\ todo \in [Workers -> Seq(CommandSet)] /\ todo' \in [Workers -> Seq(CommandSet)]
            /\ jumps \in Nat
        BY <3>1 DEF JumpsInv, FirewallInv, ShapeInv, TypeInv
      <3>3. todo'[w] # <<>> /\ todo'[w][1] # InsertCmd
        BY <3>1, <3>2, JobsAreShaped DEF Part, Inner
      <3>4. \A v \in Workers : v \in Inside <=> todo[v] # <<>> /\ todo[v][1] = InsertCmd
        BY <3>2, InsideAtInsert DEF Typed, InsideAre
      <3>5. \A v \in Workers : v \in Inside' <=> todo'[v] # <<>> /\ todo'[v][1] = InsertCmd
        <4>1. Typed'
          BY <3>2 DEF Typed
        <4>2. InsideAre'
          BY <4>1, InsideAtInsert, PTL
        <4>3. QED
          BY <4>2 DEF InsideAre
      <3>6. Inside' \in SUBSET Inside
        <4>1. Inside' \subseteq Workers
          BY DEF Inside
        <4>2. QED
          BY <3>1, <3>2, <3>3, <3>4, <3>5, <4>1
      <3>7. Cardinality(Inside') <= Cardinality(Inside) /\ Cardinality(Inside') \in Nat
        BY <3>6, FS_Subset, FS_CardinalityType, InsideIsFinite
      <3>8. jumps' + Cardinality(Inside') <= Cardinality(Workers)
        BY <3>1, <3>2, <3>7, InsideIsFinite DEF JumpsInv, JumpsBounded, Inside
      <3>9. QED
        BY <3>1, <3>8 DEF JumpsInv, JumpsBounded, Inside
    <2>4. CASE UNCHANGED vars
      BY <2>4, FirewallStutters DEF vars, chainVars, JumpsInv, JumpsBounded, InsideJump, Does,
                                    Busy
    <2>5. QED
      BY <2>1, <2>2, <2>3, <2>4 DEF Next
  <1>3. JumpsInv => JumpsBounded
    BY DEF JumpsInv
  <1>4. QED
    BY <1>1, <1>2, <1>3, PTL DEF Spec
=============================================================================
