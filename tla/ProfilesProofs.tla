--------------------------- MODULE ProfilesProofs ---------------------------
(***************************************************************************)
(* Proofs about Profiles, for any requests, ids and passwords.             *)
(***************************************************************************)
EXTENDS Profiles, TLAPS

\* What Posts hands to Upsert.
Posted(r, id, save, pass) == [id |-> id, by |-> r, save |-> save, pass |-> pass]

Unique(profiles) == \A p, q \in profiles : p.id = q.id => p = q
Owned(profiles) == \A p \in profiles : p.pass = None \/ p.pass \in typed[p.id]

LEMMA UpsertTypes ==
    ASSUME NEW S \in SUBSET Profile, NEW p \in Profile
    PROVE  Upsert(S, p) \in SUBSET Profile
  <1> DEFINE e == CHOOSE x \in OfId(S, p.id) : TRUE
             q == [p EXCEPT !.pass = IF ~p.save \/ p.pass = None THEN e.pass ELSE p.pass]
  <1>1. CASE OfId(S, p.id) = {}
    BY <1>1 DEF Upsert
  <1>2. CASE OfId(S, p.id) # {}
    <2>1. e \in S
      BY <1>2 DEF OfId
    <2>2. q \in Profile
      BY <2>1 DEF Profile
    <2>3. Upsert(S, p) = (S \ {e}) \cup {q}
      BY <1>2 DEF Upsert
    <2>4. QED
      BY <2>2, <2>3
  <1>3. QED
    BY <1>1, <1>2

\* Upsert leaves one profile of an id where there was one at most: the one it
\* replaces has the id of the one that replaces it.
LEMMA UpsertUnique ==
    ASSUME NEW S \in SUBSET Profile, NEW p \in Profile, Unique(S)
    PROVE  Unique(Upsert(S, p))
  <1> DEFINE e == CHOOSE x \in OfId(S, p.id) : TRUE
             q == [p EXCEPT !.pass = IF ~p.save \/ p.pass = None THEN e.pass ELSE p.pass]
  <1>1. CASE OfId(S, p.id) = {}
    BY <1>1 DEF Upsert, OfId, Unique
  <1>2. CASE OfId(S, p.id) # {}
    <2>1. e \in S /\ e.id = p.id
      BY <1>2 DEF OfId
    <2>2. q.id = p.id
      BY DEF Profile
    <2>3. Upsert(S, p) = (S \ {e}) \cup {q}
      BY <1>2 DEF Upsert
    <2>4. \A x \in S \ {e} : x.id # p.id
      BY <2>1 DEF Unique
    <2>5. QED
      BY <2>2, <2>3, <2>4 DEF Unique
  <1>3. QED
    BY <1>1, <1>2

-----------------------------------------------------------------------------
LEMMA NoCopies ==
    /\ [r \in Requests |-> {}] \in [Requests -> SUBSET Profile]
    /\ [i \in Ids |-> {}] \in [Ids -> SUBSET Passwords]
  BY Zenon

LEMMA LoadedTypes == TypeOK => LoadProfiles \in SUBSET Profile
  BY DEF TypeOK, LoadProfiles

LEMMA EditsTypes ==
    ASSUME TypeOK, NEW r \in Requests, NEW ask \in Profile \cup [id : Ids],
           NEW S \in SUBSET Profile, Edits(r, ask, S),
           issued' \subseteq Ids, typed' \in [Ids -> SUBSET Passwords]
    PROVE  TypeOK'
  BY DEF TypeOK, Edits, fileVars, countVars

LEMMA PostsTypes ==
    ASSUME TypeOK, NEW r \in Requests, NEW id \in Ids, NEW save \in BOOLEAN,
           NEW pass \in Passwords \cup {None}, Posts(r, id, save, pass),
           issued' \subseteq Ids
    PROVE  TypeOK'
  <1> DEFINE p == Posted(r, id, save, pass)
  <1>1. p \in Profile
    BY DEF Posted, Profile
  <1>2. Edits(r, p, Upsert(LoadProfiles, p))
    BY DEF Posts, Posted
  <1>3. typed' \in [Ids -> SUBSET Passwords]
    BY DEF Posts, TypeOK
  <1> HIDE DEF p
  <1>4. QED
    BY <1>1, <1>2, <1>3, LoadedTypes, UpsertTypes, EditsTypes

LEMMA PromiseTypes ==
    ASSUME TypeOK, NEW ask \in Profile \cup [id : Ids]
    PROVE  Promise(ask) \in [Ids -> Profile \cup {Nothing}]
  <1> DEFINE old == promised[ask.id]
             new == IF DOMAIN ask = {"id"} THEN Nothing
                    ELSE IF old = Nothing \/ (ask.save /\ ask.pass # None) THEN ask
                    ELSE [ask EXCEPT !.pass = old.pass]
  <1>1. ask.id \in Ids
    BY DEF Profile
  <1>2. old \in Profile \cup {Nothing}
    BY <1>1 DEF TypeOK
  <1>3. CASE ask \in [id : Ids]
    <2>1. DOMAIN ask = {"id"}
      BY <1>3
    <2>2. QED
      BY <2>1 DEF Promise, TypeOK
  <1>4. CASE ask \in Profile
    <2>1. DOMAIN ask # {"id"}
      BY <1>4 DEF Profile
    <2>2. new \in Profile
      BY <1>2, <1>4, <2>1 DEF Profile
    <2>3. QED
      BY <2>2 DEF Promise, TypeOK
  <1>5. QED
    BY <1>3, <1>4

\* A request that has a copy has asked for something.
AskedInv == \A r \in Requests : pc[r] \in {"save", "writing"} => asked[r] # Nothing

LEMMA SaveTypes ==
    ASSUME TypeOK, AskedInv, NEW r \in Requests, Save(r) PROVE TypeOK'
  <1> USE DEF TypeOK, countVars, historyVars
  <1>1. CASE SaveBegins(r)
    BY <1>1 DEF SaveBegins
  <1>2. CASE SaveEnds(r)
    <2>1. asked[r] \in Profile \cup [id : Ids]
      BY <1>2 DEF SaveEnds, AskedInv
    <2>2. promised' \in [Ids -> Profile \cup {Nothing}]
      BY <1>2, <2>1, PromiseTypes DEF SaveEnds
    <2>3. QED
      BY <1>2, <2>2 DEF SaveEnds
  <1>3. CASE SaveFails(r)
    <2>1. copy' \in [Requests -> SUBSET Profile]
      <3>1. {} \in SUBSET Profile
        OBVIOUS
      <3>2. copy' = [copy EXCEPT ![r] = {}]
        BY <1>3 DEF SaveFails
      <3>3. QED
        BY <3>1, <3>2
    <2>2. failures' \in 0 .. MaxFailures
      BY <1>3, ProfilesAssumption DEF SaveFails
    <2>3. profilesMu' \in Requests \cup {None}
      BY <1>3 DEF SaveFails
    <2>4. QED
      BY <1>3, <2>1, <2>2, <2>3 DEF SaveFails
  <1>4. QED
    BY <1>1, <1>2, <1>3 DEF Save

LEMMA AskedStep == TypeOK /\ AskedInv /\ [Next]_vars => AskedInv'
  <1> SUFFICES ASSUME TypeOK, AskedInv, [Next]_vars PROVE AskedInv'
    OBVIOUS
  <1>1. Nothing \notin Profile
    BY DEF Nothing, Profile
  <1>2. Nothing \notin [id : Ids]
    BY ProfilesAssumption DEF Nothing
  <1>3. ASSUME NEW r \in Requests, NEW ask \in Profile \cup [id : Ids], NEW S, Edits(r, ask, S)
        PROVE  AskedInv'
    BY <1>1, <1>2, <1>3 DEF AskedInv, TypeOK, Edits
  <1>4. ASSUME NEW r \in Requests, Create(r) \/ Edit(r) PROVE AskedInv'
    <2>1. PICK id \in Ids, save \in BOOLEAN, pass \in Passwords \cup {None} :
             Posts(r, id, save, pass)
      BY <1>4 DEF Create, Edit, TypeOK
    <2>2. Posted(r, id, save, pass) \in Profile
      BY DEF Posted, Profile
    <2>3. QED
      BY <1>3, <2>1, <2>2 DEF Posts, Posted
  <1>5. ASSUME NEW r \in Requests, Remove(r) PROVE AskedInv'
    <2>1. PICK id \in Ids : Edits(r, [id |-> id], Delete(LoadProfiles, id))
      BY <1>5 DEF Remove, TypeOK
    <2>2. QED
      BY <1>3, <2>1
  <1>6. ASSUME NEW r \in Requests, Save(r) PROVE AskedInv'
    BY <1>6 DEF AskedInv, TypeOK, Save, SaveBegins, SaveEnds, SaveFails, historyVars
  <1>7. CASE Crash
    BY <1>7 DEF AskedInv, TypeOK, Crash
  <1>8. CASE UNCHANGED vars
    BY <1>8 DEF AskedInv, vars, historyVars
  <1>9. QED
    BY <1>4, <1>5, <1>6, <1>7, <1>8 DEF Next

LEMMA TypeStep == TypeOK /\ AskedInv /\ [Next]_vars => TypeOK'
  <1> SUFFICES ASSUME TypeOK, AskedInv, [Next]_vars PROVE TypeOK'
    OBVIOUS
  <1>1. ASSUME NEW r \in Requests, Create(r) PROVE TypeOK'
    BY <1>1, PostsTypes DEF Create, TypeOK
  <1>2. ASSUME NEW r \in Requests, Edit(r) PROVE TypeOK'
    BY <1>2, PostsTypes DEF Edit, TypeOK
  <1>3. ASSUME NEW r \in Requests, Remove(r) PROVE TypeOK'
    <2>1. PICK id \in Ids : Edits(r, [id |-> id], Delete(LoadProfiles, id))
      BY <1>3 DEF Remove, TypeOK
    <2>2. Delete(LoadProfiles, id) \in SUBSET Profile
      BY LoadedTypes DEF Delete
    <2>3. issued' \subseteq Ids /\ typed' \in [Ids -> SUBSET Passwords]
      BY <1>3 DEF Remove, TypeOK
    <2>4. QED
      BY <2>1, <2>2, <2>3, EditsTypes
  <1>4. CASE Crash
    <2>1. copy' \in [Requests -> SUBSET Profile]
      BY <1>4, NoCopies DEF Crash
    <2>2. pc' \in [Requests -> {"idle", "save", "writing", "done"}]
      BY <1>4 DEF Crash
    <2>3. restarts' \in 0 .. MaxRestarts
      BY <1>4, ProfilesAssumption DEF Crash, TypeOK
    <2>4. QED
      BY <1>4, <2>1, <2>2, <2>3 DEF Crash, TypeOK
  <1>5. CASE UNCHANGED vars
    BY <1>5 DEF vars, fileVars, countVars, historyVars, TypeOK
  <1>6. QED
    BY <1>1, <1>2, <1>3, <1>4, <1>5, SaveTypes DEF Next

LEMMA AskedHolds == Spec => [](TypeOK /\ AskedInv)
  <1>1. Init => TypeOK /\ AskedInv
    <2> SUFFICES ASSUME Init PROVE TypeOK /\ AskedInv
      OBVIOUS
    <2>1. copy \in [Requests -> SUBSET Profile] /\ typed \in [Ids -> SUBSET Passwords]
      BY NoCopies DEF Init
    <2>2. /\ promised \in [Ids -> Profile \cup {Nothing}]
          /\ asked \in [Requests -> Profile \cup [id : Ids] \cup {Nothing}]
      BY DEF Init
    <2>3. pc \in [Requests -> {"idle", "save", "writing", "done"}] /\ AskedInv
      BY DEF Init, AskedInv
    <2>4. failures \in 0 .. MaxFailures /\ restarts \in 0 .. MaxRestarts
      BY ProfilesAssumption DEF Init
    <2>5. QED
      BY <2>1, <2>2, <2>3, <2>4 DEF Init, TypeOK
  <1>2. QED
    BY <1>1, TypeStep, AskedStep, PTL DEF Spec

\* The file, every copy and what was promised are made of profiles.
THEOREM TypeCorrect == Spec => []TypeOK
  BY AskedHolds, PTL

-----------------------------------------------------------------------------
\* What holds of every list, of the file's and of the copies: ids are unique and
\* passwords were typed for the profile they are kept with.
ListInv ==
    /\ Unique(file) /\ Owned(file)
    /\ \A r \in Requests : Unique(copy[r]) /\ Owned(copy[r])

\* Upsert keeps a password of the same id or takes the one that came with p.
LEMMA UpsertOwned ==
    ASSUME NEW S \in SUBSET Profile, NEW p \in Profile, NEW log,
           \A x \in S : x.pass = None \/ x.pass \in log[x.id],
           p.pass = None \/ p.pass \in log[p.id]
    PROVE  \A x \in Upsert(S, p) : x.pass = None \/ x.pass \in log[x.id]
  <1> DEFINE e == CHOOSE x \in OfId(S, p.id) : TRUE
             q == [p EXCEPT !.pass = IF ~p.save \/ p.pass = None THEN e.pass ELSE p.pass]
  <1>1. CASE OfId(S, p.id) = {}
    BY <1>1 DEF Upsert
  <1>2. CASE OfId(S, p.id) # {}
    <2>1. e \in S /\ e.id = p.id
      BY <1>2 DEF OfId
    <2>2. q.id = p.id /\ q.pass \in {e.pass, p.pass}
      BY DEF Profile
    <2>3. Upsert(S, p) = (S \ {e}) \cup {q}
      BY <1>2 DEF Upsert
    <2>4. q.pass = None \/ q.pass \in log[q.id]
      BY <2>1, <2>2
    <2> HIDE DEF e, q
    <2>5. QED
      BY <2>3, <2>4
  <1>3. QED
    BY <1>1, <1>2

LEMMA LoadedInv ==
    ASSUME TypeOK, ListInv
    PROVE  LoadProfiles \in SUBSET Profile /\ Unique(LoadProfiles) /\ Owned(LoadProfiles)
  BY DEF TypeOK, ListInv, LoadProfiles, Unique, Owned

\* A request that edits its copy leaves the other lists alone, and passwords
\* that were typed stay typed.
LEMMA EditsKeeps ==
    ASSUME TypeOK, ListInv, NEW r \in Requests, NEW ask, NEW S \in SUBSET Profile,
           Unique(S), \A x \in S : x.pass = None \/ x.pass \in typed'[x.id],
           Edits(r, ask, S), \A i \in Ids : typed[i] \subseteq typed'[i]
    PROVE  ListInv'
  <1>1. file' = file /\ copy' = [copy EXCEPT ![r] = S]
    BY DEF Edits, fileVars
  <1>2. ASSUME NEW T \in SUBSET Profile, Owned(T)
        PROVE  \A x \in T : x.pass = None \/ x.pass \in typed'[x.id]
    BY <1>2 DEF Owned, Profile
  <1>3. Unique(file') /\ Owned(file)'
    BY <1>1, <1>2 DEF ListInv, TypeOK, Owned, Unique
  <1>4. ASSUME NEW q \in Requests PROVE Unique(copy'[q]) /\ Owned(copy[q])'
    <2>1. CASE q = r
      BY <1>1, <2>1 DEF TypeOK, Owned
    <2>2. CASE q # r
      BY <1>1, <1>2, <2>2 DEF ListInv, TypeOK, Owned
    <2>3. QED
      BY <2>1, <2>2
  <1>5. QED
    BY <1>3, <1>4 DEF ListInv, Unique

LEMMA PostsKeeps ==
    ASSUME TypeOK, ListInv, NEW r \in Requests, NEW id \in Ids, NEW save \in BOOLEAN,
           NEW pass \in Passwords \cup {None}, Posts(r, id, save, pass)
    PROVE  ListInv'
  <1> DEFINE p == Posted(r, id, save, pass)
  <1>1. p \in Profile /\ p.id = id /\ p.pass = pass
    BY DEF Posted, Profile
  <1>2. Edits(r, p, Upsert(LoadProfiles, p))
    BY DEF Posts, Posted
  <1>3. /\ typed' \in [Ids -> SUBSET Passwords]
        /\ \A i \in Ids : typed[i] \subseteq typed'[i]
        /\ pass = None \/ pass \in typed'[id]
    BY DEF Posts, TypeOK
  <1> HIDE DEF p
  <1>4. \A x \in Upsert(LoadProfiles, p) : x.pass = None \/ x.pass \in typed'[x.id]
    <2>1. \A x \in LoadProfiles : x.pass = None \/ x.pass \in typed'[x.id]
      BY <1>3, LoadedInv DEF Owned, Profile
    <2>2. QED
      BY <1>1, <1>3, <2>1, LoadedInv, UpsertOwned
  <1>5. QED
    BY <1>1, <1>2, <1>3, <1>4, LoadedInv, UpsertTypes, UpsertUnique, EditsKeeps

LEMMA ListStep == TypeOK /\ ListInv /\ [Next]_vars => ListInv'
  <1> SUFFICES ASSUME TypeOK, ListInv, [Next]_vars PROVE ListInv'
    OBVIOUS
  <1>1. ASSUME NEW r \in Requests, Create(r) \/ Edit(r) PROVE ListInv'
    BY <1>1, PostsKeeps DEF Create, Edit, TypeOK
  <1>2. ASSUME NEW r \in Requests, Remove(r) PROVE ListInv'
    <2>1. PICK id \in issued : Edits(r, [id |-> id], Delete(LoadProfiles, id))
      BY <1>2 DEF Remove
    <2>2. typed' = typed
      BY <1>2 DEF Remove
    <2>3. /\ Delete(LoadProfiles, id) \in SUBSET Profile
          /\ Unique(Delete(LoadProfiles, id)) /\ Owned(Delete(LoadProfiles, id))
      BY LoadedInv DEF Delete, Unique, Owned
    <2>4. QED
      BY <2>1, <2>2, <2>3, EditsKeeps DEF Owned
  <1>3. ASSUME NEW r \in Requests, Save(r) PROVE ListInv'
    <2> USE DEF TypeOK, ListInv, Unique, Owned, historyVars
    <2>1. CASE SaveBegins(r)
      BY <2>1 DEF SaveBegins
    <2>2. CASE SaveEnds(r)
      BY <2>2 DEF SaveEnds
    <2>3. CASE SaveFails(r)
      BY <2>3 DEF SaveFails
    <2>4. QED
      BY <1>3, <2>1, <2>2, <2>3 DEF Save
  <1>4. CASE Crash
    BY <1>4 DEF Crash, ListInv, Unique, Owned, TypeOK
  <1>5. CASE UNCHANGED vars
    BY <1>5 DEF vars, fileVars, historyVars, ListInv, Unique, Owned
  <1>6. QED
    BY <1>1, <1>2, <1>3, <1>4, <1>5 DEF Next

LEMMA ListHolds == Spec => []ListInv
  <1>1. Init => ListInv
    BY DEF Init, ListInv, Unique, Owned
  <1>2. QED
    BY <1>1, ListStep, TypeCorrect, PTL DEF Spec

\* No stale copy, failed write or restart leaves two profiles with one id.
THEOREM IdsAreUnique == Spec => []UniqueIds
  <1>1. ListInv => UniqueIds
    BY DEF ListInv, Unique, UniqueIds
  <1>2. QED
    BY <1>1, ListHolds, PTL

\* No stale copy, failed write or restart moves a password to another profile.
THEOREM PasswordsStay == Spec => []PasswordsStayWithTheirProfile
  <1>1. ListInv => PasswordsStayWithTheirProfile
    BY DEF ListInv, Owned, PasswordsStayWithTheirProfile
  <1>2. QED
    BY <1>1, ListHolds, PTL

-----------------------------------------------------------------------------
(* The list as a map from ids to profiles.                                 *)

MapList(map) == {map[i] : i \in {j \in Ids : map[j] # Nothing}}
Map == [Ids -> Profile \cup {Nothing}]

\* What Posts or Remove make of the profiles they load.
Apply(ask, profiles) ==
    IF DOMAIN ask = {"id"} THEN Delete(profiles, ask.id) ELSE Upsert(profiles, ask)

ById(map) == \A i \in Ids : map[i] # Nothing => map[i].id = i

LEMMA AsksDiffer ==
    /\ Nothing \notin Profile /\ Nothing \notin [id : Ids]
    /\ \A p \in Profile : DOMAIN p # {"id"}
    /\ \A p \in [id : Ids] : DOMAIN p = {"id"}
  BY ProfilesAssumption DEF Nothing, Profile

\* Of an id the list of a map holds what the map has there, if anything.
LEMMA OfIdInMap ==
    ASSUME NEW map \in Map, ById(map), NEW id \in Ids
    PROVE  /\ map[id] = Nothing => OfId(MapList(map), id) = {}
           /\ map[id] # Nothing => OfId(MapList(map), id) = {map[id]}
  BY DEF OfId, MapList, ById, Map

\* Changing one id of the map replaces its profile in the list.
LEMMA MapChanges ==
    ASSUME NEW map \in Map, ById(map), NEW id \in Ids, NEW new \in Profile \cup {Nothing}
    PROVE  MapList([map EXCEPT ![id] = new]) =
             (MapList(map) \ {map[id]}) \cup (IF new = Nothing THEN {} ELSE {new})
  <1> DEFINE next == [map EXCEPT ![id] = new]
  <1>1. next[id] = new /\ \A i \in Ids : i # id => next[i] = map[i]
    BY DEF Map
  <1> HIDE DEF next
  <1>2. \A i \in Ids : i # id /\ map[i] # Nothing => map[i] # map[id]
    <2> SUFFICES ASSUME NEW i \in Ids, i # id, map[i] # Nothing, map[i] = map[id] PROVE FALSE
      OBVIOUS
    <2>1. map[i].id = i /\ map[id].id = id
      BY DEF ById
    <2>2. QED
      BY <2>1
  <1>3. ASSUME NEW x PROVE
          x \in MapList(next) <=>
            x \in (MapList(map) \ {map[id]}) \cup (IF new = Nothing THEN {} ELSE {new})
    <2>1. x \in MapList(next) <=> \E i \in Ids : next[i] # Nothing /\ next[i] = x
      BY DEF MapList
    <2>2. x \in MapList(map) <=> \E i \in Ids : map[i] # Nothing /\ map[i] = x
      BY DEF MapList
    <2>3. ASSUME x \in MapList(next)
          PROVE  x \in (MapList(map) \ {map[id]}) \cup (IF new = Nothing THEN {} ELSE {new})
      <3>1. PICK i \in Ids : next[i] # Nothing /\ next[i] = x
        BY <2>1, <2>3
      <3>2. CASE i = id
        BY <1>1, <3>1, <3>2
      <3>3. CASE i # id
        <4>1. map[i] = x /\ map[i] # Nothing /\ map[i] # map[id]
          BY <1>1, <1>2, <3>1, <3>3
        <4>2. QED
          BY <2>2, <4>1
      <3>4. QED
        BY <3>2, <3>3
    <2>4. ASSUME x \in MapList(map), x # map[id] PROVE x \in MapList(next)
      BY <1>1, <2>1, <2>2, <2>4
    <2>5. ASSUME new # Nothing, x = new PROVE x \in MapList(next)
      BY <1>1, <2>1, <2>5
    <2>6. QED
      BY <2>3, <2>4, <2>5
  <1>4. QED
    BY <1>3 DEF next

\* A request does to the list what it promises about the map.
LEMMA ListIsMap ==
    ASSUME promised \in Map, ById(promised), NEW ask \in Profile \cup [id : Ids]
    PROVE  /\ Apply(ask, MapList(promised)) = MapList(Promise(ask))
           /\ ById(Promise(ask)) /\ Promise(ask) \in Map
  <1> DEFINE id == ask.id
             old == promised[id]
             M == MapList(promised)
  <1>1. id \in Ids /\ old \in Profile \cup {Nothing}
    BY DEF Profile, Map
  <1>2. /\ old = Nothing => OfId(M, id) = {}
        /\ old # Nothing => OfId(M, id) = {old}
    BY <1>1, OfIdInMap
  <1>3. Nothing \notin M
    BY DEF MapList
  <1>4. ASSUME NEW new \in Profile \cup {Nothing}, Promise(ask) = [promised EXCEPT ![id] = new],
               new # Nothing => new.id = id,
               Apply(ask, M) = (M \ {old}) \cup (IF new = Nothing THEN {} ELSE {new})
        PROVE  /\ Apply(ask, M) = MapList(Promise(ask))
               /\ ById(Promise(ask)) /\ Promise(ask) \in Map
    <2>1. Apply(ask, M) = MapList(Promise(ask))
      <3> HIDE DEF id
      <3>1. MapList([promised EXCEPT ![id] = new]) =
              (M \ {old}) \cup (IF new = Nothing THEN {} ELSE {new})
        BY <1>1, MapChanges
      <3> HIDE DEF M, old
      <3>2. QED
        BY <1>4, <3>1 DEF id
    <2>2. ById(Promise(ask)) /\ Promise(ask) \in Map
      BY <1>1, <1>4 DEF ById, Map
    <2>3. QED
      BY <2>1, <2>2
  <1>5. CASE ask \in [id : Ids]
    <2>1. DOMAIN ask = {"id"}
      BY <1>5, AsksDiffer
    <2>2. Promise(ask) = [promised EXCEPT ![id] = Nothing]
      BY <2>1 DEF Promise
    <2>3. Apply(ask, M) = M \ OfId(M, id)
      BY <2>1 DEF Apply, Delete
    <2>4. Apply(ask, M) = M \ {old}
      BY <1>2, <1>3, <2>3
    <2> HIDE DEF M, old, id
    <2>5. QED
      BY <1>4, <2>2, <2>4 DEF M, old, id
  <1>6. CASE ask \in Profile
    <2> DEFINE kept == IF ~ask.save \/ ask.pass = None THEN old.pass ELSE ask.pass
    <2>1. DOMAIN ask # {"id"} /\ ask # Nothing
      BY <1>6, AsksDiffer
    <2>2. Apply(ask, M) = Upsert(M, ask)
      BY <2>1 DEF Apply
    <2>3. CASE old = Nothing
      <3>1. Promise(ask) = [promised EXCEPT ![id] = ask]
        BY <2>1, <2>3 DEF Promise
      <3>2. Apply(ask, M) = M \cup {ask}
        BY <1>2, <2>2, <2>3 DEF Upsert
      <3>3. Apply(ask, M) = (M \ {old}) \cup {ask}
        BY <1>3, <2>3, <3>2
      <3> HIDE DEF M, old, id
      <3>4. QED
        BY <1>4, <1>6, <2>1, <3>1, <3>3 DEF M, old, id
    <2>4. CASE old # Nothing
      <3> DEFINE new == [ask EXCEPT !.pass = kept]
      <3>1. old \in Profile
        BY <1>1, <2>4
      <3>2. new \in Profile /\ new.id = id /\ new # Nothing
        BY <1>6, <3>1, AsksDiffer DEF Profile
      <3>3. ask.save /\ ask.pass # None => new = ask
        BY <1>6 DEF Profile
      <3>4. Promise(ask) = [promised EXCEPT ![id] = new]
        <4>1. CASE ask.save /\ ask.pass # None
          BY <2>1, <3>3, <4>1 DEF Promise
        <4>2. CASE ~(ask.save /\ ask.pass # None)
          BY <2>1, <2>4, <4>2 DEF Promise
        <4>3. QED
          BY <4>1, <4>2
      <3>5. Apply(ask, M) = (M \ {old}) \cup {new}
        <4>1. (CHOOSE x \in {old} : TRUE) = old
          OBVIOUS
        <4>2. OfId(M, ask.id) = {old}
          BY <1>2, <2>4
        <4>3. QED
          BY <2>2, <4>1, <4>2 DEF Upsert
      <3> HIDE DEF M, old, id, new
      <3>6. QED
        BY <1>4, <3>2, <3>4, <3>5 DEF M, old, id
    <2>5. QED
      BY <2>3, <2>4
  <1>7. QED
    BY <1>5, <1>6

\* Who writes has the lock, and the file is torn only meanwhile or after what ends
\* the serial history.
LockInv ==
    /\ \A r \in Requests : pc[r] = "writing" <=> profilesMu = r
    /\ serial /\ torn => ~Unlocked

\* While the history is serial the file is the map's list, and a copy that is not
\* stale is what its request makes of that list.
SerialInv ==
    serial =>
        /\ file = MapList(promised)
        /\ \A r \in Requests :
             pc[r] \in {"save", "writing"} /\ r \notin stale => copy[r] = Apply(asked[r], file)

MapInv == ById(promised) /\ LockInv /\ SerialInv

LEMMA EditsKeepMap ==
    ASSUME TypeOK, MapInv, NEW r \in Requests, NEW ask \in Profile \cup [id : Ids],
           Edits(r, ask, Apply(ask, LoadProfiles))
    PROVE  MapInv'
  <1>1. /\ Unlocked /\ UNCHANGED <<file, torn, profilesMu, promised, stale, serial>>
        /\ pc' = [pc EXCEPT ![r] = "save"] /\ pc[r] = "idle"
        /\ asked' = [asked EXCEPT ![r] = ask]
        /\ copy' = [copy EXCEPT ![r] = Apply(ask, LoadProfiles)]
    BY DEF Edits, fileVars
  <1>2. serial => LoadProfiles = file
    BY <1>1 DEF MapInv, LockInv, LoadProfiles
  <1>3. LockInv'
    BY <1>1 DEF MapInv, LockInv, TypeOK, Unlocked
  <1>4. ASSUME serial, NEW q \in Requests, pc'[q] \in {"save", "writing"}, q \notin stale
        PROVE  copy'[q] = Apply(asked'[q], file)
    <2>1. CASE q = r
      BY <1>1, <1>2, <1>4, <2>1 DEF TypeOK
    <2>2. CASE q # r
      BY <1>1, <1>4, <2>2 DEF TypeOK, MapInv, SerialInv
    <2>3. QED
      BY <2>1, <2>2
  <1>5. SerialInv'
    BY <1>1, <1>4 DEF MapInv, SerialInv
  <1>6. QED
    BY <1>1, <1>3, <1>5 DEF MapInv

LEMMA PostsApply ==
    ASSUME NEW r \in Requests, NEW id \in Ids, NEW save \in BOOLEAN,
           NEW pass \in Passwords \cup {None}, Posts(r, id, save, pass)
    PROVE  \E ask \in Profile \cup [id : Ids] : Edits(r, ask, Apply(ask, LoadProfiles))
  <1> DEFINE p == Posted(r, id, save, pass)
  <1>1. p \in Profile
    BY DEF Posted, Profile
  <1>2. Edits(r, p, Upsert(LoadProfiles, p))
    BY DEF Posts, Posted
  <1>3. DOMAIN p # {"id"}
    BY <1>1, AsksDiffer
  <1> HIDE DEF p
  <1>4. QED
    BY <1>1, <1>2, <1>3 DEF Apply

LEMMA SaveEndsKeepsMap ==
    ASSUME TypeOK, AskedInv, MapInv, NEW r \in Requests, SaveEnds(r)
    PROVE  MapInv'
  <1>1. /\ pc[r] = "writing" /\ pc' = [pc EXCEPT ![r] = "done"] /\ profilesMu' = None
        /\ file' = copy[r] /\ torn' = FALSE /\ copy' = [copy EXCEPT ![r] = {}]
        /\ serial' => serial /\ r \notin stale
        /\ promised' = Promise(asked[r]) /\ asked' = asked
        /\ stale' = stale \cup {q \in Requests : pc[q] = "save"}
    BY DEF SaveEnds
  <1>2. asked[r] \in Profile \cup [id : Ids]
    BY <1>1 DEF TypeOK, AskedInv
  <1>3. promised \in Map /\ ById(promised)
    BY DEF TypeOK, Map, MapInv
  <1>4. Apply(asked[r], MapList(promised)) = MapList(promised') /\ ById(promised')
    BY <1>1, <1>2, <1>3, ListIsMap
  <1>5. serial' => file' = MapList(promised')
    BY <1>1, <1>4 DEF MapInv, SerialInv
  <1>6. \A q \in Requests : q # r => pc[q] # "writing"
    BY <1>1 DEF MapInv, LockInv
  <1>7. \A q \in Requests : pc'[q] \in {"save", "writing"} => q \in stale'
    BY <1>1, <1>6 DEF TypeOK
  <1>8. LockInv'
    BY <1>1, <1>6, ProfilesAssumption DEF LockInv, TypeOK, Unlocked
  <1>9. SerialInv'
    BY <1>5, <1>7 DEF SerialInv
  <1>10. QED
    BY <1>4, <1>8, <1>9 DEF MapInv, ById

LEMMA MapStep == TypeOK /\ AskedInv /\ MapInv /\ [Next]_vars => MapInv'
  <1> SUFFICES ASSUME TypeOK, AskedInv, MapInv, [Next]_vars PROVE MapInv'
    OBVIOUS
  <1>1. ASSUME NEW r \in Requests, Create(r) \/ Edit(r) PROVE MapInv'
    <2>1. PICK id \in Ids, save \in BOOLEAN, pass \in Passwords \cup {None} :
             Posts(r, id, save, pass)
      BY <1>1 DEF Create, Edit, TypeOK
    <2>2. QED
      BY <2>1, PostsApply, EditsKeepMap
  <1>2. ASSUME NEW r \in Requests, Remove(r) PROVE MapInv'
    <2>1. PICK id \in Ids : Edits(r, [id |-> id], Delete(LoadProfiles, id))
      BY <1>2 DEF Remove, TypeOK
    <2>2. [id |-> id] \in [id : Ids] /\ [id |-> id].id = id /\ DOMAIN [id |-> id] = {"id"}
      OBVIOUS
    <2>3. Apply([id |-> id], LoadProfiles) = Delete(LoadProfiles, id)
      BY <2>2 DEF Apply
    <2>4. QED
      BY <2>1, <2>2, <2>3, EditsKeepMap
  <1>3. ASSUME NEW r \in Requests, SaveBegins(r) PROVE MapInv'
    <2>1. /\ pc' = [pc EXCEPT ![r] = "writing"] /\ profilesMu' = r /\ pc[r] = "save" /\ Unlocked
          /\ UNCHANGED <<file, copy, asked, promised, stale, serial>>
      BY <1>3 DEF SaveBegins, historyVars
    <2>2. LockInv'
      BY <2>1, ProfilesAssumption DEF MapInv, LockInv, TypeOK, Unlocked
    <2>3. SerialInv'
      BY <2>1 DEF MapInv, SerialInv, TypeOK
    <2>4. QED
      BY <2>1, <2>2, <2>3 DEF MapInv, ById
  <1>4. ASSUME NEW r \in Requests, SaveFails(r) PROVE MapInv'
    <2>1. LockInv'
      BY <1>4, ProfilesAssumption DEF SaveFails, MapInv, LockInv, TypeOK, Unlocked
    <2>2. QED
      BY <1>4, <2>1 DEF SaveFails, MapInv, SerialInv, ById
  <1>5. CASE Crash
    <2>1. LockInv'
      BY <1>5, ProfilesAssumption DEF Crash, LockInv, TypeOK, Unlocked
    <2>2. QED
      BY <1>5, <2>1 DEF Crash, MapInv, SerialInv, ById
  <1>6. CASE UNCHANGED vars
    BY <1>6 DEF vars, fileVars, historyVars, MapInv, LockInv, SerialInv, ById, Unlocked
  <1>7. QED
    BY <1>1, <1>2, <1>3, <1>4, <1>5, <1>6, SaveEndsKeepsMap DEF Next, Save

\* As long as no stale copy is saved and nothing fails, the file is the map that the
\* answered requests made, however their loads and saves interleave.
THEOREM SerialChangesStay == Spec => []SerialChangesAreKept
  <1>1. Init => MapInv
    BY ProfilesAssumption
       DEF Init, MapInv, LockInv, SerialInv, ById, MapList, Unlocked
  <1>2. TypeOK /\ MapInv => SerialChangesAreKept
    BY DEF TypeOK, MapInv, LockInv, SerialInv, MapList, SerialChangesAreKept
  <1>3. QED
    BY <1>1, <1>2, MapStep, AskedHolds, PTL DEF Spec
=============================================================================
