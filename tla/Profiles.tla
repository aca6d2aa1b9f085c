------------------------------ MODULE Profiles ------------------------------
(***************************************************************************)
(* The VPN profiles of src/handlers/profiles.go and the requests to        *)
(* /api/profiles that change them.                                         *)
(*                                                                         *)
(* A change loads profiles.json, edits the copy and saves it; profilesMu   *)
(* covers the load and the save, not the pair.  What a profile says is     *)
(* named after the request that said it; the list is a set, because the    *)
(* order is never looked at.                                               *)
(***************************************************************************)
EXTENDS Naturals

CONSTANTS
    Requests,     \* POSTs and DELETEs; each is sent once
    Ids,          \* what newProfileID may return
    Passwords,
    MaxFailures,  \* bound: failed writes
    MaxRestarts   \* bound: restarts of the service

None == "none"

ASSUME ProfilesAssumption ==
    /\ None \notin Requests \cup Ids \cup Passwords
    /\ MaxFailures \in Nat /\ MaxRestarts \in Nat

VARIABLES
    file,       \* profiles.json ...
    torn,       \* ... unless it is truncated and does not parse
    profilesMu, \* the request that writes, or None
    pc, copy,   \* of each request: where it is, and its edited list
    asked,      \* history: of each request, what it asks for
    issued,     \* ids that newProfileID has returned
    typed,      \* history: the passwords ever sent for an id
    promised,   \* history: per id, the profile that the answered requests asked for
    stale,      \* history: requests whose copy is older than a later save
    serial,     \* history: no stale copy saved, no write failed, no restart
    failures, restarts

fileVars == <<file, torn, profilesMu>>
historyVars == <<asked, typed, promised, stale, serial>>
countVars == <<failures, restarts>>
vars == <<fileVars, pc, copy, issued, historyVars, countVars>>

Nothing == [id |-> None]
Profile == [id : Ids, by : Requests, save : BOOLEAN, pass : Passwords \cup {None}]

TypeOK ==
    /\ file \in SUBSET Profile
    /\ promised \in [Ids -> Profile \cup {Nothing}]
    /\ asked \in [Requests -> Profile \cup [id : Ids] \cup {Nothing}]
    /\ torn \in BOOLEAN /\ serial \in BOOLEAN
    /\ profilesMu \in Requests \cup {None}
    /\ pc \in [Requests -> {"idle", "save", "writing", "done"}]
    /\ copy \in [Requests -> SUBSET Profile]
    /\ issued \subseteq Ids /\ stale \subseteq Requests
    /\ typed \in [Ids -> SUBSET Passwords]
    /\ failures \in 0 .. MaxFailures /\ restarts \in 0 .. MaxRestarts

Init ==
    /\ file = {} /\ torn = FALSE /\ profilesMu = None
    /\ pc = [r \in Requests |-> "idle"]
    /\ copy = [r \in Requests |-> {}]
    /\ issued = {}
    /\ asked = [r \in Requests |-> Nothing]
    /\ typed = [i \in Ids |-> {}] /\ promised = [i \in Ids |-> Nothing]
    /\ stale = {} /\ serial = TRUE
    /\ failures = 0 /\ restarts = 0

-----------------------------------------------------------------------------
(* The pure parts.                                                         *)

LoadProfiles == IF torn THEN {} ELSE file

OfId(profiles, id) == {e \in profiles : e.id = id}

\* Mutant: the stored password is kept of whatever profile comes first.
KeepsAnyPassword(profiles, p) ==
    IF profiles = {} THEN profiles \cup {p}
    ELSE LET e == CHOOSE x \in profiles : TRUE IN
         (profiles \ OfId(profiles, p.id))
            \cup {[p EXCEPT !.pass = IF ~p.save \/ p.pass = None THEN e.pass ELSE p.pass]}

\* Mutant: a profile that is not found by its id is appended with the others of
\* its id left.
AppendsAlways(profiles, p) == profiles \cup {p}

\* The first profile of the id is replaced, and keeps the stored password when
\* none is sent or it is not to be saved; otherwise p is appended as it came.
Upsert(profiles, p) ==
    LET same == OfId(profiles, p.id)
        e == CHOOSE x \in same : TRUE
    IN IF same = {} THEN profiles \cup {p}
       ELSE (profiles \ {e})
              \cup {[p EXCEPT !.pass = IF ~p.save \/ p.pass = None THEN e.pass ELSE p.pass]}

Delete(profiles, id) == profiles \ OfId(profiles, id)

-----------------------------------------------------------------------------
(* UpsertProfile and DeleteProfile.                                        *)

Unlocked == profilesMu = None

\* r has loaded the profiles and edited its copy.
Edits(r, ask, edited) ==
    /\ Unlocked /\ pc[r] = "idle"
    /\ pc' = [pc EXCEPT ![r] = "save"]
    /\ copy' = [copy EXCEPT ![r] = edited]
    /\ asked' = [asked EXCEPT ![r] = ask]
    /\ UNCHANGED <<fileVars, promised, stale, serial, countVars>>

\* Mutant: the mask that PublicProfile shows is sent back and stored.
PostsMask(r, id, save, pass) ==
    LET p == [id |-> id, by |-> r, save |-> save, pass |-> "********"] IN
    Edits(r, p, Upsert(LoadProfiles, p)) /\ UNCHANGED typed

Posts(r, id, save, pass) ==
    LET p == [id |-> id, by |-> r, save |-> save, pass |-> pass] IN
    /\ Edits(r, p, Upsert(LoadProfiles, p))
    /\ typed' = [typed EXCEPT ![id] = @ \cup ({pass} \ {None})]

\* A profile without id gets a random one, unlike any other.
Create(r) ==
    \E id \in Ids \ issued, save \in BOOLEAN, pass \in Passwords \cup {None} :
        Posts(r, id, save, pass) /\ issued' = issued \cup {id}

\* The form sends the id of a profile that may have been deleted meanwhile.
Edit(r) ==
    \E id \in issued, save \in BOOLEAN, pass \in Passwords \cup {None} :
        Posts(r, id, save, pass) /\ UNCHANGED issued

Remove(r) ==
    \E id \in issued :
        Edits(r, [id |-> id], Delete(LoadProfiles, id)) /\ UNCHANGED <<issued, typed>>

-----------------------------------------------------------------------------
(* saveProfiles.                                                           *)

\* Mutant: the file is written without the lock.
SaveBeginsUnlocked(r) ==
    /\ pc[r] = "save" /\ pc' = [pc EXCEPT ![r] = "writing"]
    /\ profilesMu' = profilesMu
    /\ torn' = TRUE
    /\ UNCHANGED <<file, copy, issued, historyVars, countVars>>

SaveBegins(r) ==
    /\ Unlocked /\ pc[r] = "save"
    /\ pc' = [pc EXCEPT ![r] = "writing"]
    /\ profilesMu' = r
    /\ torn' = TRUE
    /\ UNCHANGED <<file, copy, issued, historyVars, countVars>>

\* What a request promises who sent it: its profile, with the password that was
\* there unless another is to be saved, or none of that id.
Promise(ask) ==
    LET old == promised[ask.id] IN
    [promised EXCEPT ![ask.id] =
        IF DOMAIN ask = {"id"} THEN Nothing
        ELSE IF old = Nothing \/ (ask.save /\ ask.pass # None) THEN ask
        ELSE [ask EXCEPT !.pass = old.pass]]

\* Requests that hold a copy are stale once another has changed the file.
SaveEnds(r) ==
    /\ pc[r] = "writing" /\ pc' = [pc EXCEPT ![r] = "done"]
    /\ profilesMu' = None
    /\ file' = copy[r] /\ torn' = FALSE
    /\ copy' = [copy EXCEPT ![r] = {}]
    /\ serial' = (serial /\ r \notin stale)
    /\ promised' = Promise(asked[r])
    /\ stale' = stale \cup {q \in Requests : pc[q] = "save"}
    /\ UNCHANGED <<asked, issued, typed, countVars>>

\* MkdirAll or WriteFile fails, the latter with the file truncated or not.
SaveFails(r) ==
    /\ failures < MaxFailures /\ failures' = failures + 1
    /\ pc' = [pc EXCEPT ![r] = "done"] /\ copy' = [copy EXCEPT ![r] = {}]
    /\ \/ Unlocked /\ pc[r] = "save" /\ UNCHANGED profilesMu
       \/ pc[r] = "writing" /\ profilesMu' = None
    /\ serial' = FALSE
    /\ UNCHANGED <<file, torn, asked, issued, typed, promised, stale, restarts>>

Crash ==
    /\ restarts < MaxRestarts /\ restarts' = restarts + 1
    /\ profilesMu' = None
    /\ pc' = [r \in Requests |-> IF pc[r] = "idle" THEN "idle" ELSE "done"]
    /\ copy' = [r \in Requests |-> {}]
    /\ serial' = FALSE
    /\ UNCHANGED <<file, torn, asked, issued, typed, promised, stale, failures>>

Save(r) == SaveBegins(r) \/ SaveEnds(r) \/ SaveFails(r)

Next ==
    \/ \E r \in Requests : Create(r) \/ Edit(r) \/ Remove(r) \/ Save(r)
    \/ Crash

Spec == Init /\ [][Next]_vars

-----------------------------------------------------------------------------
(* Properties.                                                             *)

\* GetProfile, and with it connect and reconnect, find one profile by an id,
\* also when a stale copy, or the edit of a deleted profile, is saved.
UniqueIds == \A p, q \in file : p.id = q.id => p = q

\* A password is only ever kept for the profile it was typed for: no merge with
\* an older list, failed write or restart sends it to another server.
PasswordsStayWithTheirProfile ==
    \A p \in file : p.pass = None \/ p.pass \in typed[p.id]

\* As long as nobody saves a copy that another save has overtaken, and nothing
\* fails, the file holds what the answered requests asked for: the list with its
\* load, loop and save is the map that the users think of.
SerialChangesAreKept ==
    serial /\ Unlocked =>
        ~torn /\ file = {promised[i] : i \in {j \in Ids : promised[j] # Nothing}}
=============================================================================
