---------------------------- MODULE VPNLifecycle ----------------------------
(***************************************************************************)
(* What the session manager promises whoever reads the VPN state: attempts *)
(* run one at a time and end for good; each connects at most once; and the *)
(* state shows an attempt, as under way or as connected, only if it is the *)
(* one that was current when the state was written.                        *)
(***************************************************************************)
EXTENDS Naturals

CONSTANT Attempts, Nobody

VARIABLES current, stage, shown

vars == <<current, stage, shown>>

Stages == {"fresh", "attempting", "up", "over"}

Init ==
    /\ current = Nobody
    /\ stage = [a \in Attempts |-> "fresh"]
    /\ shown = Nobody

Begin(a) ==
    /\ current = Nobody /\ stage[a] = "fresh"
    /\ current' = a
    /\ stage' = [stage EXCEPT ![a] = "attempting"]
    /\ shown' = Nobody

\* The state is written again; a connected attempt has been shown.
Show(a) ==
    /\ current = a
    /\ shown' = a
    /\ stage' \in {stage, [stage EXCEPT ![a] = "up"]}
    /\ UNCHANGED current

\* Ended by the user, by openconnect or by a timeout.
End(a) ==
    /\ current = a
    /\ current' = Nobody
    /\ stage' = [stage EXCEPT ![a] = "over"]
    /\ shown' \in {shown, Nobody}

Hide == shown' = Nobody /\ UNCHANGED <<current, stage>>

Next == Hide \/ \E a \in Attempts : Begin(a) \/ Show(a) \/ End(a)

Spec == Init /\ [][Next]_vars
=============================================================================
