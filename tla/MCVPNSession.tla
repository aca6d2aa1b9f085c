---------------------------- MODULE MCVPNSession ----------------------------
(* VPNSession for TLC. *)
EXTENDS VPNSession

\* The run that looks at any two sessions looks at a restart of the service, and
\* at an openconnect that leaves its parent, with one session only.
TwoWithoutRestartOrFork ==
    made = 2 => /\ crashes = 0
                /\ \A s \in Sessions : proc[s] # "child" /\ watcher[s] \notin {"adopt", "pid"}

\* A pending ApplyDirectNAT runs before anything else: it changes the rules alone, which
\* no property of the run reads and no other step waits for.
DirectNATFirst == made = 2 /\ direct > 0 => direct' < direct
=============================================================================
