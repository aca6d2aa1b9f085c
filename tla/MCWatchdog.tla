----------------------------- MODULE MCWatchdog -----------------------------
(* Watchdog for TLC. *)
EXTENDS Watchdog

\* The run that looks at a second session looks at those that follow a restart
\* of the service during the first, and those that auto-reconnect starts; a restart
\* during the second would find what one during the first finds.
SecondAfterRestartOrAutomatic ==
    /\ made = 0 => crashes = 0
    /\ made = 2 => boot = "running"
    /\ made = 1 /\ vpnMu = "connect" => crashes > 0 \/ autoReconnect = "call"

\* A pending ApplyDirectNAT runs before anything else: it changes the rules alone, which
\* no property of the run reads and no other step waits for.
DirectNATFirst == made = 2 /\ direct > 0 => direct' < direct
=============================================================================
