------------------------------- MODULE MCMonitor ------------------------------
(* TLC instances of Monitor. *)
EXTENDS Monitor, TLC

CONSTANTS systemd, journal, metrics

\* The sources of the default configuration.
BothSources == <<systemd, journal>>

OnlySystemd == <<systemd>>

\* Bounds on the updates of each source.
Once == [s \in Sources |-> 1]
Twice == [s \in Sources |-> 2]
PollOnce == [s \in Sources |-> IF s \in PullSources THEN 1 ELSE 2]
FourTimes == [s \in Sources |-> 4]

ClientSymmetry == Permutations(Clients \ Holders)

=============================================================================
