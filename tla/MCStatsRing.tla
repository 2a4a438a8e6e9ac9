---------------------------- MODULE MCStatsRing ----------------------------
EXTENDS StatsRing

\* Bound: accesses are explored while the clock stands still, the passing of
\* time while no access is counted.
OneTrouble ==
    \/ wall = 0 /\ appended <= 2 /\ \A i \in Slots : ring[i].timestamp = 0
    \/ rows = Empty /\ ports = Empty /\ half = {} /\ disturbed = "none"
=============================================================================
