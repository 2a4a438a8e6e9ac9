--------------------------- MODULE MCKernelStats ---------------------------
EXTENDS KernelStats

Port(u, r) == [uid |-> u, restricted |-> r]

\* Lists that overlap, an unrestricted port target (both leave spare capacity),
\* a larger population than the table, and an allowlist.
Mixed == [kmod |-> <<2>>, lsposed |-> <<3>>,
          ports |-> <<Port(1, TRUE), Port(3, FALSE)>>, exclude |-> {}]
MCPolicies == {
    [kmod |-> <<1>>, lsposed |-> <<1>>, ports |-> <<>>, exclude |-> {}],
    Mixed,
    [kmod |-> <<2>>, lsposed |-> <<>>, ports |-> <<Port(3, TRUE)>>, exclude |-> {}],
    [kmod |-> <<1>>, lsposed |-> <<1, 2>>, ports |-> <<Port(1, FALSE)>>,
     exclude |-> {"kmod", "lsposed", "port"}] }

\* More keys than slots; two collide and their probe path wraps around the end.
MCKeys == {[uid |-> 1, port |-> 1], [uid |-> 1, port |-> 2],
           [uid |-> 2, port |-> 1]}
MCHash == [k \in MCKeys |-> IF k.uid = 1 THEN 1 ELSE 0]

\* Bound: the policies change before the first access to a port, and from then
\* on only while no time has passed; clients read while no count exceeds 1 and
\* one UID alone has port entries.
OneConcern ==
    LET PortsUsed == \/ \E u \in Uids : hits[u]["port"] > 0
                     \/ \E h \in Hooks : hook[h].key # NoKey
                     \/ \E i \in Slots : slot[i] # Empty
    IN  /\ PortsUsed =>
            /\ policy = Mixed
            /\ next = NoPolicy \/ (reader = NoRead /\ now = 0)
            /\ \A u \in Uids : hits[u]["other"] = 0
            /\ \A h \in Hooks : hook[h] # NoCall => hook[h].key # NoKey
        /\ ~PortsUsed => now = 0 /\ (cpc = "idle" \/ reader = NoRead)
        /\ reader # NoRead =>
            /\ \A u \in Uids, c \in Counters : hits[u][c] <= 1
            /\ \A k \in Keys : seen[k] <= 1
            /\ dropped = 0
            /\ PortsUsed => reader.abi = 2 /\ cpc = "idle"
            /\ \A k \in Keys : k.uid = 2 => seen[k] = 0
            /\ hits[2]["port"] = 0
=============================================================================
