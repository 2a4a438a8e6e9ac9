----------------------------- MODULE StatsRing -----------------------------
(***************************************************************************)
(* The daemon's rolling history of intercept statistics (daemon/stats.c):  *)
(* cumulative kernel counters are sampled, differences are stored in a     *)
(* ring with eviction by age and by capacity.  The kernel side keeps what  *)
(* the daemon can tell apart: the per-UID total of blocked port accesses,  *)
(* the port entries (one port per UID) behind a second lock, the snapshot  *)
(* sequence, VH_CLEAR_STATS and the pruning of rows.                       *)
(***************************************************************************)
EXTENDS Integers, FiniteSets, FiniteSetsExt, Functions

CONSTANTS
    Uids,
    PortUids,    \* UIDs whose accesses name a port: port 0 has no entry
    Points,      \* STATS_RING_POINTS
    Retention,   \* STATS_RETENTION_SEC
    MaxEvents,   \* bound: accesses recorded per UID since the last gap
    MaxCount,    \* bound: a kernel counter
    MaxPort,     \* bound: count of a port entry
    MaxSeq,      \* bound: snapshot sequence
    MaxPoints,   \* bound: points appended since the ring was cleared
    MaxTime,     \* bound: wall clock
    MaxBack      \* bound: how far one adjustment sets the wall clock back

ASSUME StatsRingAssumption ==
    /\ Points \in Nat \ {0} /\ Retention \in Nat \ {0} /\ MaxBack \in Nat
    /\ MaxCount \in Nat \ {0} /\ MaxPort \in Nat \ {0} /\ MaxEvents \in Nat
    /\ MaxSeq \in Nat /\ MaxPoints \in Nat /\ MaxTime \in Nat

VARIABLES
    rows,        \* kmod_stats: port_count per UID that has a row
    ports,       \* kmod_port_stats: count per UID that has an entry
    half,        \* UIDs with a record_port_intercept between its two locks
    kseq,        \* kmod_stats_sequence
    clearing,    \* a VH_CLEAR_STATS is between its two locks
    wall,        \* daemon_get_wall_time_ms()
    spc, scur, sseq,                      \* sample_stats: step, rows, sequence
    ring, head, count, dropped_intervals, \* struct daemon_stats_ring
    previous, previous_ports, previous_sequence, baseline_valid,
    appended,    \* history: points appended since the ring was cleared
    occurred,    \* history: accesses counted since the last gap's snapshot
    since,       \* history: accesses counted since the snapshot under way
    credited,    \* history: accesses reported by the points since the last gap
    disturbed    \* history: was there a clear or a pruned row since the gap

kernel == <<rows, ports, half, kseq, clearing>>
sample == <<spc, scur, sseq>>
points == <<ring, head, count, dropped_intervals, appended>>
baseline == <<previous, previous_ports, previous_sequence, baseline_valid>>
history == <<occurred, since, credited, disturbed>>
vars == <<kernel, wall, sample, points, baseline, history>>

Slots == 0 .. Points - 1
NoPoint == [id |-> 0, timestamp |-> 0, gap |-> FALSE, uids |-> << >>, ports |-> << >>]
Zero == [u \in Uids |-> 0]
Empty == << >>

Init ==
    /\ rows \in [Uids -> {0}] \cup {Empty}
    /\ ports = Empty /\ half = {} /\ kseq = 0 /\ clearing = FALSE
    /\ wall = 0
    /\ spc = "idle" /\ scur = Empty /\ sseq = 0
    /\ ring = [i \in Slots |-> NoPoint]
    /\ head = 0 /\ count = 0 /\ dropped_intervals = 0 /\ appended = 0
    /\ previous = Empty /\ previous_ports = Empty
    /\ previous_sequence = 0 /\ baseline_valid = FALSE
    /\ occurred = Zero /\ since = Zero /\ credited = Zero
    /\ disturbed = "none"

\* f with x increased by one, or added with the value 1.
Bumped(f, x) == [y \in DOMAIN f \cup {x} |->
                    IF y # x THEN f[y] ELSE IF x \in DOMAIN f THEN f[x] + 1 ELSE 1]

-----------------------------------------------------------------------------
(* The kernel.                                                             *)

\* record_port_intercept, first half: record_kmod_intercept(uid, 6).
RecordUid(u) ==
    /\ u \notin half
    /\ occurred[u] < MaxEvents
    /\ u \in DOMAIN rows => rows[u] < MaxCount
    /\ rows' = Bumped(rows, u)
    /\ half' = half \cup ({u} \cap PortUids)
    /\ occurred' = [occurred EXCEPT ![u] = @ + 1]
    /\ since' = IF spc = "ports" THEN [since EXCEPT ![u] = @ + 1] ELSE since
    /\ UNCHANGED <<ports, kseq, clearing, wall, sample, points, baseline,
                   credited, disturbed>>

\* Second half: the entry of the port, under kmod_port_stats_lock.
RecordPort(u) ==
    /\ u \in half
    /\ u \in DOMAIN ports => ports[u] < MaxPort
    /\ ports' = Bumped(ports, u)
    /\ half' = half \ {u}
    /\ UNCHANGED <<rows, kseq, clearing, wall, sample, points, baseline, history>>

\* reconcile_kmod_stats_locked: u becomes a target, or is one no longer.
AddRow(u) ==
    /\ u \notin DOMAIN rows
    /\ rows' = [v \in DOMAIN rows \cup {u} |-> IF v = u THEN 0 ELSE rows[v]]
    /\ UNCHANGED <<ports, half, kseq, clearing, wall, sample, points, baseline, history>>

PruneRow(u) ==
    /\ u \in DOMAIN rows
    /\ rows' = Restrict(rows, DOMAIN rows \ {u})
    /\ disturbed' = "unseen"
    /\ UNCHANGED <<ports, half, kseq, clearing, wall, sample, points, baseline,
                   occurred, since, credited>>

\* VH_CLEAR_STATS: the rows and the sequence, then the port table.
ClearRows ==
    /\ ~clearing
    /\ rows' = [u \in DOMAIN rows |-> 0]
    /\ kseq' = 0
    /\ clearing' = TRUE
    /\ disturbed' = "unseen"
    /\ UNCHANGED <<ports, half, wall, sample, points, baseline, occurred, since, credited>>

ClearPorts ==
    /\ clearing
    /\ ports' = Empty
    /\ clearing' = FALSE
    /\ UNCHANGED <<rows, half, kseq, wall, sample, points, baseline, history>>

\* Another process (vpnhide-ctl stats) takes a snapshot.
OtherSnapshot ==
    /\ kseq < MaxSeq
    /\ kseq' = kseq + 1
    /\ UNCHANGED <<rows, ports, half, clearing, wall, sample, points, baseline, history>>

\* CLOCK_REALTIME passes, or is adjusted.
Clock ==
    /\ wall' \in wall - MaxBack .. MaxTime
    /\ wall' \in 0..MaxTime
    /\ wall' # wall
    /\ UNCHANGED <<kernel, sample, points, baseline, history>>

-----------------------------------------------------------------------------
(* The daemon.                                                             *)

\* read_kernel_stats, first call, with no room: enough if there is nothing.
SizeSnapshot ==
    /\ spc = "idle"
    /\ kseq < MaxSeq
    /\ kseq' = kseq + 1
    /\ spc' = IF rows = Empty /\ ports = Empty THEN "ports" ELSE "sized"
    /\ scur' = Empty
    /\ sseq' = kseq + 1
    /\ since' = Zero
    /\ disturbed' = IF spc' = "ports" /\ disturbed = "unseen" THEN "seen" ELSE disturbed
    /\ UNCHANGED <<rows, ports, half, clearing, wall, points, baseline, occurred, credited>>

\* The call that returns the rows: the section under kmod_stats_lock.
SampleRows ==
    /\ spc = "sized"
    /\ kseq < MaxSeq
    /\ kseq' = kseq + 1
    /\ spc' = "ports"
    /\ scur' = rows
    /\ sseq' = kseq + 1
    /\ disturbed' = IF disturbed = "unseen" THEN "seen" ELSE disturbed
    /\ UNCHANGED <<rows, ports, half, clearing, wall, points, baseline,
                   occurred, since, credited>>

\* The snapshot fails, or append_stats_point finds no memory: no point.
SampleFails ==
    /\ spc # "idle"
    /\ spc' = "idle" /\ scur' = Empty /\ sseq' = 0
    /\ since' = Zero
    /\ disturbed' = IF disturbed = "seen" THEN "unseen" ELSE disturbed
    /\ UNCHANGED <<kernel, wall, points, baseline, occurred, credited>>

\* Wrong variant: the counter itself is taken for the difference.
stats_delta_raw(current, old) == current

stats_delta(current, old) == IF current >= old THEN current - old ELSE current

\* The wrong variant of Old: a counter without a baseline starts at its value.
OldOfNewIsCurrent(prev, cur, u) == IF u \in DOMAIN prev THEN prev[u] ELSE cur[u]

Old(prev, cur, u) == IF u \in DOMAIN prev THEN prev[u] ELSE 0

Deltas(prev, cur, keep) ==
    [u \in {v \in DOMAIN cur : v \in keep \/ stats_delta(cur[v], Old(prev, cur, v)) # 0}
        |-> stats_delta(cur[u], Old(prev, cur, u))]

\* The point append_stats_point builds: rows without a baseline are always kept.
Point(gap, curports) ==
    [id |-> appended + 1, timestamp |-> wall, gap |-> gap,
     uids |-> IF gap THEN Empty
              ELSE Deltas(previous, scur, DOMAIN scur \ DOMAIN previous),
     ports |-> IF gap THEN Empty ELSE Deltas(previous_ports, curports, {})]

\* The n-th point in the order write_stats_json prints them.
PointAt(n) == ring[(head + n) % Points]

\* Wrong variant: nothing is evicted by age.
ExpiredNever == 0

\* The while loop: points taken off the head until one is young enough.
Expired == Max({n \in 0..count : \A i \in 0 .. n - 1 :
                    PointAt(i).timestamp + Retention <= wall})

Evicted(old) == IF count - old = Points THEN old + 1 ELSE old

\* Wrong variant: the point is stored one slot further.
TailPastEnd(h, c) == (h + c) % Points

Tail(h, c) == (h + c - 1) % Points

append_stats_point ==
    LET gap == ~baseline_valid \/ sseq <= previous_sequence
        point == Point(gap, ports)
        gone == Evicted(Expired)
        h == (head + gone) % Points
        c == count - gone + 1
        kept == [i \in Slots |-> IF \E n \in 0 .. gone - 1 : i = (head + n) % Points
                                 THEN NoPoint ELSE ring[i]]
    IN
    /\ spc = "ports"
    /\ appended < MaxPoints
    /\ ring' = [kept EXCEPT ![Tail(h, c)] = point]
    /\ head' = h
    /\ count' = c
    /\ dropped_intervals' = dropped_intervals + gone
    /\ appended' = appended + 1
    /\ previous' = scur
    /\ previous_ports' = ports
    /\ previous_sequence' = sseq
    /\ baseline_valid' = TRUE
    /\ spc' = "idle" /\ scur' = Empty /\ sseq' = 0
    /\ since' = Zero
    /\ occurred' = IF gap THEN since ELSE occurred
    /\ credited' = [u \in Uids |-> IF gap THEN 0
                                   ELSE credited[u] + Old(point.uids, point.uids, u)]
    /\ disturbed' = IF disturbed = "seen" THEN IF gap THEN "none" ELSE "unseen"
                    ELSE disturbed
    /\ UNCHANGED <<kernel, wall>>

\* clear_stats_ring, and the memory of a daemon that starts again.
RingCleared ==
    /\ ring' = [i \in Slots |-> NoPoint]
    /\ head' = 0 /\ count' = 0 /\ dropped_intervals' = 0 /\ appended' = 0
    /\ previous' = Empty /\ previous_ports' = Empty
    /\ previous_sequence' = 0 /\ baseline_valid' = FALSE
    /\ spc' = "idle" /\ scur' = Empty /\ sseq' = 0
    /\ occurred' = Zero /\ since' = Zero /\ credited' = Zero
    /\ disturbed' = "none"
    /\ UNCHANGED <<kernel, wall>>

\* serve_stats_client with CLEAR_HISTORY, between two samples.
ClearHistory == spc = "idle" /\ RingCleared

DaemonRestart == spc # "idle" /\ RingCleared

Next ==
    \/ \E u \in Uids : RecordUid(u) \/ RecordPort(u) \/ AddRow(u) \/ PruneRow(u)
    \/ ClearRows \/ ClearPorts \/ OtherSnapshot \/ Clock
    \/ SizeSnapshot \/ SampleRows \/ SampleFails \/ append_stats_point
    \/ ClearHistory \/ DaemonRestart

Spec == Init /\ [][Next]_vars

-----------------------------------------------------------------------------
Counts(f, max) == DOMAIN f \subseteq Uids /\ \A u \in DOMAIN f : f[u] \in 0..max

TypeOK ==
    /\ Counts(rows, MaxCount) /\ Counts(ports, MaxPort) /\ Counts(scur, MaxCount)
    /\ Counts(previous, MaxCount) /\ Counts(previous_ports, MaxPort)
    /\ half \in SUBSET Uids /\ kseq \in 0..MaxSeq /\ clearing \in BOOLEAN
    /\ wall \in 0..MaxTime
    /\ spc \in {"idle", "sized", "ports"} /\ sseq \in 0..MaxSeq
    /\ DOMAIN ring = Slots
    /\ \A i \in Slots : /\ ring[i].id \in 0..MaxPoints /\ ring[i].timestamp \in 0..MaxTime
                        /\ Counts(ring[i].uids, MaxCount) /\ Counts(ring[i].ports, MaxPort)
    /\ head \in Slots /\ count \in 0..Points
    /\ dropped_intervals \in 0..MaxPoints /\ appended \in 0..MaxPoints
    /\ previous_sequence \in 0..MaxSeq /\ baseline_valid \in BOOLEAN
    /\ Counts(occurred, MaxEvents) /\ Counts(since, MaxEvents) /\ Counts(credited, MaxEvents)
    /\ disturbed \in {"none", "unseen", "seen"}

\* The response of write_stats_json lists exactly the newest points, oldest
\* first, and droppedIntervals is the number of points that are missing from it:
\* eviction by age and by capacity together lose and repeat nothing.  Types are included: the ring never holds
\* more points than it has slots.
RingIsWindow ==
    /\ TypeOK
    /\ dropped_intervals + count = appended
    /\ \A n \in 0 .. count - 1 : PointAt(n).id = dropped_intervals + n + 1

\* The points since the last gap never report an access twice and never report
\* one that was not counted, whatever clears, pruned rows, failed samples and
\* missed gaps come in between.
NeverOverReports == \A u \in Uids : credited[u] <= occurred[u]

\* Without a clear or a pruned row since the last gap every access is either
\* reported by a point or will be by the next one.
DeltasAddUp ==
    baseline_valid /\ disturbed = "none" =>
        \A u \in DOMAIN rows :
            occurred[u] = credited[u] + (rows[u] - Old(previous, rows, u))

\* A sample leaves no point older than the retention time (STATS_CONTRACT.md: "a
\* fixed six-hour retention"), except behind a point stamped later, by a wall
\* clock that was set back in between: the loop stops at the first young point.
RetentionHolds ==
    [][appended' > appended =>
        \A n \in 0 .. count' - 1 :
            \/ PointAt(n)'.timestamp + Retention > wall
            \/ \E m \in 0 .. count - 1 :
                /\ PointAt(m).id < PointAt(n)'.id
                /\ PointAt(m).timestamp > PointAt(n)'.timestamp]_vars
=============================================================================
