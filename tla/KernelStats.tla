---------------------------- MODULE KernelStats ----------------------------
(***************************************************************************)
(* The statistics of the kernel module as a whole: the counters per UID    *)
(* and the port table, each under a lock of its own, the hooks that add to *)
(* both, VH_CLEAR_STATS that clears one after the other, and the clients   *)
(* of VH_GET_STATS (vpnhide-ctl) and VH_GET_STATS_V2 (the daemon), which   *)
(* look at the sizes, allocate and look again.                             *)
(***************************************************************************)
EXTENDS InterceptStats, PortStats

CONSTANT Hooks     \* hooks running concurrently

VARIABLES
    hook,      \* per hook: what it is about to record
    cpc,       \* VH_CLEAR_STATS: "idle" or "ports", between its two sections
    reader,    \* the client that is reading, and its attempt
    apart      \* history: UIDs whose row and port entries were separated

vars == <<rowVars, portVars, hook, cpc, reader, apart>>

\* at: "row" (nothing recorded yet), "port" (the row is done), or "idle".
NoCall == [at |-> "idle", uid |-> None, key |-> NoKey]

\* pc: "look", "lookports", "copy", "copyports", and the two outcomes.  rows and
\* ports are what the last look found, the other fields sizes of buffers: the
\* caller's, and what the ioctl allocated.
NoRead == [pc |-> "idle", abi |-> 0, rowCap |-> 0, portCap |-> 0,
           rowAlloc |-> 0, portAlloc |-> 0, rows |-> 0]

Init ==
    /\ InitRows
    /\ InitPorts
    /\ hook = [h \in Hooks |-> NoCall]
    /\ cpc = "idle"
    /\ reader = NoRead
    /\ apart = {}

-----------------------------------------------------------------------------
(* Hooks.                                                                  *)

\* A hook finds its caller targeted by the published policy, and what it stops
\* is an access to a port (key) or something else.
Intercept(h) ==
    /\ hook[h] = NoCall
    /\ \E u \in Uids : \E k \in {NoKey} \cup {q \in Keys : q.uid = u} :
        /\ policy_uid_has_stats(policy, u)
        /\ hook' = [hook EXCEPT ![h] = [at |-> "row", uid |-> u, key |-> k]]
    /\ UNCHANGED <<rowVars, portVars, cpc, reader, apart>>

\* record_kmod_intercept; a blocked port then goes on to the port table.
RecordRow(h) ==
    LET u == hook[h].uid
        c == IF hook[h].key = NoKey THEN "other" ELSE "port"
    IN
    /\ hook[h].at = "row"
    /\ hits[u][c] < MaxCount
    /\ Add(u, c, 1)
    /\ hook' = [hook EXCEPT ![h] = IF c = "port" THEN [@ EXCEPT !.at = "port"]
                                   ELSE NoCall]
    /\ apart' = IF c = "port" /\ u \notin RowUids(table') THEN apart \cup {u}
                ELSE apart
    /\ UNCHANGED <<capacity, policy, next, portVars, cpc, reader>>

RecordPort(h) ==
    /\ hook[h].at = "port"
    /\ record_port_intercept(hook[h].key)
    /\ hook' = [hook EXCEPT ![h] = NoCall]
    /\ apart' = IF dropped' > dropped THEN apart \cup {hook[h].uid} ELSE apart
    /\ UNCHANGED <<rowVars, cpc, reader>>

\* The framework counts for its own hooks, in batches that it writes as
\* "stats:" lines.
RecordJava(h) ==
    /\ hook[h].at = "row"
    /\ hook[h].key = NoKey
    /\ hits[hook[h].uid]["other"] + 2 <= MaxCount
    /\ Add(hook[h].uid, "other", 2)
    /\ hook' = [hook EXCEPT ![h] = NoCall]
    /\ UNCHANGED <<capacity, policy, next, portVars, cpc, reader, apart>>

-----------------------------------------------------------------------------
(* Policy changes and VH_CLEAR_STATS.                                      *)

\* port_count of a UID's row.
RowPorts(u) == LET k == CHOOSE i \in DOMAIN table : table[i].uid = u
               IN IF u \in RowUids(table) THEN table[k].count["port"] ELSE 0

\* Accesses that have reached one table and not yet the other.
InFlight(u) == {h \in Hooks : hook[h].at = "port" /\ hook[h].uid = u}

\* A row that has accesses to ports, or will miss one.
Counted(u) == RowPorts(u) > 0 \/ InFlight(u) # {}

\* The rows of UIDs that are no longer targets go; their port entries stay.
ReconcileRows ==
    /\ \E p \in Policies : Reconcile(p)
    /\ apart' = apart \cup {u \in RowUids(table) \ RowUids(table') : Counted(u)}
    /\ UNCHANGED <<portVars, hook, cpc, reader>>

PublishPolicy ==
    /\ Publish
    /\ UNCHANGED <<portVars, hook, cpc, reader, apart>>

BeginClear ==
    /\ cpc = "idle"
    /\ ClearRows
    /\ cpc' = "ports"
    /\ UNCHANGED <<portVars, hook, reader, apart>>

\* Wrong variant: the old port table stays.
EndClearKeepsPorts ==
    /\ cpc = "ports"
    /\ cpc' = "idle"
    /\ dropped' = 0
    /\ apart' = {u \in Uids : Counted(u)}
    /\ UNCHANGED <<rowVars, slot, now, seen, hook, reader>>

\* Whatever was counted since the rows were cleared is lost in the port table,
\* and what is under way now is counted only there.
EndClear ==
    /\ cpc = "ports"
    /\ ClearPortStats
    /\ cpc' = "idle"
    /\ apart' = {u \in Uids : Counted(u)}
    /\ UNCHANGED <<rowVars, hook, reader>>

-----------------------------------------------------------------------------
(* The clients and the ioctls they repeat.                                 *)

StartRead ==
    /\ reader = NoRead
    /\ \E abi \in {1, 2} : reader' = [NoRead EXCEPT !.pc = "look", !.abi = abi]
    /\ UNCHANGED <<rowVars, portVars, hook, cpc, apart>>

\* First look at the rows: v1 allocates what the caller has room for, v2 all
\* rows or none.
FirstLook ==
    LET n == Len(table)
        room == IF reader.abi = 1 \/ reader.rowCap >= n
                THEN Min({reader.rowCap, n}) ELSE 0
    IN
    /\ reader.pc = "look"
    /\ reader' = [reader EXCEPT !.rowAlloc = room,
                                !.pc = IF reader.abi = 1 THEN "copy"
                                       ELSE "lookports"]
    /\ UNCHANGED <<rowVars, portVars, hook, cpc, apart>>

\* Entries that are not expired.
Live == {i \in Slots : slot[i].state = "used" /\ ~Expired(slot[i])}

ExpiryApart == {slot[i].key.uid : i \in {j \in Slots : Expired(slot[j])}}

FirstLookPorts ==
    LET n == Cardinality(Live) IN
    /\ reader.pc = "lookports"
    /\ count_live_port_stats_locked
    /\ apart' = apart \cup ExpiryApart
    /\ reader' = [reader EXCEPT !.portAlloc = IF reader.portCap >= n THEN n ELSE 0,
                                !.pc = "copy"]
    /\ UNCHANGED <<rowVars, hook, cpc>>

\* Wrong variant: the client tries again with the same buffers.
RetrySameBuffers(rows, ports) ==
    [NoRead EXCEPT !.pc = "look", !.abi = reader.abi, !.rowCap = reader.rowCap,
                   !.portCap = reader.portCap]

\* What a client does with -ENOSPC: it tries again with larger buffers, or gives
\* up when the sizes reported ask for none.
Retry(rows, ports) ==
    IF rows > reader.rowCap \/ ports > reader.portCap
    THEN [NoRead EXCEPT !.pc = "look", !.abi = reader.abi,
                        !.rowCap = Max({rows, reader.rowCap}),
                        !.portCap = Max({ports, reader.portCap})]
    ELSE [reader EXCEPT !.pc = "gaveup"]

\* Second look at the rows.  v1 is finished with it and compares only the
\* caller's capacity when it decides between 0 and -ENOSPC.
SecondLook ==
    LET n == Len(table) IN
    /\ reader.pc = "copy"
    /\ reader' = IF reader.abi = 2
                 THEN [reader EXCEPT !.rows = n, !.pc = "copyports"]
                 ELSE IF reader.rowCap >= n THEN [reader EXCEPT !.pc = "done"]
                 ELSE Retry(n, 0)
    /\ UNCHANGED <<rowVars, portVars, hook, cpc, apart>>

\* Second look at the port entries: v2 succeeds if both arrays fit what the
\* caller has and what was allocated.
SecondLookPorts ==
    LET n == Cardinality(Live)
        Fits(k, cap, alloc) == cap >= k /\ alloc >= k
    IN
    /\ reader.pc = "copyports"
    /\ count_live_port_stats_locked
    /\ apart' = apart \cup ExpiryApart
    /\ reader' = IF /\ Fits(reader.rows, reader.rowCap, reader.rowAlloc)
                    /\ Fits(n, reader.portCap, reader.portAlloc)
                 THEN [reader EXCEPT !.pc = "done"]
                 ELSE Retry(reader.rows, n)
    /\ UNCHANGED <<rowVars, hook, cpc>>

EndRead ==
    /\ reader.pc \in {"done", "gaveup"}
    /\ reader' = NoRead
    /\ UNCHANGED <<rowVars, portVars, hook, cpc, apart>>

PassTime ==
    /\ Tick
    /\ UNCHANGED <<rowVars, hook, cpc, reader, apart>>

-----------------------------------------------------------------------------
Look == FirstLook \/ FirstLookPorts \/ SecondLook \/ SecondLookPorts

Next ==
    \/ \E h \in Hooks : Intercept(h) \/ RecordRow(h) \/ RecordPort(h)
                        \/ RecordJava(h)
    \/ ReconcileRows \/ PublishPolicy \/ BeginClear \/ EndClear
    \/ StartRead \/ Look \/ EndRead
    \/ PassTime

Spec == Init /\ [][Next]_vars

\* A client's loop is not suspended forever between or within its calls.
FairSpec == Spec /\ WF_vars(Look)

-----------------------------------------------------------------------------
TypeOK ==
    /\ hook \in [Hooks -> [at : {"idle", "row", "port"}, uid : Uids \cup {None},
                           key : Keys \cup {NoKey}]]
    /\ cpc \in {"idle", "ports"}
    /\ reader \in [pc : {"idle", "look", "lookports", "copy", "copyports", "done",
                         "gaveup"},
                   abi : 0..2, rowCap : 0..Limit, portCap : 0..Capacity,
                   rowAlloc : 0..Limit, portAlloc : 0..Capacity, rows : 0..Limit]
    /\ apart \in SUBSET Uids

\* STATS_CONTRACT.md: "port" "equals the sum of ports[].count".  The two tables
\* agree for a UID, but for accesses between their two records, unless one of
\* these separated them since the last undisturbed VH_CLEAR_STATS: an access
\* was under way or made while the two sections ran, an entry expired or was
\* dropped, or the row was pruned or found no room.  Types are included.
PortEntriesExplainRows ==
    LET Entries(u) == {i \in Slots : slot[i].state = "used" /\ slot[i].key.uid = u}
        Sum(u) == FoldSet(LAMBDA i, n : slot[i].count + n, 0, Entries(u))
    IN
    /\ TypeOK
    /\ cpc = "idle" =>
        \A u \in RowUids(table) \ apart :
            RowPorts(u) = Sum(u) + Cardinality(InFlight(u))

\* read_kernel_stats and vpnhide-ctl come to an end although hooks, policy
\* updates, clears and expiry change both sizes between any two looks.
ReadEnds == reader.pc = "look" ~> reader.pc \in {"done", "gaveup"}
=============================================================================
