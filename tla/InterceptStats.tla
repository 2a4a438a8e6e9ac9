--------------------------- MODULE InterceptStats ---------------------------
(***************************************************************************)
(* The per-UID intercept counters of the kernel module: the sorted table   *)
(* that hooks and the framework add to, its reconciliation with a new      *)
(* policy and the clearing of its rows.  KernelStats composes it with the  *)
(* port table, the hooks and the readers.                                  *)
(*                                                                         *)
(* A row keeps port_count and one counter for the thirteen others of the   *)
(* code, which are all treated alike.  UIDs are the app UIDs that          *)
(* record_kmod_intercept lets pass, numbered in order.                     *)
(***************************************************************************)
EXTENDS Integers, Sequences, FiniteSets, Functions

CONSTANTS
    Uids,      \* app UIDs (numbers)
    Policies,  \* the policies that may be published
    Limit,     \* VPNHIDE_UID_STATS_CAPACITY
    MaxCount   \* bound: intercepts counted in one row

VARIABLES
    table,     \* kmod_stats[0 .. kmod_stats_count - 1]
    capacity,  \* kmod_stats_capacity
    policy,    \* the published snapshot, as far as statistics depend on it
    next,      \* a snapshot reconciled but not yet published
    hits       \* history: intercepts since the UID's row was made or cleared

rowVars == <<table, capacity, policy, next, hits>>

None == 0

\* A snapshot as far as statistics depend on it: the sorted UID lists, the
\* port targets, and the layers whose match mode is VPNHIDE_MATCH_EXCLUDE.
NoPolicy == [kmod |-> <<>>, lsposed |-> <<>>, ports |-> <<>>, exclude |-> {}]

Matches(p, layer, list, u) == (u \in Range(list)) = (layer \notin p.exclude)

policy_uid_has_stats(p, u) ==
    \/ Matches(p, "kmod", p.kmod, u)
    \/ Matches(p, "lsposed", p.lsposed, u)
    \/ \E t \in Range(p.ports) : t.uid = u /\ t.restricted
    \/ "port" \in p.exclude /\ \A t \in Range(p.ports) : t.uid # u

Targets(p) == {u \in Uids : policy_uid_has_stats(p, u)}

Counters == {"port", "other"}
NoHits == [c \in Counters |-> 0]

RowUids(t) == {t[k].uid : k \in DOMAIN t}

InitRows ==
    /\ table = <<>>
    /\ capacity = 0
    /\ policy = NoPolicy
    /\ next = NoPolicy
    /\ hits = [u \in Uids |-> NoHits]

-----------------------------------------------------------------------------
\* The binary search of record_kmod_intercept: the row, or where it belongs.
Search(t, u) ==
    LET s[lo \in 1 .. Len(t) + 1, hi \in 0 .. Len(t)] ==
            IF lo > hi THEN [found |-> FALSE, at |-> lo]
            ELSE LET i == lo + ((hi - lo) \div 2) IN
                 IF t[i].uid = u THEN [found |-> TRUE, at |-> i]
                 ELSE IF t[i].uid < u THEN s[i + 1, hi]
                 ELSE s[lo, i - 1]
    IN s[1, Len(t)]

\* memmove of the rows from i on, and the new row where they began.
MakeRoom(t, i, row) == SubSeq(t, 1, i - 1) \o <<row>> \o SubSeq(t, i, Len(t))

\* Wrong variant: the row is appended, wherever it belongs.
AddAtEnd(u, c, n) ==
    LET r == Search(table, u) IN
    IF r.found
    THEN /\ table' = [table EXCEPT ![r.at].count[c] = @ + n]
         /\ hits' = [hits EXCEPT ![u][c] = @ + n]
    ELSE IF Len(table) < capacity
    THEN LET first == [NoHits EXCEPT ![c] = n] IN
         /\ table' = Append(table, [uid |-> u, count |-> first])
         /\ hits' = [hits EXCEPT ![u] = first]
    ELSE UNCHANGED <<table, hits>>

\* record_kmod_intercept and vpnhide_kmod_record_java_stat under
\* kmod_stats_lock: n more for counter c of u; no row is made in a full table.
Add(u, c, n) ==
    LET r == Search(table, u) IN
    IF r.found
    THEN /\ table' = [table EXCEPT ![r.at].count[c] = @ + n]
         /\ hits' = [hits EXCEPT ![u][c] = @ + n]
    ELSE IF Len(table) < capacity
    THEN LET first == [NoHits EXCEPT ![c] = n] IN
         /\ table' = MakeRoom(table, r.at, [uid |-> u, count |-> first])
         /\ hits' = [hits EXCEPT ![u] = first]
    ELSE UNCHANGED <<table, hits>>

-----------------------------------------------------------------------------
\* The three-way merge of the sorted layers, at most cap UIDs; port targets
\* that restrict nothing are skipped.
Merge(p, cap) ==
    LET ports == [k \in DOMAIN p.ports |->
                    IF p.ports[k].restricted THEN p.ports[k].uid ELSE None]
        Past(s, x) == SelectSeq(s, LAMBDA v : v > x)
        m[n \in 0..cap] ==
            IF n = 0
            THEN [out |-> <<>>, lists |-> <<p.kmod, p.lsposed, Past(ports, None)>>]
            ELSE LET q == m[n - 1]
                     heads == {q.lists[k][1] : k \in {j \in 1..3 : q.lists[j] # <<>>}}
                     x == CHOOSE v \in heads : \A w \in heads : v <= w
                 IN IF heads = {} THEN q
                    ELSE [out |-> Append(q.out, x),
                          lists |-> [k \in 1..3 |-> Past(q.lists[k], x)]]
    IN m[cap].out

NewCapacity(p) ==
    LET requested == Len(p.kmod) + Len(p.lsposed) + Len(p.ports)
    IN IF p.exclude # {} \/ requested > Limit THEN Limit ELSE requested

\* Wrong variant: the counters start again with every policy.
CarryOverNothing(uids) ==
    [k \in DOMAIN uids |-> [uid |-> uids[k], count |-> NoHits]]

\* The counters of the old rows are carried over by one pass over both arrays.
CarryOver(uids) ==
    LET first(j, u) == CHOOSE k \in j .. Len(table) + 1 :
                        /\ k = Len(table) + 1 \/ table[k].uid >= u
                        /\ \A i \in j .. k - 1 : table[i].uid < u
        pass[i \in 0 .. Len(uids)] ==
            IF i = 0 THEN [j |-> 1, rows |-> <<>>]
            ELSE LET q == pass[i - 1]
                     j == first(q.j, uids[i])
                     hit == j <= Len(table) /\ table[j].uid = uids[i]
                 IN [j |-> IF hit THEN j + 1 ELSE j,
                     rows |-> Append(q.rows,
                                     [uid |-> uids[i],
                                      count |-> IF hit THEN table[j].count
                                                ELSE NoHits])]
    IN pass[Len(uids)].rows

\* The replacement array: the targets in order (INCLUDE), or the old rows that
\* still match (some layer is EXCLUDE).
Replacement(p) ==
    LET kept == SelectSeq(table, LAMBDA row : policy_uid_has_stats(p, row.uid))
    IN IF p.exclude = {} THEN CarryOver(Merge(p, NewCapacity(p)))
       ELSE SubSeq(kept, 1, IF Len(kept) < Limit THEN Len(kept) ELSE Limit)

\* kmod_stats_reconcile, called with policy_apply_lock held.
Reconcile(p) ==
    /\ next = NoPolicy
    /\ next' = p
    /\ capacity' = NewCapacity(p)
    /\ table' = Replacement(p)
    /\ hits' = [u \in Uids |-> IF u \in RowUids(table') THEN hits[u] ELSE NoHits]
    /\ policy' = policy

\* rcu_assign_pointer, some time later.
Publish ==
    /\ next # NoPolicy
    /\ policy' = next
    /\ next' = NoPolicy
    /\ UNCHANGED <<table, capacity, hits>>

\* VH_CLEAR_STATS under kmod_stats_lock.
ClearRows ==
    /\ table' = [k \in DOMAIN table |-> [table[k] EXCEPT !.count = NoHits]]
    /\ hits' = [u \in Uids |-> NoHits]
    /\ UNCHANGED <<capacity, policy, next>>

-----------------------------------------------------------------------------
Rows == [uid : Uids, count : [Counters -> 0..MaxCount]]

RowTypes ==
    /\ table \in Seq(Rows)
    /\ capacity \in 0..Limit
    /\ policy \in Policies \cup {NoPolicy}
    /\ next \in Policies \cup {NoPolicy}
    /\ hits \in [Uids -> [Counters -> 0..MaxCount]]

\* record_kmod_intercept, vpnhide_kmod_record_java_stat, kmod_stats_reconcile
\* and the daemon's find_uid_stats search the rows by halving: the UIDs are
\* strictly increasing, and memmove never writes past the allocation.  Types
\* are included.
TableIsSortedAndFits ==
    /\ RowTypes
    /\ \A j, k \in DOMAIN table : j < k => table[j].uid < table[k].uid
    /\ Len(table) <= capacity

\* STATS_CONTRACT.md: "removed UIDs are pruned so new target UIDs cannot be
\* blocked by stale table entries".  With INCLUDE layers and at most Limit
\* entries, every target has a row from reconciliation on, whatever late
\* records of removed UIDs arrive.
TargetsHaveRows ==
    LET p == IF next = NoPolicy THEN policy ELSE next
    IN p.exclude = {} /\ Cardinality(Targets(p)) <= Limit =>
        Targets(p) \subseteq RowUids(table)

\* Every target has its row, and every row counts exactly the intercepts recorded
\* for its UID since the row was made or cleared, across policy changes that keep
\* the UID.
RowsCountIntercepts ==
    /\ TargetsHaveRows
    /\ \A k \in DOMAIN table : table[k].count = hits[table[k].uid]
=============================================================================
