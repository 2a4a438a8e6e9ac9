----------------------------- MODULE PortStats -----------------------------
(***************************************************************************)
(* The sparse table of blocked port accesses (kmod_port_stats): open       *)
(* addressing with linear probing, tombstones for entries not seen within  *)
(* the retention time, replaced as a whole by VH_CLEAR_STATS.  Keys stand  *)
(* for (uid, port, protocol); Hash gives any hash value per key.           *)
(* KernelStats composes the table with the counters per UID.               *)
(***************************************************************************)
EXTENDS Naturals, FiniteSets, FiniteSetsExt

CONSTANTS
    Keys,
    Capacity,  \* VPNHIDE_PORT_STATS_CAPACITY
    Hash,      \* port_stats_hash, reduced to the table
    TTL,       \* VPNHIDE_PORT_STATS_TTL
    MaxTime,   \* bound: ticks
    MaxSeen,   \* bound: count of one entry
    MaxDropped, \* bound: dropped accesses between two clears
    NoKey

ASSUME PortStatsAssumption ==
    /\ Capacity \in Nat \ {0}
    /\ Hash \in [Keys -> 0 .. Capacity - 1]
    /\ TTL \in Nat
    /\ MaxTime \in Nat /\ MaxSeen \in Nat /\ MaxDropped \in Nat
    /\ NoKey \notin Keys

Slots == 0 .. Capacity - 1

VARIABLES
    slot,      \* kmod_port_stats
    now,       \* jiffies
    dropped,   \* kmod_port_stats_dropped
    seen       \* history: accesses recorded per key since it was inserted

portVars == <<slot, now, dropped, seen>>

Empty == [state |-> "empty", key |-> NoKey, count |-> 0, last |-> 0]

InitPorts ==
    /\ slot = [i \in Slots |-> Empty]
    /\ now = 0
    /\ dropped = 0
    /\ seen = [k \in Keys |-> 0]

-----------------------------------------------------------------------------
\* (hash + probe) & VPNHIDE_PORT_STATS_MASK
Index(k, probe) == (Hash[k] + probe) % Capacity

\* The probe at which the loop over the table stops: the entry of k itself, or
\* an empty slot; Capacity if the loop runs out.
Stops(k, p) == \/ slot[Index(k, p)].state = "used" /\ slot[Index(k, p)].key = k
               \/ slot[Index(k, p)].state = "empty"

StopProbe(k) == Min({Capacity} \cup {p \in Slots : Stops(k, p)})

\* first_tombstone: met before the loop stopped.
Tombstones(k) == {p \in Slots : p < StopProbe(k)
                                /\ slot[Index(k, p)].state = "tombstone"}

Fresh(k) == [state |-> "used", key |-> k, count |-> 1, last |-> now]

\* record_port_intercept, after the UID counter has been incremented.
record_port_intercept(k) ==
    LET stop == StopProbe(k)
        found == stop < Capacity /\ slot[Index(k, stop)].state = "used"
        place == IF Tombstones(k) # {} THEN Min(Tombstones(k)) ELSE stop
        i == Index(k, IF found THEN stop ELSE place)
    IN
    /\ seen[k] < MaxSeen
    /\ \/ /\ found
          /\ slot' = [slot EXCEPT ![i].count = @ + 1, ![i].last = now]
          /\ seen' = [seen EXCEPT ![k] = @ + 1]
          /\ dropped' = dropped
       \/ /\ ~found
          /\ place < Capacity
          /\ slot' = [slot EXCEPT ![i] = Fresh(k)]
          /\ seen' = [seen EXCEPT ![k] = 1]
          /\ dropped' = dropped
       \/ /\ ~found
          /\ place = Capacity
          /\ dropped < MaxDropped
          /\ dropped' = dropped + 1
          /\ UNCHANGED <<slot, seen>>
    /\ now' = now

Expired(e) == e.state = "used" /\ now > e.last + TTL

\* Wrong variant: an expired entry becomes an empty slot.
CountLiveEmptying ==
    /\ slot' = [i \in Slots |-> IF Expired(slot[i]) THEN Empty ELSE slot[i]]
    /\ seen' = [k \in Keys |-> IF \E i \in Slots : slot[i].key = k /\ Expired(slot[i])
                               THEN 0 ELSE seen[k]]
    /\ UNCHANGED <<now, dropped>>

\* count_live_port_stats_locked, called by VH_GET_STATS_V2.
count_live_port_stats_locked ==
    /\ slot' = [i \in Slots |-> IF Expired(slot[i])
                                THEN [slot[i] EXCEPT !.state = "tombstone"]
                                ELSE slot[i]]
    /\ seen' = [k \in Keys |-> IF \E i \in Slots : slot[i].key = k /\ Expired(slot[i])
                               THEN 0 ELSE seen[k]]
    /\ UNCHANGED <<now, dropped>>

\* VH_CLEAR_STATS: a zeroed table takes its place.
ClearPortStats ==
    /\ slot' = [i \in Slots |-> Empty]
    /\ seen' = [k \in Keys |-> 0]
    /\ dropped' = 0
    /\ now' = now

Tick ==
    /\ now < MaxTime
    /\ now' = now + 1
    /\ UNCHANGED <<slot, dropped, seen>>

-----------------------------------------------------------------------------
PortTypes ==
    /\ slot \in [Slots -> [state : {"empty", "used", "tombstone"},
                           key : Keys \cup {NoKey}, count : 0..MaxSeen,
                           last : 0..MaxTime]]
    /\ now \in 0..MaxTime
    /\ dropped \in 0..MaxDropped
    /\ seen \in [Keys -> 0..MaxSeen]

Used(k) == {i \in Slots : slot[i].state = "used" /\ slot[i].key = k}

\* The entry of a key is unique and holds every access recorded since it was
\* inserted: expiry, reuse of tombstones and collisions never split a key over
\* two entries, which would make the daemon report it twice.
OneEntryPerKey ==
    \A k \in Keys :
        /\ Cardinality(Used(k)) <= 1
        /\ \A i \in Used(k) : slot[i].count = seen[k]

\* No empty slot lies on the probe path before a used entry, so that probing
\* always finds it and makes no second one.  Types are included.
EntriesAreReachable ==
    /\ PortTypes
    /\ OneEntryPerKey
    /\ \A k \in Keys, p \in Slots :
         Index(k, p) \in Used(k) =>
             \A q \in 0 .. p - 1 : slot[Index(k, q)].state # "empty"
=============================================================================
