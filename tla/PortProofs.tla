----------------------------- MODULE PortProofs -----------------------------
(***************************************************************************)
(* The kernel's two port structures, for every size.  The port table of    *)
(* the statistics keeps its structure for every capacity, every hash       *)
(* function and every set of keys, whatever hooks, clients, clears and     *)
(* policy changes do (KernelStats): no key has two entries, no entry is    *)
(* behind an empty slot of its probe path, and each counts what was        *)
(* recorded for it.  For every port range and every list of rules          *)
(* (PortRules), leaving the walk over sorted rules early loses no match,   *)
(* and the blocking complement blocks exactly what is not allowed.         *)
(***************************************************************************)
EXTENDS KernelStats, PortRules, TLAPS, FiniteSetTheorems, WellFoundedInduction

\* Every nonempty set of naturals has a smallest element.
LEMMA LeastElement ==
    ASSUME NEW T, T \subseteq Nat, T # {}
    PROVE  \E x \in T : \A y \in T : x <= y
<1> DEFINE R == OpToRel(<, Nat)
<1>1. IsWellFoundedOn(R, Nat)
  BY NatLessThanWellFounded
<1>2. ASSUME NEW x \in Nat, NEW y \in Nat, y < x PROVE <<y, x>> \in R
  BY <1>2 DEF OpToRel
<1> HIDE DEF R
<1>3. PICK x \in T : \A y \in T : ~ (<<y, x>> \in R)
  BY <1>1, WFMin
<1>4. ASSUME NEW y \in T PROVE x <= y
  <2>1. ~ (y < x)
    BY <1>2, <1>3
  <2> QED
    BY <2>1
<1> QED
  BY <1>4

\* The loop of record_port_intercept visits every slot, each of them once.
LEMMA ProbesVisitAll ==
    ASSUME NEW k \in Keys
    PROVE  /\ \A p \in Slots : Index(k, p) \in Slots
           /\ \A p, q \in Slots : Index(k, p) = Index(k, q) => p = q
           /\ \A i \in Slots : \E p \in Slots : Index(k, p) = i
<1> DEFINE h == Hash[k]
<1>1. h \in Slots /\ Capacity \in Nat \ {0}
  BY PortStatsAssumption DEF Slots
<1> HIDE DEF h
<1>2. ASSUME NEW p \in Slots
      PROVE  (h + p) % Capacity = IF h + p < Capacity THEN h + p ELSE h + p - Capacity
  BY <1>1 DEF Slots
<1>3. ASSUME NEW i \in Slots PROVE \E p \in Slots : (h + p) % Capacity = i
  <2>1. CASE i >= h
    <3>1. i - h \in Slots
      BY <1>1, <2>1 DEF Slots
    <3>2. (h + (i - h)) % Capacity = i
      BY <1>1, <1>2, <3>1 DEF Slots
    <3> QED
      BY <3>1, <3>2
  <2>2. CASE i < h
    <3>1. i - h + Capacity \in Slots
      BY <1>1, <2>2 DEF Slots
    <3>2. (h + (i - h + Capacity)) % Capacity = i
      BY <1>1, <1>2, <2>2, <3>1 DEF Slots
    <3> QED
      BY <3>1, <3>2
  <2> QED
    BY <1>1, <2>1, <2>2 DEF Slots
<1>4. \A p \in Slots : Index(k, p) = (h + p) % Capacity
  BY DEF Index, h
<1>5. \A p, q \in Slots : (h + p) % Capacity = (h + q) % Capacity => p = q
  BY <1>1, <1>2 DEF Slots
<1>6. \A p \in Slots : (h + p) % Capacity \in Slots
  BY <1>1, <1>2 DEF Slots
<1> QED
  BY <1>3, <1>4, <1>5, <1>6

\* Min is the least element of a nonempty set of naturals.
LEMMA MinIsLeast ==
    ASSUME NEW T, T \subseteq Nat, T # {}
    PROVE  Min(T) \in T /\ \A y \in T : Min(T) <= y
BY LeastElement DEF Min

\* Where the loop stops: at the first slot that holds the key or is empty.
LEMMA StopIsFirst ==
    ASSUME NEW k \in Keys
    PROVE  /\ StopProbe(k) \in 0..Capacity
           /\ StopProbe(k) < Capacity => Stops(k, StopProbe(k))
           /\ \A p \in Slots : p < StopProbe(k) => ~ Stops(k, p)
<1> DEFINE T == {Capacity} \cup {p \in Slots : Stops(k, p)}
<1>1. T \subseteq Nat /\ T # {} /\ Capacity \in Nat \ {0}
  BY PortStatsAssumption DEF Slots
<1>2. StopProbe(k) \in T /\ \A y \in T : StopProbe(k) <= y
  BY <1>1, MinIsLeast DEF StopProbe
<1>3. \A p \in Slots : Stops(k, p) => StopProbe(k) <= p
  BY <1>2
<1>4. StopProbe(k) = Capacity \/ (StopProbe(k) \in Slots /\ Stops(k, StopProbe(k)))
  BY <1>2
<1> HIDE DEF T
<1> QED
  BY <1>1, <1>3, <1>4 DEF Slots

\* A set of slots without two different elements has at most one.
LEMMA AtMostOne ==
    ASSUME NEW S, S \subseteq Slots
    PROVE  Cardinality(S) <= 1 <=> \A i, j \in S : i = j
<1>1. IsFiniteSet(S)
  <2>1. IsFiniteSet(0 .. Capacity - 1)
    BY PortStatsAssumption, FS_Interval
  <2> QED
    BY <2>1, FS_Subset DEF Slots
<1>2. ASSUME \A i, j \in S : i = j PROVE Cardinality(S) <= 1
  <2>1. CASE S = {}
    BY <2>1, FS_EmptySet
  <2>2. CASE S # {}
    <3>1. PICK i \in S : TRUE
      BY <2>2
    <3>2. S = {i}
      BY <1>2, <3>1
    <3> QED
      BY <3>2, FS_Singleton
  <2> QED
    BY <2>1, <2>2
<1>3. ASSUME Cardinality(S) <= 1, NEW i \in S, NEW j \in S, i # j PROVE FALSE
  <2>1. Cardinality(S \ {i}) = Cardinality(S) - 1 /\ IsFiniteSet(S \ {i})
    BY <1>1, FS_RemoveElement
  <2>2. Cardinality(S) \in Nat /\ Cardinality(S \ {i}) \in Nat
    BY <1>1, <2>1, FS_CardinalityType
  <2>3. Cardinality(S \ {i}) = 0
    BY <1>3, <2>1, <2>2
  <2>4. S \ {i} = {}
    BY <2>1, <2>3, FS_EmptySet
  <2> QED
    BY <1>3, <2>4
<1> QED
  BY <1>2, <1>3

\* Probing as the loop does finds the entry of a key if it has one.
LEMMA ProbingFinds ==
    ASSUME EntriesAreReachable, NEW k \in Keys, Used(k) # {}
    PROVE  StopProbe(k) < Capacity /\ Index(k, StopProbe(k)) \in Used(k)
<1>1. PICK i \in Used(k) : TRUE
  OBVIOUS
<1>2. i \in Slots /\ slot[i].state = "used" /\ slot[i].key = k
  BY <1>1 DEF Used
<1>3. PICK p \in Slots : Index(k, p) = i
  BY <1>2, ProbesVisitAll
<1>4. Stops(k, p)
  BY <1>2, <1>3 DEF Stops
<1>5. StopProbe(k) \in 0..p /\ StopProbe(k) \in Slots /\ Stops(k, StopProbe(k))
  BY <1>4, StopIsFirst, PortStatsAssumption DEF Slots
<1>6. Index(k, StopProbe(k)) \in Slots
  BY <1>5, ProbesVisitAll
<1>7. CASE StopProbe(k) = p
  BY <1>1, <1>3, <1>5, <1>7, PortStatsAssumption DEF Slots
<1>8. CASE StopProbe(k) # p
  <2>1. StopProbe(k) \in 0 .. p - 1
    BY <1>5, <1>8 DEF Slots
  <2>2. slot[Index(k, StopProbe(k))].state # "empty"
    BY <1>1, <1>3, <2>1 DEF EntriesAreReachable
  <2> QED
    BY <1>5, <1>6, <2>2, PortStatsAssumption DEF Stops, Used, Slots
<1> QED
  BY <1>7, <1>8

\* The slot a new entry goes to: it is not in use, and nothing empty comes before.
LEMMA PlaceIsFree ==
    ASSUME NEW k \in Keys, NEW place,
           place = (IF Tombstones(k) # {} THEN Min(Tombstones(k)) ELSE StopProbe(k)),
           place < Capacity,
           ~ (StopProbe(k) < Capacity /\ slot[Index(k, StopProbe(k))].state = "used")
    PROVE  /\ place \in Slots
           /\ slot[Index(k, place)].state # "used"
           /\ \A q \in 0 .. place - 1 : slot[Index(k, q)].state # "empty"
<1>1. StopProbe(k) \in 0..Capacity /\ Capacity \in Nat
  BY StopIsFirst, PortStatsAssumption
<1>2. CASE Tombstones(k) # {}
  <2>1. Tombstones(k) \subseteq Nat
    BY PortStatsAssumption DEF Tombstones, Slots
  <2>2. place \in Tombstones(k)
    BY <1>2, <2>1, MinIsLeast
  <2>3. place \in Slots /\ place < StopProbe(k) /\ slot[Index(k, place)].state = "tombstone"
    BY <2>2 DEF Tombstones
  <2>4. \A q \in 0 .. place - 1 : q \in Slots /\ q < StopProbe(k)
    BY <1>1, <2>3 DEF Slots
  <2> QED
    BY <2>3, <2>4, StopIsFirst DEF Stops
<1>3. CASE Tombstones(k) = {}
  <2>1. place = StopProbe(k) /\ place \in Slots
    BY <1>1, <1>3 DEF Slots
  <2>2. \A q \in 0 .. place - 1 : q \in Slots /\ q < StopProbe(k)
    BY <1>1, <2>1 DEF Slots
  <2> QED
    BY <2>1, <2>2, StopIsFirst DEF Stops
<1> QED
  BY <1>2, <1>3
\* The structure in terms of single slots, without counting.
Structure(s, n) ==
    /\ \A k \in Keys, i, j \in Slots :
         (s[i].state = "used" /\ s[i].key = k /\ s[j].state = "used" /\ s[j].key = k)
           => i = j /\ s[i].count = n[k]
    /\ \A k \in Keys, p \in Slots :
         (s[Index(k, p)].state = "used" /\ s[Index(k, p)].key = k)
           => \A q \in 0 .. p - 1 : s[Index(k, q)].state # "empty"

\* The property in the shape the proofs use.
LEMMA StructureSays == EntriesAreReachable <=> PortTypes /\ Structure(slot, seen)
<1>1. ASSUME NEW k \in Keys
      PROVE  (Cardinality(Used(k)) <= 1 /\ \A i \in Used(k) : slot[i].count = seen[k])
               <=> \A i, j \in Used(k) : i = j /\ slot[i].count = seen[k]
  <2>1. Used(k) \subseteq Slots
    BY DEF Used
  <2> QED
    BY <2>1, AtMostOne
<1>2. OneEntryPerKey <=> \A k \in Keys : \A i, j \in Used(k) : i = j /\ slot[i].count = seen[k]
  BY <1>1 DEF OneEntryPerKey
<1>3. \A k \in Keys, p \in Slots : Index(k, p) \in Slots
  BY ProbesVisitAll
<1> QED
  BY <1>2, <1>3 DEF EntriesAreReachable, Structure, Used

\* The same after a step.
LEMMA StructureSaysNext == EntriesAreReachable' <=> PortTypes' /\ Structure(slot', seen')
<1>1. ASSUME NEW k \in Keys
      PROVE  (Cardinality(Used(k)') <= 1 /\ \A i \in Used(k)' : slot'[i].count = seen'[k])
               <=> \A i, j \in Used(k)' : i = j /\ slot'[i].count = seen'[k]
  <2>1. Used(k)' \subseteq Slots
    BY DEF Used
  <2> QED
    BY <2>1, AtMostOne
<1>2. OneEntryPerKey' <=> \A k \in Keys : \A i, j \in Used(k)' : i = j /\ slot'[i].count = seen'[k]
  BY <1>1 DEF OneEntryPerKey
<1>3. \A k \in Keys, p \in Slots : Index(k, p) \in Slots
  BY ProbesVisitAll
<1> QED
  BY <1>2, <1>3 DEF EntriesAreReachable, Structure, Used, Index

\* record_port_intercept: an access to a key with an entry, to one without, and
\* to one for which there is no room.
LEMMA RecordKeepsEntries ==
    ASSUME EntriesAreReachable, NEW k \in Keys, record_port_intercept(k)
    PROVE  EntriesAreReachable'
<1> DEFINE stop == StopProbe(k)
           found == stop < Capacity /\ slot[Index(k, stop)].state = "used"
           place == IF Tombstones(k) # {} THEN Min(Tombstones(k)) ELSE stop
<1>1. PortTypes /\ Structure(slot, seen)
  BY StructureSays
<1>2. now' = now /\ seen[k] < MaxSeen
  BY DEF record_port_intercept
<1>3. stop \in 0..Capacity /\ (stop < Capacity => stop \in Slots /\ Index(k, stop) \in Slots)
  BY StopIsFirst, ProbesVisitAll, PortStatsAssumption DEF Slots
<1>4. CASE found
  <2> DEFINE i == Index(k, stop)
  <2>1. /\ slot' = [slot EXCEPT ![i].count = @ + 1, ![i].last = now]
        /\ seen' = [seen EXCEPT ![k] = @ + 1] /\ dropped' = dropped
    BY <1>4 DEF record_port_intercept
  <2>2. i \in Slots /\ slot[i].state = "used" /\ slot[i].key = k
    BY <1>3, <1>4, StopIsFirst DEF Stops
  <2> HIDE DEF i, found, stop, place
  <2>3. slot[i].count = seen[k]
    BY <1>1, <2>2 DEF Structure
  <2>4. PortTypes'
    <3>1. seen[k] + 1 \in 0..MaxSeen /\ now \in 0..MaxTime
      BY <1>1, <1>2, PortStatsAssumption DEF PortTypes
    <3>2. slot' = [slot EXCEPT ![i] = [slot[i] EXCEPT !.count = seen[k] + 1, !.last = now]]
      BY <1>1, <2>1, <2>2, <2>3 DEF PortTypes
    <3> DEFINE Entry == [state : {"empty", "used", "tombstone"}, key : Keys \cup {NoKey},
                         count : 0..MaxSeen, last : 0..MaxTime]
    <3>3. slot \in [Slots -> Entry] /\ slot[i] \in Entry
      BY <1>1, <2>2 DEF PortTypes
    <3>4. [slot[i] EXCEPT !.count = seen[k] + 1, !.last = now] \in Entry
      BY <3>1, <3>3
    <3>5. slot' \in [Slots -> Entry]
      BY <2>2, <3>2, <3>3, <3>4
    <3>6. seen' \in [Keys -> 0..MaxSeen]
      BY <1>1, <2>1, <3>1 DEF PortTypes
    <3> QED
      BY <1>1, <1>2, <2>1, <3>5, <3>6 DEF PortTypes
  <2>5. \A j \in Slots : /\ slot'[j].state = slot[j].state /\ slot'[j].key = slot[j].key
                         /\ j # i => slot'[j].count = slot[j].count
                         /\ slot'[i].count = slot[i].count + 1
    BY <1>1, <2>1, <2>2 DEF PortTypes
  <2>6. \A q \in Keys : seen'[q] = IF q = k THEN seen[q] + 1 ELSE seen[q]
    BY <1>1, <2>1 DEF PortTypes
  <2>7. \A q \in Keys, p \in Slots : Index(q, p) \in Slots
    BY ProbesVisitAll
  <2>8. ASSUME NEW q \in Keys, NEW a \in Slots, NEW b \in Slots,
               slot'[a].state = "used", slot'[a].key = q,
               slot'[b].state = "used", slot'[b].key = q
        PROVE  a = b /\ slot'[a].count = seen'[q]
    <3>1. a = b /\ slot[a].count = seen[q]
      BY <1>1, <2>5, <2>8 DEF Structure
    <3>2. a = i <=> q = k
      BY <1>1, <2>2, <2>5, <2>8 DEF Structure
    <3> QED
      BY <2>5, <2>6, <3>1, <3>2
  <2>9. ASSUME NEW q \in Keys, NEW p \in Slots, slot'[Index(q, p)].state = "used",
               slot'[Index(q, p)].key = q, NEW r \in 0 .. p - 1
        PROVE  slot'[Index(q, r)].state # "empty"
    <3>1. r \in Slots
      BY PortStatsAssumption DEF Slots
    <3>2. slot[Index(q, p)].state = "used" /\ slot[Index(q, p)].key = q
      BY <2>5, <2>7, <2>9
    <3>3. slot[Index(q, r)].state # "empty"
      BY <1>1, <3>2 DEF Structure
    <3> QED
      BY <2>5, <2>7, <3>1, <3>3
  <2>10. Structure(slot', seen')
    BY <2>8, <2>9 DEF Structure
  <2> QED
    BY <2>4, <2>10, StructureSaysNext
<1>5. CASE ~ found /\ place < Capacity
  <2> DEFINE i == Index(k, place)
  <2>1. /\ slot' = [slot EXCEPT ![i] = Fresh(k)]
        /\ seen' = [seen EXCEPT ![k] = 1] /\ dropped' = dropped
    <3>1. \A p : p < Capacity => p # Capacity
      BY PortStatsAssumption
    <3> QED
      BY <1>5, <3>1, Zenon DEF record_port_intercept
  <2>2. /\ place \in Slots /\ slot[i].state # "used"
        /\ \A q \in 0 .. place - 1 : slot[Index(k, q)].state # "empty"
    BY <1>5, PlaceIsFree
  <2>3. Used(k) = {}
    BY <1>5, ProbingFinds DEF Used
  <2> HIDE DEF found, stop, place
  <2>4. i \in Slots /\ \A q \in Keys, p \in Slots : Index(q, p) \in Slots
    BY <2>2, ProbesVisitAll
  <2>5. \A p \in Slots : Index(k, p) = i => p = place
    BY <2>2, ProbesVisitAll
  <2> HIDE DEF i
  <2>6. PortTypes'
    BY <1>1, <1>2, <2>1, <2>4, PortStatsAssumption DEF PortTypes, Fresh
  <2>7. \A j \in Slots : slot'[j] = IF j = i THEN Fresh(k) ELSE slot[j]
    BY <1>1, <2>1 DEF PortTypes
  <2>8. /\ Fresh(k).state = "used" /\ Fresh(k).key = k /\ Fresh(k).count = 1
        /\ \A q \in Keys : seen'[q] = IF q = k THEN 1 ELSE seen[q]
    BY <1>1, <2>1 DEF PortTypes, Fresh
  <2>9. ASSUME NEW q \in Keys, NEW a \in Slots, NEW b \in Slots,
               slot'[a].state = "used", slot'[a].key = q,
               slot'[b].state = "used", slot'[b].key = q
        PROVE  a = b /\ slot'[a].count = seen'[q]
    <3>1. CASE q = k
      <4>1. a = i /\ b = i
        BY <2>3, <2>7, <2>9, <3>1 DEF Used
      <4> QED
        BY <2>7, <2>8, <3>1, <4>1
    <3>2. CASE q # k
      <4>1. a # i /\ b # i
        BY <2>7, <2>8, <2>9, <3>2
      <4> QED
        BY <1>1, <2>7, <2>8, <2>9, <3>2, <4>1 DEF Structure
    <3> QED
      BY <3>1, <3>2
  <2>10. ASSUME NEW q \in Keys, NEW p \in Slots, slot'[Index(q, p)].state = "used",
                slot'[Index(q, p)].key = q, NEW r \in 0 .. p - 1
         PROVE  slot'[Index(q, r)].state # "empty"
    <3>1. r \in Slots
      BY PortStatsAssumption DEF Slots
    <3>2. slot[Index(q, r)].state # "empty" => slot'[Index(q, r)].state # "empty"
      BY <2>4, <2>7, <2>8, <3>1
    <3>3. CASE Index(q, p) = i
      <4>1. q = k /\ p = place
        BY <2>4, <2>5, <2>7, <2>8, <2>10, <3>3
      <4> QED
        BY <2>2, <3>2, <4>1
    <3>4. CASE Index(q, p) # i
      BY <1>1, <2>4, <2>7, <2>10, <3>2, <3>4 DEF Structure
    <3> QED
      BY <3>3, <3>4
  <2>11. Structure(slot', seen')
    BY <2>9, <2>10 DEF Structure
  <2> QED
    BY <2>6, <2>11, StructureSaysNext
<1>6. CASE ~ found /\ ~ (place < Capacity)
  <2>1. UNCHANGED <<slot, seen>> /\ dropped < MaxDropped /\ dropped' = dropped + 1
    BY <1>6 DEF record_port_intercept
  <2> HIDE DEF found, stop, place
  <2>2. PortTypes'
    BY <1>1, <1>2, <2>1, PortStatsAssumption DEF PortTypes
  <2> QED
    BY <1>1, <2>1, <2>2, StructureSaysNext
<1> QED
  BY <1>4, <1>5, <1>6

\* count_live_port_stats_locked: an entry that expires leaves a tombstone, which
\* keeps the paths through its slot.
LEMMA ExpiryKeepsEntries ==
    ASSUME EntriesAreReachable, count_live_port_stats_locked
    PROVE  EntriesAreReachable'
<1>1. PortTypes /\ Structure(slot, seen)
  BY StructureSays
<1>2. \A j \in Slots : slot'[j] = IF Expired(slot[j])
                                  THEN [slot[j] EXCEPT !.state = "tombstone"] ELSE slot[j]
  BY DEF count_live_port_stats_locked
<1>3. \A k \in Keys : seen'[k] = IF \E j \in Slots : slot[j].key = k /\ Expired(slot[j])
                                 THEN 0 ELSE seen[k]
  BY DEF count_live_port_stats_locked
<1>4. PortTypes'
  BY <1>1, PortStatsAssumption DEF PortTypes, count_live_port_stats_locked
<1>5. \A j \in Slots :
        /\ slot'[j].key = slot[j].key /\ slot'[j].count = slot[j].count
        /\ slot'[j].state = "used" => slot[j].state = "used" /\ ~ Expired(slot[j])
        /\ slot'[j].state = "empty" => slot[j].state = "empty"
  BY <1>1, <1>2 DEF PortTypes
<1>6. \A q \in Keys, p \in Slots : Index(q, p) \in Slots
  BY ProbesVisitAll
<1>7. ASSUME NEW q \in Keys, NEW a \in Slots, NEW b \in Slots,
             slot'[a].state = "used", slot'[a].key = q,
             slot'[b].state = "used", slot'[b].key = q
      PROVE  a = b /\ slot'[a].count = seen'[q]
  <2>1. a = b /\ slot[a].count = seen[q]
    BY <1>1, <1>5, <1>7 DEF Structure
  <2>2. ASSUME NEW j \in Slots, slot[j].key = q, Expired(slot[j]) PROVE FALSE
    <3>1. slot[j].state = "used"
      BY <2>2 DEF Expired
    <3>2. j = a
      BY <1>1, <1>5, <1>7, <2>2, <3>1 DEF Structure
    <3> QED
      BY <1>5, <1>7, <2>2, <3>2
  <2> QED
    BY <1>3, <1>5, <2>1, <2>2
<1>8. ASSUME NEW q \in Keys, NEW p \in Slots, slot'[Index(q, p)].state = "used",
             slot'[Index(q, p)].key = q, NEW r \in 0 .. p - 1
      PROVE  slot'[Index(q, r)].state # "empty"
  <2>1. r \in Slots
    BY PortStatsAssumption DEF Slots
  <2>2. slot[Index(q, p)].state = "used" /\ slot[Index(q, p)].key = q
    BY <1>5, <1>6, <1>8
  <2>3. slot[Index(q, r)].state # "empty"
    BY <1>1, <2>2 DEF Structure
  <2> QED
    BY <1>5, <1>6, <2>1, <2>3
<1>9. Structure(slot', seen')
  BY <1>7, <1>8 DEF Structure
<1> QED
  BY <1>4, <1>9, StructureSaysNext

\* The new table of VH_CLEAR_STATS is empty.
LEMMA ClearKeepsEntries ==
    ASSUME EntriesAreReachable, ClearPortStats
    PROVE  EntriesAreReachable'
<1>1. PortTypes
  BY StructureSays
<1>2. \A j \in Slots : slot'[j].state = "empty"
  BY DEF ClearPortStats, Empty
<1>3. PortTypes'
  BY <1>1, PortStatsAssumption DEF PortTypes, ClearPortStats, Empty
<1>4. \A q \in Keys, p \in Slots : Index(q, p) \in Slots
  BY ProbesVisitAll
<1>5. Structure(slot', seen')
  BY <1>2, <1>4 DEF Structure
<1> QED
  BY <1>3, <1>5, StructureSaysNext

\* What the entries depend on stays as it is.
LEMMA OthersKeepEntries ==
    ASSUME EntriesAreReachable, UNCHANGED <<slot, dropped, seen>>, now' \in 0..MaxTime
    PROVE  EntriesAreReachable'
<1>1. PortTypes /\ Structure(slot, seen)
  BY StructureSays
<1>2. PortTypes'
  BY <1>1 DEF PortTypes
<1> QED
  BY <1>1, <1>2, StructureSaysNext

\* A hook that is about to record in the port table has a key.
HooksHaveKeys ==
    /\ hook \in [Hooks -> [at : {"idle", "row", "port"}, uid : Uids \cup {None},
                           key : Keys \cup {NoKey}]]
    /\ \A h \in Hooks : hook[h].at = "port" => hook[h].key \in Keys

\* A hook keeps the key it was called with.
LEMMA HookKeysStep == HooksHaveKeys /\ [Next]_vars => HooksHaveKeys'
<1> SUFFICES ASSUME HooksHaveKeys, [Next]_vars PROVE HooksHaveKeys'
  OBVIOUS
<1>1. CASE UNCHANGED hook
  BY <1>1 DEF HooksHaveKeys
<1>2. ASSUME NEW h \in Hooks, Intercept(h) PROVE HooksHaveKeys'
  BY <1>2 DEF Intercept, HooksHaveKeys
<1>3. ASSUME NEW h \in Hooks, RecordRow(h) PROVE HooksHaveKeys'
  <2>1. hook' = [hook EXCEPT ![h] = IF hook[h].key # NoKey THEN [@ EXCEPT !.at = "port"]
                                    ELSE NoCall]
    BY <1>3 DEF RecordRow
  <2> QED
    BY <2>1 DEF HooksHaveKeys, NoCall
<1>4. ASSUME NEW h \in Hooks, RecordPort(h) \/ RecordJava(h) PROVE HooksHaveKeys'
  BY <1>4 DEF RecordPort, RecordJava, HooksHaveKeys, NoCall
<1>5. CASE \/ ReconcileRows \/ PublishPolicy \/ BeginClear \/ EndClear \/ StartRead
           \/ Look \/ EndRead \/ PassTime \/ UNCHANGED vars
  <2>1. UNCHANGED hook
    BY <1>5 DEF ReconcileRows, PublishPolicy, BeginClear, EndClear, StartRead, Look,
       FirstLook, FirstLookPorts, SecondLook, SecondLookPorts, EndRead, PassTime, vars
  <2> QED
    BY <1>1, <2>1
<1> QED
  BY <1>2, <1>3, <1>4, <1>5 DEF Next

\* Every step of every handler keeps the table in order.
LEMMA EntriesStep == HooksHaveKeys /\ EntriesAreReachable /\ [Next]_vars => EntriesAreReachable'
<1> SUFFICES ASSUME HooksHaveKeys, EntriesAreReachable, [Next]_vars
             PROVE  EntriesAreReachable'
  OBVIOUS
<1>0. now \in 0..MaxTime /\ MaxTime \in Nat
  BY PortStatsAssumption DEF EntriesAreReachable, PortTypes
<1>1. ASSUME UNCHANGED portVars PROVE EntriesAreReachable'
  BY <1>0, <1>1, OthersKeepEntries DEF portVars
<1>2. ASSUME NEW h \in Hooks, RecordPort(h) PROVE EntriesAreReachable'
  <2>1. hook[h].key \in Keys /\ record_port_intercept(hook[h].key)
    BY <1>2 DEF RecordPort, HooksHaveKeys
  <2> QED
    BY <2>1, RecordKeepsEntries
<1>3. CASE EndClear
  BY <1>3, ClearKeepsEntries DEF EndClear
<1>4. CASE FirstLookPorts \/ SecondLookPorts
  <2>1. count_live_port_stats_locked
    BY <1>4 DEF FirstLookPorts, SecondLookPorts
  <2> QED
    BY <2>1, ExpiryKeepsEntries
<1>5. CASE PassTime
  BY <1>0, <1>5, OthersKeepEntries DEF PassTime, Tick
<1>6. ASSUME NEW h \in Hooks, Intercept(h) \/ RecordRow(h) \/ RecordJava(h)
      PROVE  EntriesAreReachable'
  <2>1. UNCHANGED portVars
    BY <1>6 DEF Intercept, RecordRow, RecordJava
  <2> QED
    BY <1>1, <2>1
<1>7. CASE \/ ReconcileRows \/ PublishPolicy \/ BeginClear \/ StartRead \/ FirstLook
           \/ SecondLook \/ EndRead \/ UNCHANGED vars
  <2>1. UNCHANGED portVars
    BY <1>7 DEF ReconcileRows, PublishPolicy, BeginClear, StartRead, FirstLook, SecondLook,
       EndRead, vars
  <2> QED
    BY <1>1, <2>1
<1> QED
  BY <1>2, <1>3, <1>4, <1>5, <1>6, <1>7 DEF Next, Look

\* record_port_intercept always finds the entry of a key if there is one, makes
\* at most one and loses no count, for every capacity, hash function and order of
\* accesses, expiry, snapshots and clears.
THEOREM PortEntriesStayReachable == Spec => []EntriesAreReachable
<1>1. Init => EntriesAreReachable /\ HooksHaveKeys
  <2> SUFFICES ASSUME Init PROVE EntriesAreReachable /\ HooksHaveKeys
    OBVIOUS
  <2>1. PortTypes
    BY PortStatsAssumption DEF Init, InitPorts, PortTypes, Empty
  <2>2. \A j \in Slots : slot[j].state = "empty"
    BY DEF Init, InitPorts, Empty
  <2>3. \A q \in Keys, p \in Slots : Index(q, p) \in Slots
    BY ProbesVisitAll
  <2>4. Structure(slot, seen)
    BY <2>2, <2>3 DEF Structure
  <2>5. HooksHaveKeys
    BY DEF Init, HooksHaveKeys, NoCall
  <2> QED
    BY <2>1, <2>4, <2>5, StructureSays
<1> QED
  BY <1>1, HookKeysStep, EntriesStep, PTL DEF Spec

-----------------------------------------------------------------------------
(* The rules of a policy snapshot.                                        *)

\* should_block_port leaves its loop at the first rule that begins behind the
\* port: in a list sorted by policy_port_rule_cmp no later rule can match.
THEOREM EarlyExitLosesNoMatch ==
    ASSUME NEW rules \in Seq(Rules), RulesSorted(rules),
           NEW port \in Ports, NEW proto \in Protocols
    PROVE  should_block_port(rules, port, proto)
             <=> \E i \in 1 .. Len(rules) : RuleMatches(rules[i], port, proto)
<1>1. ASSUME NEW i \in 1 .. Len(rules), RuleMatches(rules[i], port, proto),
             NEW j \in 1 .. i - 1
      PROVE  rules[j].start <= port
  <2>1. j \in 1 .. Len(rules) /\ j <= i
    OBVIOUS
  <2>2. rules[i] \in Rules /\ rules[j] \in Rules
    BY <2>1
  <2>3. RuleLeq(rules[j], rules[i])
    BY <2>1 DEF RulesSorted
  <2>4. rules[j].start <= rules[i].start
    BY <2>2, <2>3 DEF RuleLeq, Rules, Ports
  <2>5. rules[i].start <= port
    BY <1>1, <2>2 DEF RuleMatches, Rules, Ports
  <2> QED
    BY <2>2, <2>4, <2>5, MaxPortAssumption DEF Rules, Ports
<1> QED
  BY <1>1 DEF should_block_port

\* What the scan notes for a port says which protocols are blocked there.
LEMMA BlockedAtSays ==
    ASSUME NEW allowed \in SUBSET Rules, NEW port \in Ports, NEW proto \in Protocols
    PROVE  (BlockedAt(allowed, port) = BOTH \/ BlockedAt(allowed, port) = proto)
             <=> ~ port_rule_allows(allowed, port, proto)
<1>1. ~ (port > MaxPort)
  BY MaxPortAssumption DEF Ports
<1>2. CASE proto = TCP
  BY <1>1, <1>2 DEF BlockedAt, TCP, UDP, BOTH, Nothing
<1>3. CASE proto = UDP
  BY <1>1, <1>3 DEF BlockedAt, TCP, UDP, BOTH, Nothing
<1> QED
  BY <1>2, <1>3 DEF Protocols

\* The range that holds a blocked port begins where the protocol changed.
LEMMA RangeStart ==
    ASSUME NEW allowed \in SUBSET Rules, NEW port \in Ports
    PROVE  \E s \in 0..port :
              /\ \A p \in s..port : BlockedAt(allowed, p) = BlockedAt(allowed, port)
              /\ s = 0 \/ BlockedAt(allowed, s - 1) # BlockedAt(allowed, port)
<1> DEFINE b(p) == BlockedAt(allowed, p)
           S == {s \in 0..port : \A p \in s..port : b(p) = b(port)}
<1> HIDE DEF b
<1>0. port \in Nat
  BY MaxPortAssumption DEF Ports
<1>1. S \subseteq Nat /\ port \in S
  BY <1>0
<1>2. PICK s \in S : \A t \in S : s <= t
  <2> HIDE DEF S
  <2> QED
    BY <1>1, LeastElement
<1>3. s = 0 \/ b(s - 1) # b(port)
  <2>1. SUFFICES ASSUME s # 0, b(s - 1) = b(port) PROVE FALSE
    OBVIOUS
  <2>2. s \in Nat /\ s - 1 \in 0..port
    BY <1>0, <2>1
  <2>3. ASSUME NEW p \in (s - 1)..port PROVE b(p) = b(port)
    <3>1. p = s - 1 \/ p \in s..port
      BY <2>2, <1>0
    <3> QED
      BY <3>1, <2>1
  <2>4. s - 1 \in S
    BY <2>2, <2>3
  <2>5. s <= s - 1
    BY <2>4, <1>2
  <2> QED
    BY <2>2, <2>5
<1> QED
  BY <1>2, <1>3 DEF b

\* It ends before the protocol changes again, at the last port at the latest.
LEMMA RangeEnd ==
    ASSUME NEW allowed \in SUBSET Rules, NEW port \in Ports,
           BlockedAt(allowed, port) # Nothing
    PROVE  \E e \in port..MaxPort :
              /\ \A p \in port..e : BlockedAt(allowed, p) = BlockedAt(allowed, port)
              /\ BlockedAt(allowed, e + 1) # BlockedAt(allowed, port)
<1> DEFINE b(p) == BlockedAt(allowed, p)
           E == {e \in port..MaxPort : b(e + 1) # b(port)}
<1>0. port \in Nat /\ MaxPort \in Nat /\ port <= MaxPort
  BY MaxPortAssumption DEF Ports
<1>1. b(MaxPort + 1) = Nothing
  BY <1>0 DEF BlockedAt
<1>2. b(port) # Nothing
  OBVIOUS
<1> HIDE DEF b
<1>3. E \subseteq Nat /\ MaxPort \in E
  BY <1>0, <1>1, <1>2
<1>4. PICK e \in E : \A f \in E : e <= f
  <2> HIDE DEF E
  <2> QED
    BY <1>3, LeastElement
<1>5. ASSUME NEW p \in port..e, b(p) # b(port) PROVE FALSE
  <2>1. p \in Nat /\ p # port /\ p - 1 \in port..MaxPort /\ (p - 1) + 1 = p
    BY <1>0, <1>5
  <2>2. p - 1 \in E
    BY <2>1, <1>5
  <2>3. e <= p - 1
    BY <2>2, <1>4
  <2> QED
    BY <2>1, <2>3, <1>0
<1> QED
  BY <1>4, <1>5 DEF b

\* resolve_allowlist_exception_rules: an access to a port is blocked by the
\* compiled rules exactly when none of the rules the user gave allows it.
THEOREM ComplementIsExact ==
    ASSUME NEW allowed \in SUBSET Rules, NEW port \in Ports, NEW proto \in Protocols
    PROVE  (\E r \in BlockingComplement(allowed) : RuleMatches(r, port, proto))
             <=> ~ port_rule_allows(allowed, port, proto)
<1>0. port \in Nat /\ MaxPort \in Nat /\ port <= MaxPort
  BY MaxPortAssumption DEF Ports
<1>1. ASSUME NEW r \in BlockingComplement(allowed), RuleMatches(r, port, proto)
      PROVE  ~ port_rule_allows(allowed, port, proto)
  <2>1. r \in Rules /\ IsRange(allowed, r.start, r.end)
        /\ r.protocol = BlockedAt(allowed, r.start)
    BY DEF BlockingComplement
  <2>2. port \in r.start .. r.end
    BY <1>0, <1>1, <2>1 DEF RuleMatches, Rules, Ports
  <2>3. BlockedAt(allowed, port) = r.protocol
    BY <2>1, <2>2 DEF IsRange
  <2> QED
    BY <1>1, <2>3, BlockedAtSays DEF RuleMatches
<1>2. ASSUME ~ port_rule_allows(allowed, port, proto)
      PROVE  \E r \in BlockingComplement(allowed) : RuleMatches(r, port, proto)
  <2>1. BlockedAt(allowed, port) = BOTH \/ BlockedAt(allowed, port) = proto
    BY <1>2, BlockedAtSays
  <2>2. BlockedAt(allowed, port) # Nothing
    BY <2>1 DEF Protocols, TCP, UDP, BOTH, Nothing
  <2>3. PICK s \in 0..port :
           /\ \A p \in s..port : BlockedAt(allowed, p) = BlockedAt(allowed, port)
           /\ s = 0 \/ BlockedAt(allowed, s - 1) # BlockedAt(allowed, port)
    BY RangeStart
  <2>4. PICK e \in port..MaxPort :
           /\ \A p \in port..e : BlockedAt(allowed, p) = BlockedAt(allowed, port)
           /\ BlockedAt(allowed, e + 1) # BlockedAt(allowed, port)
    BY <2>2, RangeEnd
  <2> DEFINE r == [start |-> s, end |-> e, protocol |-> BlockedAt(allowed, port)]
  <2>5. BlockedAt(allowed, s) = BlockedAt(allowed, port)
    BY <1>0, <2>3
  <2>6. IsRange(allowed, s, e)
    <3>1. ASSUME NEW p \in s..e PROVE BlockedAt(allowed, p) = BlockedAt(allowed, port)
      <4>1. p \in s..port \/ p \in port..e
        BY <1>0
      <4> QED
        BY <4>1, <2>3, <2>4
    <3>2. s <= e
      BY <1>0
    <3> QED
      BY <3>1, <3>2, <2>2, <2>3, <2>4, <2>5 DEF IsRange
  <2>7. r \in Rules
    BY <1>0, <2>1 DEF Rules, Ports, Protocols
  <2>8. r \in BlockingComplement(allowed)
    BY <2>5, <2>6, <2>7 DEF BlockingComplement
  <2>9. RuleMatches(r, port, proto)
    BY <1>0, <2>1 DEF RuleMatches
  <2> QED
    BY <2>8, <2>9
<1> QED
  BY <1>1, <1>2
=============================================================================
