-------------------------- MODULE StatsRingProofs --------------------------
(***************************************************************************)
(* The daemon's history of intercepts, for every number of UIDs, every     *)
(* size of the ring, every retention time and every bound: the ring is a   *)
(* window of the points appended, its points never report an access twice, *)
(* and without a clear or a pruned row they report all of them.            *)
(***************************************************************************)
EXTENDS StatsRing, TLAPS, WellFoundedInduction

\* The counter of u in a table; one that is not there counts as 0.
Value(f, u) == Old(f, f, u)

\* What append_stats_point makes of u with cur for counters and prev as baseline.
Delta(cur, prev, u) == stats_delta(Value(cur, u), Value(prev, u))

Totals ==
    /\ occurred \in [Uids -> 0..MaxEvents]
    /\ since \in [Uids -> 0..MaxEvents]
    /\ credited \in [Uids -> Nat]

\* The accesses since the snapshot under way are some of those since the gap.
SinceIsRecent ==
    /\ spc # "ports" => since = Zero
    /\ \A u \in Uids : since[u] <= occurred[u]

\* What the points report of u and what the next one would add, from the counters
\* as they are or from the snapshot under way, never exceeds what occurred.
Covered(u) ==
    /\ ~baseline_valid => credited[u] = 0
    /\ baseline_valid => credited[u] + Delta(rows, previous, u) <= occurred[u]
    /\ spc = "ports" => Delta(rows, scur, u) <= since[u]
    /\ spc = "ports" /\ baseline_valid =>
         credited[u] + Delta(scur, previous, u) + Delta(rows, scur, u) <= occurred[u]

\* Undisturbed, the counters only grow and account for every access: since the
\* baseline, and since the snapshot under way.
Balanced(u) ==
    baseline_valid /\ disturbed = "none" =>
        /\ occurred[u] = credited[u] + (Value(rows, u) - Value(previous, u))
        /\ Value(previous, u) <= Value(rows, u)

Sampled(u) ==
    /\ spc = "ports" /\ disturbed # "unseen" =>
         since[u] = Value(rows, u) - Value(scur, u)
    /\ spc = "ports" /\ disturbed = "none" /\ baseline_valid =>
         Value(previous, u) <= Value(scur, u)

Exact(u) == Balanced(u) /\ Sampled(u)

Accounts == \A u \in Uids : Covered(u) /\ Exact(u)

\* The ring holds the newest points in order.
Window ==
    /\ dropped_intervals + count = appended
    /\ \A n \in 0 .. count - 1 : PointAt(n).id = dropped_intervals + n + 1

IInv == TypeOK /\ Totals /\ SinceIsRecent /\ Accounts /\ Window
-----------------------------------------------------------------------------

\* Counters are naturals, and so is a counter that is not there.
LEMMA ValueIsNat ==
    ASSUME NEW f, NEW max \in Nat, Counts(f, max), NEW u
    PROVE  Value(f, u) \in Nat
  BY DEF Value, Old, Counts

\* A difference is a natural, and grows by at most one with its counter.
LEMMA DeltaIsNat ==
    ASSUME NEW now \in Nat, NEW old \in Nat
    PROVE  stats_delta(now, old) \in Nat /\ stats_delta(now + 1, old) <= stats_delta(now, old) + 1
  BY DEF stats_delta

\* The counters after record_kmod_intercept.
LEMMA BumpedValue ==
    ASSUME NEW f, NEW max \in Nat \ {0}, Counts(f, max), NEW u \in Uids,
           u \in DOMAIN f => f[u] < max
    PROVE  /\ Counts(Bumped(f, u), max)
           /\ \A v : Value(Bumped(f, u), v) = IF v = u THEN Value(f, v) + 1 ELSE Value(f, v)
<1>1. ASSUME NEW v
      PROVE  Value(Bumped(f, u), v) = IF v = u THEN Value(f, v) + 1 ELSE Value(f, v)
  BY DEF Value, Old, Bumped, Counts
<1>2. \A v \in DOMAIN Bumped(f, u) : v \in Uids /\ Bumped(f, u)[v] \in 0..max
  BY DEF Bumped, Counts
<1> QED
  BY <1>1, <1>2 DEF Counts

\* What a point reports of u is the difference of its counters.
LEMMA DeltasValue ==
    ASSUME NEW prev, NEW cur, NEW max \in Nat, NEW keep,
           Counts(prev, max), Counts(cur, max)
    PROVE  /\ Counts(Deltas(prev, cur, keep), max)
           /\ \A u : Value(Deltas(prev, cur, keep), u) = Delta(cur, prev, u)
<1>1. ASSUME NEW u \in DOMAIN cur
      PROVE  /\ stats_delta(cur[u], Old(prev, cur, u)) \in 0..max
             /\ Delta(cur, prev, u) = stats_delta(cur[u], Old(prev, cur, u))
  BY DEF stats_delta, Old, Counts, Delta, Value
<1>2. ASSUME NEW u, u \notin DOMAIN cur PROVE Delta(cur, prev, u) = 0
  BY <1>2, ValueIsNat DEF stats_delta, Delta, Value, Old
<1>3. \A u \in DOMAIN Deltas(prev, cur, keep) :
         u \in DOMAIN cur /\ Deltas(prev, cur, keep)[u] = stats_delta(cur[u], Old(prev, cur, u))
  BY DEF Deltas
<1>4. \A u \in DOMAIN cur \ DOMAIN Deltas(prev, cur, keep) :
         stats_delta(cur[u], Old(prev, cur, u)) = 0
  BY DEF Deltas
<1>5. Counts(Deltas(prev, cur, keep), max)
  BY <1>1, <1>3 DEF Counts
<1>6. ASSUME NEW u PROVE Value(Deltas(prev, cur, keep), u) = Delta(cur, prev, u)
  BY <1>1, <1>2, <1>3, <1>4 DEF Value, Old
<1> QED
  BY <1>5, <1>6

-----------------------------------------------------------------------------
(* The ring.                                                               *)

\* Max over a bounded set of naturals: the least distance to the bound.
LEMMA MaxIsGreatest ==
    ASSUME NEW b \in Nat, NEW T, T \subseteq 0..b, T # {}
    PROVE  Max(T) \in T /\ \A y \in T : y <= Max(T)
<1> DEFINE R == OpToRel(<, Nat)
           D == {d \in 0..b : b - d \in T}
<1>1. IsWellFoundedOn(R, Nat)
  BY NatLessThanWellFounded
<1>2. ASSUME NEW x \in Nat, NEW y \in Nat, y < x PROVE <<y, x>> \in R
  BY <1>2 DEF OpToRel
<1> HIDE DEF R
<1>3. \A y \in T : b - y \in D
  BY Z3
<1>4. D \subseteq Nat /\ D # {}
  <2>1. PICK y \in T : TRUE
    OBVIOUS
  <2>2. b - y \in D
    BY <1>3
  <2>3. D \subseteq Nat
    OBVIOUS
  <2> QED
    BY <2>2, <2>3
<1>5. PICK d \in D : \A e \in D : ~ (<<e, d>> \in R)
  BY <1>1, <1>4, WFMin
<1>6. \A y \in T : y <= b - d
  <2>1. ASSUME NEW y \in T PROVE y <= b - d
    <3>1. b - y \in D /\ b - y \in Nat /\ d \in Nat /\ y \in Nat
      BY <1>3
    <3>2. ~ (b - y < d)
      BY <1>2, <1>5, <3>1
    <3> QED
      BY <3>1, <3>2
  <2> QED
    BY <2>1
<1> QED
  BY <1>5, <1>6 DEF Max

\* The index arithmetic of the ring.
LEMMA SlotAt ==
    ASSUME NEW h \in Slots, NEW n \in 0..Points
    PROVE  /\ (h + n) % Points = IF h + n < Points THEN h + n ELSE h + n - Points
           /\ (h + n) % Points \in Slots
  BY StatsRingAssumption DEF Slots

\* Slots less than a whole turn apart are different.
LEMMA SlotsDiffer ==
    ASSUME NEW h \in Slots, NEW m \in 0 .. Points - 1, NEW n \in 0 .. Points - 1,
           (h + m) % Points = (h + n) % Points
    PROVE  m = n
<1>1. m \in 0..Points /\ n \in 0..Points /\ Points \in Nat /\ h \in 0 .. Points - 1
  BY StatsRingAssumption DEF Slots
<1>2. (h + m) % Points = IF h + m < Points THEN h + m ELSE h + m - Points
  BY <1>1, SlotAt
<1>3. (h + n) % Points = IF h + n < Points THEN h + n ELSE h + n - Points
  BY <1>1, SlotAt
<1> DEFINE x == (h + m) % Points
<1>4. x = (h + n) % Points
  OBVIOUS
<1> HIDE DEF x
<1> QED
  BY <1>1, <1>2, <1>3

\* Going round from a later head is going round from the head.
LEMMA SlotShift ==
    ASSUME NEW h \in Slots, NEW g \in 0..Points, NEW n \in 0..Points, g + n <= Points
    PROVE  (((h + g) % Points) + n) % Points = (h + (g + n)) % Points
<1> DEFINE x == (h + g) % Points
<1>1. g + n \in 0..Points /\ Points \in Nat \ {0} /\ h \in 0 .. Points - 1
  BY StatsRingAssumption DEF Slots
<1>2. (h + (g + n)) % Points = IF h + (g + n) < Points THEN h + (g + n) ELSE h + (g + n) - Points
  BY <1>1, SlotAt
<1>3. x \in Slots /\ x = IF h + g < Points THEN h + g ELSE h + g - Points
  BY <1>1, SlotAt
<1> HIDE DEF x
<1>4. (x + n) % Points = IF x + n < Points THEN x + n ELSE x + n - Points
  BY <1>3, SlotAt
<1>5. (x + n) % Points = (h + (g + n)) % Points
  BY <1>1, <1>2, <1>3, <1>4
<1> QED
  BY <1>5 DEF x

\* Eviction by age stops at the first point that is young enough.
LEMMA ExpiredStops ==
    ASSUME TypeOK
    PROVE  /\ Expired \in 0..count
           /\ Expired < count => PointAt(Expired).timestamp + Retention > wall
<1> DEFINE T == {n \in 0..count : \A i \in 0 .. n - 1 :
                    PointAt(i).timestamp + Retention <= wall}
<1>1. count \in 0..Points /\ head \in Slots /\ wall \in Nat
  BY DEF TypeOK
<1>2. 0 \in T
  BY <1>1, StatsRingAssumption
<1>3. Expired \in T /\ \A y \in T : y <= Expired
  <2>1. T \subseteq 0..count /\ T # {} /\ count \in Nat
    <3>1. count \in Nat
      BY <1>1, StatsRingAssumption
    <3> QED
      BY <1>2, <3>1
  <2>2. Expired = Max(T)
    BY DEF Expired
  <2> HIDE DEF T
  <2> QED
    BY <2>1, <2>2, MaxIsGreatest
<1>4. ASSUME Expired < count PROVE PointAt(Expired).timestamp + Retention > wall
  <2>1. Expired + 1 \notin T
    BY <1>1, <1>3
  <2>2. PICK i \in 0 .. Expired : ~ (PointAt(i).timestamp + Retention <= wall)
    BY <1>1, <1>3, <1>4, <2>1
  <2>3. i = Expired
    BY <1>1, <1>3, <2>2
  <2>4. PointAt(Expired).timestamp \in Nat
    BY <1>1, <1>3, SlotAt, StatsRingAssumption DEF TypeOK, PointAt
  <2> QED
    BY <1>1, <2>2, <2>3, <2>4, StatsRingAssumption
<1> QED
  BY <1>3, <1>4

\* Is the next point a gap?
Gap == ~baseline_valid \/ sseq <= previous_sequence

Gone == Evicted(Expired)

\* There is room for the new point once the old ones are gone.
LEMMA GoneFits ==
    ASSUME TypeOK
    PROVE  /\ Gone \in 0..count /\ count \in 0..Points
           /\ count - Gone + 1 \in 1..Points
           /\ Gone \in {Expired, Expired + 1}
<1>1. Expired \in 0..count /\ count \in 0..Points /\ Points \in Nat \ {0}
  BY ExpiredStops, StatsRingAssumption DEF TypeOK
<1>2. Gone = IF count - Expired = Points THEN Expired + 1 ELSE Expired
  BY DEF Gone, Evicted
<1> QED
  BY <1>1, <1>2

\* What append_stats_point does to the ring: the points from Gone on stay, in order,
\* and the new one comes after them.
LEMMA AppendRing ==
    ASSUME TypeOK, append_stats_point
    PROVE  /\ head' = (head + Gone) % Points /\ head' \in Slots
           /\ count' = count - Gone + 1
           /\ dropped_intervals' = dropped_intervals + Gone
           /\ DOMAIN ring' = Slots
           /\ \A n \in 0 .. count - Gone - 1 : PointAt(n)' = PointAt(Gone + n)
           /\ \A n \in {count - Gone} : PointAt(n)' = Point(Gap, ports)
           /\ \A i \in Slots : ring'[i] \in {ring[i], NoPoint, Point(Gap, ports)}
<1> DEFINE g == Gone
           P == Point(Gap, ports)
           h == (head + g) % Points
           c == count - g + 1
           kept == [i \in Slots |-> IF \E n \in 0 .. g - 1 : i = (head + n) % Points
                                    THEN NoPoint ELSE ring[i]]
<1>1. /\ ring' = [kept EXCEPT ![Tail(h, c)] = P]
      /\ head' = h /\ count' = c /\ dropped_intervals' = dropped_intervals + g
  BY Zenon DEF append_stats_point, Gone, Gap
<1>2. /\ g \in 0..count /\ count \in 0..Points /\ c \in 1..Points
      /\ head \in Slots /\ Points \in Nat \ {0}
  BY GoneFits, StatsRingAssumption DEF TypeOK
<1> HIDE DEF g, P
<1>3. h \in Slots
  BY <1>2, SlotAt
<1>4. Tail(h, c) = (head + count) % Points
  <2>1. Tail(h, c) = (h + (count - g)) % Points
    BY <1>2, <1>3, h + c - 1 = h + (count - g) DEF Tail, Slots
  <2>2. g \in 0..Points /\ count - g \in 0..Points /\ g + (count - g) = count
    BY <1>2
  <2> HIDE DEF h
  <2> QED
    BY <1>2, <2>1, <2>2, SlotShift DEF h
<1>5. (head + count) % Points \in Slots
  BY <1>2, SlotAt
<1>6. \A i \in Slots : ring'[i] = IF i = (head + count) % Points THEN P ELSE kept[i]
  BY <1>1, <1>4, <1>5
<1>7. DOMAIN ring' = Slots
  BY <1>1
<1>8. ASSUME NEW n \in 0 .. count - g PROVE PointAt(n)' = ring'[(head + (g + n)) % Points]
  <2>1. g \in 0..Points /\ n \in 0..Points /\ g + n <= Points
    BY <1>2
  <2>2. (h + n) % Points = (head + (g + n)) % Points
    BY <1>2, <2>1, SlotShift
  <2> HIDE DEF h
  <2> QED
    BY <1>1, <2>2 DEF PointAt
<1>9. ASSUME NEW n \in 0 .. count - g - 1 PROVE PointAt(n)' = PointAt(g + n)
  <2> DEFINE i == (head + (g + n)) % Points
  <2>1. g + n \in 0 .. Points - 1 /\ g + n \in 0..Points /\ g + n < count
    BY <1>2
  <2>2. i \in Slots
    BY <1>2, <2>1, SlotAt
  <2>3. i # (head + count) % Points
    <3>1. CASE count < Points
      <4>1. count \in 0 .. Points - 1 /\ g + n # count
        BY <1>2, <2>1, <3>1
      <4> QED
        BY <1>2, <2>1, <4>1, SlotsDiffer
    <3>2. CASE count = Points
      <4>1. (head + count) % Points = (head + 0) % Points
        BY <1>2, <3>2 DEF Slots
      <4>2. 0 \in 0 .. Points - 1 /\ g + n # 0
        BY <1>2, <2>1, <3>2
      <4> QED
        BY <1>2, <2>1, <4>1, <4>2, SlotsDiffer
    <3> QED
      BY <1>2, <3>1, <3>2
  <2>4. ASSUME NEW m \in 0 .. g - 1 PROVE i # (head + m) % Points
    <3>1. m \in 0 .. Points - 1 /\ g + n # m
      BY <1>2, <2>1
    <3> QED
      BY <1>2, <2>1, <3>1, SlotsDiffer
  <2>5. kept[i] = ring[i]
    BY <2>2, <2>4
  <2>6. ring'[i] = ring[i]
    BY <1>6, <2>2, <2>3, <2>5
  <2>7. n \in 0 .. count - g
    BY <1>2
  <2> QED
    BY <1>8, <2>6, <2>7 DEF PointAt
<1>10. \A n \in {count - g} : PointAt(n)' = P
  <2>1. ASSUME NEW n \in {count - g} PROVE PointAt(n)' = P
    <3>1. n \in 0 .. count - g /\ g + n = count
      BY <1>2
    <3>2. ring'[(head + count) % Points] = P
      BY <1>5, <1>6
    <3> QED
      BY <1>8, <3>1, <3>2
  <2> QED
    BY <2>1
<1>11. \A i \in Slots : ring'[i] \in {ring[i], NoPoint, P}
  BY <1>6
<1> QED
  BY <1>1, <1>3, <1>7, <1>9, <1>10, <1>11 DEF g, P

\* The response still lists exactly the newest points.
LEMMA AppendWindow ==
    ASSUME TypeOK, Window, append_stats_point
    PROVE  Window'
<1>1. /\ Gone \in 0..count /\ count \in Nat /\ dropped_intervals \in Nat /\ appended \in Nat
  BY GoneFits, StatsRingAssumption DEF TypeOK
<1>2. appended' = appended + 1 /\ dropped_intervals + count = appended
  BY DEF append_stats_point, Window
<1>3. /\ count' = count - Gone + 1
      /\ dropped_intervals' = dropped_intervals + Gone
      /\ \A n \in 0 .. count - Gone - 1 : PointAt(n)' = PointAt(Gone + n)
      /\ \A n \in {count - Gone} : PointAt(n)' = Point(Gap, ports)
  BY AppendRing
<1>4. Point(Gap, ports).id = appended + 1
  BY DEF Point
<1>5. ASSUME NEW n \in 0 .. count' - 1 PROVE PointAt(n)'.id = dropped_intervals' + n + 1
  <2>1. CASE n = count - Gone
    BY <1>1, <1>2, <1>3, <1>4, <2>1
  <2>2. CASE n # count - Gone
    <3>1. n \in 0 .. count - Gone - 1 /\ Gone + n \in 0 .. count - 1
      BY <1>1, <1>3, <2>2
    <3>2. PointAt(n)' = PointAt(Gone + n)
      BY <1>3, <3>1
    <3>3. PointAt(Gone + n).id = dropped_intervals + (Gone + n) + 1
      BY <3>1 DEF Window
    <3> QED
      BY <1>1, <1>3, <3>1, <3>2, <3>3
  <2> QED
    BY <2>1, <2>2
<1>6. dropped_intervals' + count' = appended'
  BY <1>1, <1>2, <1>3
<1> QED
  BY <1>5, <1>6 DEF Window

\* Eviction by age: a point that stays is young, or behind the one that stopped
\* the loop.
LEMMA AppendRetention ==
    ASSUME TypeOK, Window, append_stats_point, NEW n \in 0 .. count' - 1
    PROVE  \/ PointAt(n)'.timestamp + Retention > wall
           \/ \E m \in 0 .. count - 1 : /\ PointAt(m).id < PointAt(n)'.id
                                        /\ PointAt(m).timestamp > PointAt(n)'.timestamp
<1>1. /\ Gone \in 0..count /\ count \in 0..Points /\ Points \in Nat /\ dropped_intervals \in Nat
      /\ Gone \in {Expired, Expired + 1} /\ Expired \in 0..count
      /\ wall \in Nat /\ Retention \in Nat \ {0} /\ head \in Slots
  BY GoneFits, ExpiredStops, StatsRingAssumption DEF TypeOK
<1>2. /\ count' = count - Gone + 1
      /\ \A k \in 0 .. count - Gone - 1 : PointAt(k)' = PointAt(Gone + k)
      /\ \A k \in {count - Gone} : PointAt(k)' = Point(Gap, ports)
  BY AppendRing
<1>3. \A k \in 0 .. count - 1 : PointAt(k).timestamp \in Nat /\ PointAt(k).id = dropped_intervals + k + 1
  <2>1. ASSUME NEW k \in 0 .. count - 1 PROVE PointAt(k).timestamp \in Nat
    <3>1. (head + k) % Points \in Slots
      BY <1>1, SlotAt
    <3> QED
      BY <3>1, StatsRingAssumption DEF TypeOK, PointAt
  <2> QED
    BY <2>1 DEF Window
<1>4. CASE n = count - Gone
  <2>1. PointAt(n)'.timestamp = wall
    BY <1>2, <1>4 DEF Point
  <2> QED
    BY <1>1, <2>1
<1>5. CASE n # count - Gone
  <2>1. /\ n \in 0 .. count - Gone - 1 /\ Gone + n \in 0 .. count - 1
        /\ Expired \in 0 .. count - 1 /\ Expired <= Gone + n
    BY <1>1, <1>2, <1>5
  <2>2. PointAt(n)' = PointAt(Gone + n)
    BY <1>2, <2>1
  <2>3. PointAt(Expired).timestamp + Retention > wall
    BY <1>1, <2>1, ExpiredStops
  <2>4. CASE Gone + n = Expired
    BY <2>2, <2>3, <2>4
  <2>5. CASE Gone + n # Expired /\ ~ (PointAt(n)'.timestamp + Retention > wall)
    <3>1. PointAt(Expired).id < PointAt(n)'.id
      BY <1>1, <1>3, <2>1, <2>2, <2>5
    <3>2. PointAt(Expired).timestamp > PointAt(n)'.timestamp
      BY <1>1, <1>3, <2>1, <2>2, <2>3, <2>5
    <3> QED
      BY <2>1, <3>1, <3>2
  <2> QED
    BY <2>4, <2>5
<1> QED
  BY <1>4, <1>5

-----------------------------------------------------------------------------
(* The accounts.                                                           *)

\* The counters and the histories of one UID.
LEMMA CountersOf ==
    ASSUME IInv, NEW v \in Uids
    PROVE  /\ Value(rows, v) \in Nat /\ Value(previous, v) \in Nat /\ Value(scur, v) \in Nat
           /\ occurred[v] \in Nat /\ since[v] \in Nat /\ credited[v] \in Nat
           /\ Zero[v] = 0 /\ Value(Empty, v) = 0 /\ Value(Empty, v)' = 0
           /\ Covered(v) /\ Exact(v) /\ since[v] <= occurred[v]
           /\ spc # "ports" => since[v] = 0
<1>1. TypeOK /\ Totals /\ SinceIsRecent /\ Covered(v) /\ Exact(v)
  BY DEF IInv, Accounts
<1>2. Value(rows, v) \in Nat /\ Value(previous, v) \in Nat /\ Value(scur, v) \in Nat
  BY <1>1, ValueIsNat, StatsRingAssumption DEF TypeOK
<1>3. Zero[v] = 0 /\ Value(Empty, v) = 0
  BY DEF Zero, Value, Old, Empty
<1>4. occurred[v] \in Nat /\ since[v] \in Nat /\ credited[v] \in Nat
  BY <1>1, StatsRingAssumption DEF Totals
<1> QED
  BY <1>1, <1>2, <1>3, <1>4 DEF SinceIsRecent

\* An access counted for u: the counter and the histories grow together.
LEMMA AccountsRecordUid ==
    ASSUME IInv, NEW u \in Uids, RecordUid(u), NEW v \in Uids
    PROVE  Covered(v)' /\ Exact(v)'
<1>1. Value(rows', v) = IF v = u THEN Value(rows, v) + 1 ELSE Value(rows, v)
  BY BumpedValue, StatsRingAssumption DEF RecordUid, IInv, TypeOK
<1>2. /\ occurred'[v] = IF v = u THEN occurred[v] + 1 ELSE occurred[v]
      /\ spc = "ports" => since'[v] = IF v = u THEN since[v] + 1 ELSE since[v]
  BY DEF RecordUid, IInv, Totals
<1>3. UNCHANGED <<previous, scur, credited, baseline_valid, spc, disturbed>>
  BY DEF RecordUid, sample, baseline
<1>4. /\ Value(rows, v) \in Nat /\ Value(previous, v) \in Nat /\ Value(scur, v) \in Nat
      /\ occurred[v] \in Nat /\ since[v] \in Nat /\ credited[v] \in Nat
      /\ Covered(v) /\ Exact(v)
      /\ since[v] <= occurred[v]
  BY CountersOf
<1>5. CASE v # u
  <2>1. Covered(v)'
    BY <1>1, <1>2, <1>3, <1>4, <1>5 DEF Covered, Delta
  <2>2. Balanced(v)'
    BY <1>1, <1>2, <1>3, <1>4, <1>5 DEF Exact, Balanced
  <2>3. Sampled(v)'
    BY <1>1, <1>2, <1>3, <1>4, <1>5 DEF Exact, Sampled
  <2> QED
    BY <2>1, <2>2, <2>3 DEF Exact
<1>6. CASE v = u
  <2>1. Covered(v)'
    <3>1. /\ Delta(rows', previous, v) <= Delta(rows, previous, v) + 1
          /\ Delta(rows', scur, v) <= Delta(rows, scur, v) + 1
          /\ Delta(rows, previous, v) \in Nat /\ Delta(rows', previous, v) \in Nat
          /\ Delta(rows, scur, v) \in Nat /\ Delta(rows', scur, v) \in Nat
          /\ Delta(scur, previous, v) \in Nat
      BY <1>1, <1>4, <1>6, DeltaIsNat DEF Delta
    <3> QED
      BY <1>2, <1>3, <1>4, <1>6, <3>1 DEF Covered
  <2>2. Balanced(v)'
    <3> DEFINE o == occurred[v]
               c == credited[v]
               now == Value(rows, v)
               old == Value(previous, v)
    <3> SUFFICES ASSUME baseline_valid', disturbed' = "none"
                 PROVE  /\ occurred'[v] = credited'[v] + (Value(rows', v) - Value(previous', v))
                        /\ Value(previous', v) <= Value(rows', v)
      BY DEF Balanced
    <3>1. o = c + (now - old) /\ old <= now
      BY <1>3, <1>4 DEF Exact, Balanced
    <3>2. o \in Nat /\ c \in Nat /\ now \in Nat /\ old \in Nat
      BY <1>4
    <3>3. Value(rows', v) = now + 1 /\ occurred'[v] = o + 1
      BY <1>1, <1>2, <1>6
    <3> HIDE DEF o, c, now, old
    <3>4. o + 1 = c + ((now + 1) - old) /\ old <= now + 1
      BY <3>1, <3>2
    <3> QED
      BY <1>3, <3>3, <3>4, Zenon DEF c, old
  <2>3. Sampled(v)'
    BY <1>1, <1>2, <1>3, <1>4, <1>6 DEF Exact, Sampled
  <2> QED
    BY <2>1, <2>2, <2>3 DEF Exact
<1> QED
  BY <1>5, <1>6

\* A counter that disappears or is cleared counts as 0, and no point reports more
\* for that: the difference is taken from 0.
LEMMA AccountsZeroed ==
    ASSUME IInv, NEW v \in Uids, disturbed' = "unseen",
           Value(rows', v) \in {0, Value(rows, v)},
           UNCHANGED <<previous, scur, occurred, since, credited, baseline_valid, spc>>
    PROVE  Covered(v)' /\ Exact(v)'
<1>1. /\ Value(rows, v) \in Nat /\ Value(previous, v) \in Nat /\ Value(scur, v) \in Nat
      /\ occurred[v] \in Nat /\ since[v] \in Nat /\ credited[v] \in Nat
      /\ Covered(v) /\ Exact(v)
  BY CountersOf
<1>2. Covered(v)'
  BY <1>1 DEF Covered, Delta, stats_delta
<1>3. Balanced(v)'
  BY <1>1 DEF Exact, Balanced, Sampled, Delta, stats_delta
<1>4. Sampled(v)'
  BY <1>1 DEF Exact, Balanced, Sampled
<1> QED
  BY <1>2, <1>3, <1>4 DEF Exact

\* The snapshot under way starts from the counters as they are.
LEMMA AccountsSample ==
    ASSUME IInv, NEW v \in Uids, spc # "ports", spc' \in {"sized", "ports"},
           spc' = "ports" => Value(scur', v) = Value(rows, v),
           since'[v] = 0, disturbed' = "none" => disturbed = "none",
           UNCHANGED <<rows, previous, occurred, credited, baseline_valid>>
    PROVE  Covered(v)' /\ Exact(v)'
<1>1. /\ Value(rows, v) \in Nat /\ Value(previous, v) \in Nat /\ Value(scur, v) \in Nat
      /\ occurred[v] \in Nat /\ since[v] \in Nat /\ credited[v] \in Nat
      /\ Covered(v) /\ Exact(v)
  BY CountersOf
<1>2. Covered(v)'
  BY <1>1 DEF Covered, Delta, stats_delta
<1>3. Balanced(v)'
  BY <1>1 DEF Exact, Balanced, Sampled, Delta, stats_delta
<1>4. Sampled(v)'
  BY <1>1 DEF Exact, Balanced, Sampled
<1> QED
  BY <1>2, <1>3, <1>4 DEF Exact

\* A point that is a gap reports nothing and starts from the snapshot.
LEMMA AccountsGap ==
    ASSUME IInv, NEW v \in Uids, spc = "ports", spc' = "idle",
           Value(previous', v) = Value(scur, v), rows' = rows, baseline_valid' = TRUE,
           occurred'[v] = since[v], credited'[v] = 0,
           disturbed' = "none" => disturbed # "unseen"
    PROVE  Covered(v)' /\ Exact(v)'
<1>1. /\ Value(rows, v) \in Nat /\ Value(previous, v) \in Nat /\ Value(scur, v) \in Nat
      /\ occurred[v] \in Nat /\ since[v] \in Nat /\ credited[v] \in Nat
      /\ Covered(v) /\ Exact(v)
  BY CountersOf
<1>2. Covered(v)'
  <2>1. Delta(rows, scur, v) \in Nat /\ Delta(scur, previous, v) \in Nat
    BY <1>1, DeltaIsNat DEF Delta
  <2>2. Delta(rows', previous', v) = Delta(rows, scur, v)
    BY DEF Delta
  <2> QED
    BY <1>1, <2>1, <2>2 DEF Covered
<1>3. Balanced(v)'
  <2>1. \A s, now, mid \in Nat : s = now - mid => s = 0 + (now - mid) /\ mid <= now
    OBVIOUS
  <2> SUFFICES ASSUME disturbed' = "none"
               PROVE  /\ since[v] = 0 + (Value(rows, v) - Value(scur, v))
                      /\ Value(scur, v) <= Value(rows, v)
    BY Zenon DEF Balanced
  <2>2. since[v] = Value(rows, v) - Value(scur, v)
    BY <1>1 DEF Exact, Sampled
  <2> QED
    BY <1>1, <2>1, <2>2, Zenon
<1>4. Sampled(v)'
  BY <1>1 DEF Exact, Balanced, Sampled
<1> QED
  BY <1>2, <1>3, <1>4 DEF Exact

\* Any other point reports the difference between the snapshot and the baseline.
LEMMA AccountsPoint ==
    ASSUME IInv, NEW v \in Uids, spc = "ports", spc' = "idle", baseline_valid,
           Value(previous', v) = Value(scur, v), rows' = rows, baseline_valid' = TRUE,
           occurred' = occurred, credited'[v] = credited[v] + Delta(scur, previous, v),
           disturbed' = "none" => disturbed = "none"
    PROVE  Covered(v)' /\ Exact(v)'
<1>1. /\ Value(rows, v) \in Nat /\ Value(previous, v) \in Nat /\ Value(scur, v) \in Nat
      /\ occurred[v] \in Nat /\ since[v] \in Nat /\ credited[v] \in Nat
      /\ Covered(v) /\ Exact(v)
  BY CountersOf
<1>2. Covered(v)'
  <2>1. Delta(rows, scur, v) \in Nat /\ Delta(scur, previous, v) \in Nat
    BY <1>1, DeltaIsNat DEF Delta
  <2>2. Delta(rows', previous', v) = Delta(rows, scur, v)
    BY DEF Delta
  <2> QED
    BY <1>1, <2>1, <2>2 DEF Covered
<1>3. Balanced(v)'
  <2> DEFINE o == occurred[v]
             c == credited[v]
             now == Value(rows, v)
             mid == Value(scur, v)
             old == Value(previous, v)
  <2> SUFFICES ASSUME disturbed' = "none"
               PROVE  o = (c + Delta(scur, previous, v)) + (now - mid) /\ mid <= now
    BY Zenon DEF Balanced
  <2>1. o = c + (now - old) /\ old <= mid /\ since[v] = now - mid
    BY <1>1 DEF Exact, Balanced, Sampled
  <2>2. o \in Nat /\ c \in Nat /\ now \in Nat /\ mid \in Nat /\ old \in Nat /\ since[v] \in Nat
    BY <1>1
  <2>3. Delta(scur, previous, v) = stats_delta(mid, old)
    BY DEF Delta
  <2> HIDE DEF o, c, now, mid, old
  <2>4. stats_delta(mid, old) = mid - old
    BY <2>1, <2>2 DEF stats_delta
  <2>5. o = (c + (mid - old)) + (now - mid)
    BY <2>1, <2>2
  <2>6. mid <= now
    BY <2>1, <2>2
  <2> QED
    BY <2>3, <2>4, <2>5, <2>6, Zenon
<1>4. Sampled(v)'
  BY <1>1 DEF Exact, Balanced, Sampled
<1> QED
  BY <1>2, <1>3, <1>4 DEF Exact

\* append_stats_point as one or the other.
LEMMA AccountsAppend ==
    ASSUME IInv, append_stats_point, NEW v \in Uids
    PROVE  Covered(v)' /\ Exact(v)'
<1>1. /\ spc = "ports" /\ spc' = "idle" /\ previous' = scur /\ rows' = rows
      /\ baseline_valid' = TRUE
      /\ occurred' = IF Gap THEN since ELSE occurred
      /\ credited' = [u \in Uids |-> IF Gap THEN 0 ELSE
              credited[u] + Old(Point(Gap, ports).uids, Point(Gap, ports).uids, u)]
      /\ disturbed' = IF disturbed = "seen" THEN IF Gap THEN "none" ELSE "unseen"
                      ELSE disturbed
  BY Zenon DEF append_stats_point, Gap, kernel
<1>2. CASE Gap
  BY <1>1, <1>2, AccountsGap
<1>3. CASE ~Gap
  <2>1. Point(Gap, ports).uids = Deltas(previous, scur, DOMAIN scur \ DOMAIN previous)
    BY <1>3 DEF Point
  <2>2. Value(Point(Gap, ports).uids, v) = Delta(scur, previous, v)
    <3>1. Counts(previous, MaxCount) /\ Counts(scur, MaxCount) /\ MaxCount \in Nat
      BY StatsRingAssumption DEF IInv, TypeOK
    <3> QED
      BY <2>1, <3>1, DeltasValue
  <2>3. credited'[v] = credited[v] + Delta(scur, previous, v)
    BY <1>1, <1>3, <2>2 DEF Value
  <2> QED
    BY <1>1, <1>3, <2>3, AccountsPoint DEF Gap
<1> QED
  BY <1>2, <1>3

\* No step reports an access twice, none is lost without a clear or a pruned row.
LEMMA AccountsStep ==
    ASSUME IInv, Next
    PROVE  Accounts'
<1> SUFFICES ASSUME NEW v \in Uids PROVE Covered(v)' /\ Exact(v)'
  BY DEF Accounts
<1>1. ASSUME NEW u \in Uids, RecordUid(u) PROVE Covered(v)' /\ Exact(v)'
  BY <1>1, AccountsRecordUid
<1>2. ASSUME UNCHANGED <<rows, previous, scur, occurred, since, credited, disturbed,
                         baseline_valid, spc>>
      PROVE  Covered(v)' /\ Exact(v)'
  BY <1>2, CountersOf DEF Covered, Exact, Balanced, Sampled, Delta
<1>3. ASSUME NEW u \in Uids, RecordPort(u) PROVE Covered(v)' /\ Exact(v)'
  BY <1>2, <1>3 DEF RecordPort, sample, baseline, history
<1>4. ASSUME NEW u \in Uids, AddRow(u) PROVE Covered(v)' /\ Exact(v)'
  <2>1. Value(rows', v) = Value(rows, v)
    BY <1>4 DEF AddRow, Value, Old
  <2> QED
    BY <1>4, <2>1, CountersOf DEF AddRow, sample, baseline, history, Covered, Exact, Balanced, Sampled, Delta
<1>5. ASSUME NEW u \in Uids, PruneRow(u) PROVE Covered(v)' /\ Exact(v)'
  <2>1. Value(rows', v) \in {0, Value(rows, v)}
    BY <1>5 DEF PruneRow, Value, Old, Restrict
  <2> QED
    BY <1>5, <2>1, AccountsZeroed DEF PruneRow, sample, baseline
<1>6. CASE ClearRows
  <2>1. Value(rows', v) = 0
    BY <1>6 DEF ClearRows, Value, Old
  <2> QED
    BY <1>6, <2>1, AccountsZeroed DEF ClearRows, sample, baseline
<1>7. CASE ClearPorts
  BY <1>2, <1>7 DEF ClearPorts, sample, baseline, history
<1>8. CASE OtherSnapshot
  BY <1>2, <1>8 DEF OtherSnapshot, sample, baseline, history
<1>9. CASE Clock
  BY <1>2, <1>9 DEF Clock, kernel, sample, baseline, history
<1>10. CASE SizeSnapshot
  <2>1. spc' = "ports" => Value(scur', v) = Value(rows, v)
    BY <1>10 DEF SizeSnapshot
  <2>2. since'[v] = 0 /\ spc # "ports" /\ spc' \in {"sized", "ports"}
    BY <1>10, CountersOf DEF SizeSnapshot
  <2> QED
    BY <1>10, <2>1, <2>2, AccountsSample DEF SizeSnapshot, baseline
<1>11. CASE SampleRows
  <2>1. since'[v] = 0
    BY <1>11, CountersOf DEF SampleRows
  <2> QED
    BY <1>11, <2>1, AccountsSample DEF SampleRows, baseline
<1>12. CASE SampleFails
  BY <1>12, CountersOf DEF SampleFails, kernel, baseline, Covered, Exact, Balanced, Sampled, Delta
<1>13. CASE append_stats_point
  BY <1>13, AccountsAppend
<1>14. CASE ClearHistory \/ DaemonRestart
  <2>1. /\ ~baseline_valid' /\ spc' = "idle" /\ credited'[v] = 0
    BY <1>14, CountersOf DEF ClearHistory, DaemonRestart, RingCleared
  <2> QED
    BY <2>1 DEF Covered, Exact, Balanced, Sampled
<1> QED
  BY <1>1, <1>3, <1>4, <1>5, <1>6, <1>7, <1>8, <1>9, <1>10, <1>11, <1>12, <1>13, <1>14
     DEF Next

-----------------------------------------------------------------------------
(* The types, and the theorems.                                            *)

Tables ==
    /\ Counts(rows, MaxCount) /\ Counts(ports, MaxPort) /\ Counts(scur, MaxCount)
    /\ Counts(previous, MaxCount) /\ Counts(previous_ports, MaxPort)

\* A point reports counts that fit the counters they are taken from.
LEMMA PointTypes ==
    ASSUME Tables
    PROVE  /\ Counts(Point(Gap, ports).uids, MaxCount)
           /\ Counts(Point(Gap, ports).ports, MaxPort)
<1>1. Counts(Empty, MaxCount) /\ Counts(Empty, MaxPort)
  BY DEF Empty, Counts
<1>2. Counts(Deltas(previous, scur, DOMAIN scur \ DOMAIN previous), MaxCount)
  BY DeltasValue, StatsRingAssumption DEF Tables
<1>3. Counts(Deltas(previous_ports, ports, {}), MaxPort)
  BY DeltasValue, StatsRingAssumption DEF Tables
<1> QED
  BY <1>1, <1>2, <1>3 DEF Point

\* The histories, step by step.
LEMMA TotalsStep ==
    ASSUME IInv, Next, Accounts'
    PROVE  Totals' /\ SinceIsRecent'
<1>1. TypeOK /\ Totals /\ SinceIsRecent /\ MaxEvents \in Nat
  BY StatsRingAssumption DEF IInv
<1>2. Zero \in [Uids -> 0..MaxEvents] /\ Zero \in [Uids -> Nat] /\ \A u \in Uids : Zero[u] = 0
  BY <1>1 DEF Zero
<1>3. ASSUME NEW u \in Uids, RecordUid(u) PROVE Totals' /\ SinceIsRecent'
  <2>1. /\ occurred[u] < MaxEvents /\ occurred' = [occurred EXCEPT ![u] = @ + 1]
        /\ since' = IF spc = "ports" THEN [since EXCEPT ![u] = @ + 1] ELSE since
        /\ UNCHANGED <<credited, spc>>
    BY <1>3 DEF RecordUid, sample
  <2>2. \A v \in Uids : since[v] <= occurred[v] /\ since[v] \in Nat /\ occurred[v] \in Nat
    BY <1>1 DEF Totals, SinceIsRecent
  <2>3. Totals'
    BY <1>1, <2>1, <2>2 DEF Totals
  <2>4. \A v \in Uids : since'[v] <= occurred'[v]
    BY <1>1, <2>1, <2>2 DEF Totals
  <2> QED
    BY <1>1, <2>1, <2>3, <2>4 DEF SinceIsRecent
<1>4. CASE UNCHANGED <<occurred, since, credited, spc>>
  BY <1>1, <1>4 DEF Totals, SinceIsRecent
<1>5. CASE SizeSnapshot \/ SampleFails
  BY <1>1, <1>2, <1>5 DEF SizeSnapshot, SampleFails, Totals, SinceIsRecent
<1>6. CASE SampleRows
  BY <1>1, <1>6 DEF SampleRows, Totals, SinceIsRecent
<1>7. CASE append_stats_point
  <2>1. /\ spc' = "idle" /\ since' = Zero
        /\ occurred' = since \/ occurred' = occurred
        /\ credited' = [u \in Uids |-> IF Gap THEN 0 ELSE
              credited[u] + Old(Point(Gap, ports).uids, Point(Gap, ports).uids, u)]
    BY <1>7, Zenon DEF append_stats_point, Gap
  <2>2. Counts(Point(Gap, ports).uids, MaxCount)
    BY <1>1, PointTypes DEF TypeOK, Tables
  <2>3. ASSUME NEW u \in Uids PROVE credited'[u] \in Nat
    <3>1. Value(Point(Gap, ports).uids, u) \in Nat
      BY <2>2, ValueIsNat, StatsRingAssumption
    <3> QED
      BY <1>1, <2>1, <3>1 DEF Totals, Value
  <2>4. credited' \in [Uids -> Nat]
    BY <2>1, <2>3
  <2> QED
    BY <1>1, <1>2, <2>1, <2>4 DEF Totals, SinceIsRecent
<1>8. CASE ClearHistory \/ DaemonRestart
  BY <1>2, <1>8 DEF ClearHistory, DaemonRestart, RingCleared, Totals, SinceIsRecent
<1> QED
  BY <1>3, <1>4, <1>5, <1>6, <1>7, <1>8
     DEF Next, RecordPort, AddRow, PruneRow, ClearRows, ClearPorts, OtherSnapshot, Clock,
         sample, history

\* Nothing is reported that did not occur.
LEMMA CreditedFits ==
    Tables /\ Totals /\ Accounts => NeverOverReports
<1> SUFFICES ASSUME Tables, Totals, Accounts PROVE NeverOverReports
  OBVIOUS
<1>1. ASSUME NEW u \in Uids PROVE credited[u] <= occurred[u]
  <2>1. /\ Value(rows, u) \in Nat /\ Value(previous, u) \in Nat
        /\ occurred[u] \in Nat /\ credited[u] \in Nat /\ Covered(u)
    BY ValueIsNat, StatsRingAssumption DEF Tables, Totals, Accounts
  <2>2. Delta(rows, previous, u) \in Nat
    BY <2>1, DeltaIsNat DEF Delta
  <2> QED
    BY <2>1, <2>2 DEF Covered
<1> QED
  BY <1>1 DEF NeverOverReports

\* The types of the histories follow.
LEMMA HistoryTypes ==
    Totals /\ NeverOverReports =>
        Counts(occurred, MaxEvents) /\ Counts(since, MaxEvents) /\ Counts(credited, MaxEvents)
  BY StatsRingAssumption DEF Totals, NeverOverReports, Counts

\* The rest of TypeOK.
Scalars ==
    /\ half \in SUBSET Uids /\ kseq \in 0..MaxSeq /\ clearing \in BOOLEAN
    /\ wall \in 0..MaxTime
    /\ spc \in {"idle", "sized", "ports"} /\ sseq \in 0..MaxSeq
    /\ previous_sequence \in 0..MaxSeq /\ baseline_valid \in BOOLEAN
    /\ disturbed \in {"none", "unseen", "seen"}

RingTypes ==
    /\ DOMAIN ring = Slots
    /\ \A i \in Slots : /\ ring[i].id \in 0..MaxPoints /\ ring[i].timestamp \in 0..MaxTime
                        /\ Counts(ring[i].uids, MaxCount) /\ Counts(ring[i].ports, MaxPort)
    /\ head \in Slots /\ count \in 0..Points
    /\ dropped_intervals \in 0..MaxPoints /\ appended \in 0..MaxPoints

\* TypeOK taken apart.
LEMMA TypeParts ==
    TypeOK <=> /\ Tables /\ Scalars /\ RingTypes
               /\ Counts(occurred, MaxEvents) /\ Counts(since, MaxEvents)
               /\ Counts(credited, MaxEvents)
  BY DEF TypeOK, Tables, Scalars, RingTypes

\* Counters stay within their bounds.
LEMMA TablesStep ==
    ASSUME Tables, Next
    PROVE  Tables'
<1>1. Counts(Empty, MaxCount) /\ Counts(Empty, MaxPort)
  BY DEF Empty, Counts
<1>2. ASSUME NEW u \in Uids, RecordUid(u) PROVE Tables'
  BY <1>2, BumpedValue, StatsRingAssumption DEF RecordUid, sample, baseline, Tables
<1>3. ASSUME NEW u \in Uids, RecordPort(u) PROVE Tables'
  BY <1>3, BumpedValue, StatsRingAssumption DEF RecordPort, sample, baseline, Tables
<1>4. ASSUME NEW u \in Uids, AddRow(u) PROVE Tables'
  <2>1. Counts(rows', MaxCount)
    BY <1>4, StatsRingAssumption DEF AddRow, Tables, Counts
  <2> QED
    BY <1>4, <2>1 DEF AddRow, sample, baseline, Tables
<1>5. ASSUME NEW u \in Uids, PruneRow(u) PROVE Tables'
  <2>1. Counts(rows', MaxCount)
    BY <1>5 DEF PruneRow, Restrict, Tables, Counts
  <2> QED
    BY <1>5, <2>1 DEF PruneRow, sample, baseline, Tables
<1>6. CASE ClearRows
  <2>1. Counts(rows', MaxCount)
    BY <1>6, StatsRingAssumption DEF ClearRows, Tables, Counts
  <2> QED
    BY <1>6, <2>1 DEF ClearRows, sample, baseline, Tables
<1>7. CASE ClearPorts
  BY <1>1, <1>7 DEF ClearPorts, sample, baseline, Tables
<1>8. CASE OtherSnapshot \/ Clock
  BY <1>8 DEF OtherSnapshot, Clock, kernel, sample, baseline, Tables
<1>9. CASE SizeSnapshot \/ SampleRows \/ SampleFails
  BY <1>1, <1>9 DEF SizeSnapshot, SampleRows, SampleFails, kernel, baseline, Tables
<1>10. CASE append_stats_point
  <2>1. previous' = scur /\ previous_ports' = ports /\ scur' = Empty /\ UNCHANGED kernel
    BY <1>10, Zenon DEF append_stats_point
  <2> QED
    BY <1>1, <2>1 DEF kernel, Tables
<1>11. CASE ClearHistory \/ DaemonRestart
  BY <1>1, <1>11 DEF ClearHistory, DaemonRestart, RingCleared, kernel, Tables
<1> QED
  BY <1>2, <1>3, <1>4, <1>5, <1>6, <1>7, <1>8, <1>9, <1>10, <1>11 DEF Next

\* The sample and the baseline keep their types.
LEMMA ScalarsStep ==
    ASSUME Scalars, Next
    PROVE  Scalars'
<1>1. MaxSeq \in Nat /\ MaxTime \in Nat /\ 0 \in 0..MaxSeq
  BY StatsRingAssumption
<1>2. ASSUME NEW u \in Uids, RecordUid(u) \/ RecordPort(u) \/ AddRow(u) \/ PruneRow(u)
      PROVE  Scalars'
  BY <1>2 DEF RecordUid, RecordPort, AddRow, PruneRow, sample, baseline, history, Scalars
<1>3. CASE ClearRows \/ ClearPorts
  <2>1. CASE ClearRows
    BY <1>1, <2>1 DEF ClearRows, sample, baseline, Scalars
  <2>2. CASE ClearPorts
    BY <2>2 DEF ClearPorts, sample, baseline, history, Scalars
  <2> QED
    BY <1>3, <2>1, <2>2
<1>4. CASE OtherSnapshot \/ Clock
  BY <1>1, <1>4 DEF OtherSnapshot, Clock, kernel, sample, baseline, history, Scalars
<1>5. CASE SizeSnapshot
  BY <1>1, <1>5 DEF SizeSnapshot, kernel, baseline, Scalars
<1>6. CASE SampleRows \/ SampleFails
  BY <1>1, <1>6 DEF SampleRows, SampleFails, kernel, baseline, Scalars
<1>7. CASE append_stats_point
  <2>1. /\ spc' = "idle" /\ sseq' = 0 /\ previous_sequence' = sseq /\ baseline_valid' = TRUE
        /\ disturbed' = IF disturbed = "seen" THEN IF Gap THEN "none" ELSE "unseen"
                        ELSE disturbed
        /\ UNCHANGED <<kernel, wall>>
    BY <1>7, Zenon DEF append_stats_point, Gap
  <2> QED
    BY <1>1, <2>1 DEF kernel, Scalars
<1>8. CASE ClearHistory \/ DaemonRestart
  <2>1. RingCleared
    BY <1>8 DEF ClearHistory, DaemonRestart
  <2> QED
    BY <1>1, <2>1 DEF RingCleared, kernel, Scalars
<1> QED
  BY <1>2, <1>3, <1>4, <1>5, <1>6, <1>7, <1>8 DEF Next

\* The ring keeps its types and stays a window.
LEMMA RingStep ==
    ASSUME IInv, Next
    PROVE  RingTypes' /\ Window'
<1>1. TypeOK /\ RingTypes /\ Window /\ Tables /\ wall \in 0..MaxTime
  BY TypeParts DEF IInv, TypeOK
<1>2. CASE UNCHANGED points
  BY <1>1, <1>2 DEF points, RingTypes, Window, PointAt
<1>3. CASE append_stats_point
  <2>1. Window'
    BY <1>1, <1>3, AppendWindow
  <2>2. /\ head' \in Slots /\ DOMAIN ring' = Slots /\ count' \in 1..Points
        /\ \A i \in Slots : ring'[i] \in {ring[i], NoPoint, Point(Gap, ports)}
    BY <1>1, <1>3, AppendRing, GoneFits
  <2>3. appended' = appended + 1 /\ appended < MaxPoints /\ appended \in 0..MaxPoints
    BY <1>1, <1>3 DEF append_stats_point, RingTypes
  <2>4. dropped_intervals' = dropped_intervals + Gone /\ dropped_intervals \in Nat /\ Gone \in Nat
    <3>1. Gone \in 0..count /\ count \in 0..Points /\ dropped_intervals \in 0..MaxPoints
      BY <1>1, GoneFits DEF RingTypes
    <3> QED
      BY <1>1, <1>3, <3>1, AppendRing, StatsRingAssumption
  <2>5. dropped_intervals' \in 0..MaxPoints /\ appended' \in 0..MaxPoints /\ count' \in 0..Points
    <3>1. dropped_intervals' + count' = appended'
      BY <2>1 DEF Window
    <3>2. Points \in Nat /\ MaxPoints \in Nat
      BY StatsRingAssumption
    <3>3. count' \in Nat /\ count' <= Points
      BY <2>2, <3>2
    <3>4. dropped_intervals' \in Nat
      BY <2>4
    <3>5. appended' \in Nat /\ appended' <= MaxPoints
      BY <2>3, <3>2
    <3>6. \A a, b, c, m \in Nat : a + b = c /\ c <= m => a <= m
      OBVIOUS
    <3>7. dropped_intervals' <= MaxPoints
      BY <3>1, <3>2, <3>3, <3>4, <3>5, <3>6, Zenon
    <3> QED
      BY <3>2, <3>3, <3>4, <3>5, <3>7
  <2>6. /\ Point(Gap, ports).id \in 0..MaxPoints /\ Point(Gap, ports).timestamp \in 0..MaxTime
        /\ Counts(Point(Gap, ports).uids, MaxCount) /\ Counts(Point(Gap, ports).ports, MaxPort)
    <3>1. Point(Gap, ports).id = appended + 1 /\ Point(Gap, ports).timestamp = wall
      BY DEF Point
    <3>2. appended + 1 \in 0..MaxPoints
      BY <2>3, StatsRingAssumption
    <3> QED
      BY <1>1, <3>1, <3>2, PointTypes
  <2>7. /\ NoPoint.id \in 0..MaxPoints /\ NoPoint.timestamp \in 0..MaxTime
        /\ Counts(NoPoint.uids, MaxCount) /\ Counts(NoPoint.ports, MaxPort)
    BY StatsRingAssumption DEF NoPoint, Counts
  <2>8. ASSUME NEW i \in Slots
        PROVE  /\ ring'[i].id \in 0..MaxPoints /\ ring'[i].timestamp \in 0..MaxTime
               /\ Counts(ring'[i].uids, MaxCount) /\ Counts(ring'[i].ports, MaxPort)
    BY <1>1, <2>2, <2>6, <2>7 DEF RingTypes
  <2> QED
    BY <2>1, <2>2, <2>5, <2>8 DEF RingTypes
<1>4. CASE RingCleared
  <2>1. /\ ring' = [i \in Slots |-> NoPoint] /\ head' = 0 /\ count' = 0
        /\ dropped_intervals' = 0 /\ appended' = 0
    BY <1>4 DEF RingCleared
  <2>2. /\ NoPoint.id \in 0..MaxPoints /\ NoPoint.timestamp \in 0..MaxTime
        /\ Counts(NoPoint.uids, MaxCount) /\ Counts(NoPoint.ports, MaxPort)
    BY StatsRingAssumption DEF NoPoint, Counts
  <2>3. 0 \in Slots /\ 0 \in 0..Points /\ 0 \in 0..MaxPoints
    BY StatsRingAssumption DEF Slots
  <2>4. RingTypes'
    BY <2>1, <2>2, <2>3 DEF RingTypes
  <2>5. Window'
    BY <2>1 DEF Window
  <2> QED
    BY <2>4, <2>5
<1> QED
  BY <1>2, <1>3, <1>4
     DEF Next, RecordUid, RecordPort, AddRow, PruneRow, ClearRows, ClearPorts, OtherSnapshot,
         Clock, SizeSnapshot, SampleRows, SampleFails, ClearHistory, DaemonRestart

\* The first state: no point and no counts.
LEMMA InitIInv == Init => IInv
<1> SUFFICES ASSUME Init PROVE IInv
  OBVIOUS
<1>1. Counts(Empty, MaxCount) /\ Counts(Empty, MaxPort) /\ Counts(rows, MaxCount)
  <2>1. Counts(Empty, MaxCount) /\ Counts(Empty, MaxPort)
    BY DEF Empty, Counts
  <2>2. CASE rows \in [Uids -> {0}]
    BY <2>1, <2>2, StatsRingAssumption DEF Counts
  <2> QED
    BY <2>1, <2>2 DEF Init
<1>2. Tables
  BY <1>1 DEF Init, Tables
<1>3. 0 \in 0..MaxSeq /\ 0 \in 0..MaxTime /\ 0 \in 0..MaxPoints /\ 0 \in 0..Points /\ 0 \in Slots
  BY StatsRingAssumption DEF Slots
<1>4. Scalars
  BY <1>3 DEF Init, Scalars
<1>5. RingTypes
  <2>1. /\ NoPoint.id \in 0..MaxPoints /\ NoPoint.timestamp \in 0..MaxTime
        /\ Counts(NoPoint.uids, MaxCount) /\ Counts(NoPoint.ports, MaxPort)
    BY <1>3 DEF NoPoint, Counts
  <2> QED
    BY <1>3, <2>1 DEF Init, RingTypes
<1>6. Totals /\ SinceIsRecent /\ NeverOverReports
  BY StatsRingAssumption DEF Init, Zero, Totals, SinceIsRecent, NeverOverReports
<1>7. TypeOK
  BY <1>2, <1>4, <1>5, <1>6, HistoryTypes, TypeParts
<1>8. Window
  BY DEF Init, Window
<1>9. Accounts
  BY DEF Init, Accounts, Covered, Exact, Balanced, Sampled, Zero
<1> QED
  BY <1>6, <1>7, <1>8, <1>9 DEF IInv

\* The parts together.
LEMMA NextIInv == IInv /\ [Next]_vars => IInv'
<1>1. ASSUME IInv, Next PROVE IInv'
  <2>1. Accounts'
    BY <1>1, AccountsStep
  <2>2. Totals' /\ SinceIsRecent'
    BY <1>1, <2>1, TotalsStep
  <2>3. Tables' /\ Scalars'
    BY <1>1, TablesStep, ScalarsStep, TypeParts DEF IInv
  <2>4. RingTypes' /\ Window'
    BY <1>1, RingStep
  <2>5. NeverOverReports'
    BY <2>1, <2>2, <2>3, CreditedFits, PTL
  <2>6. Counts(occurred, MaxEvents)' /\ Counts(since, MaxEvents)' /\ Counts(credited, MaxEvents)'
    BY <2>2, <2>5, HistoryTypes, PTL
  <2>7. TypeOK'
    BY <2>3, <2>4, <2>6, TypeParts, PTL
  <2> QED
    BY <2>1, <2>2, <2>4, <2>7 DEF IInv
<1>2. ASSUME IInv, UNCHANGED vars PROVE IInv'
  <2> USE <1>2 DEF vars, kernel, sample, points, baseline, history
  <2>1. TypeOK'
    BY DEF IInv, TypeOK
  <2>2. Totals' /\ SinceIsRecent'
    BY DEF IInv, Totals, SinceIsRecent
  <2>3. Accounts'
    BY DEF IInv, Accounts, Covered, Exact, Balanced, Sampled, Delta
  <2>4. Window'
    BY DEF IInv, Window, PointAt
  <2> QED
    BY <2>1, <2>2, <2>3, <2>4 DEF IInv
<1> QED
  BY <1>1, <1>2

\* IInv is an invariant of the daemon's history.
THEOREM StatsInvariant == Spec => []IInv
  BY InitIInv, NextIInv, PTL DEF Spec

\* The response lists exactly the newest points, oldest first, and droppedIntervals
\* is the number of points missing from it, for every ring size and retention time.
THEOREM RingIsAlwaysWindow == Spec => []RingIsWindow
<1>1. IInv => RingIsWindow
  BY DEF IInv, Window, RingIsWindow
<1> QED
  BY <1>1, StatsInvariant, PTL

\* The points since the last gap never report an access twice, nor one that was not
\* counted, whatever clears, pruned rows, failed samples and restarts come between.
THEOREM HistoryNeverOverReports == Spec => []NeverOverReports
<1>1. IInv => NeverOverReports
  BY CreditedFits, TypeParts DEF IInv
<1> QED
  BY <1>1, StatsInvariant, PTL

\* Without a clear or a pruned row since the last gap, every access is reported by a
\* point or will be by the next one.
THEOREM HistoryDeltasAddUp == Spec => []DeltasAddUp
<1>1. IInv => DeltasAddUp
  <2> SUFFICES ASSUME IInv, baseline_valid, disturbed = "none", NEW u \in DOMAIN rows
               PROVE  occurred[u] = credited[u] + (rows[u] - Old(previous, rows, u))
    BY DEF DeltasAddUp
  <2>1. u \in Uids
    BY DEF IInv, TypeOK, Counts
  <2>2. Value(rows, u) = rows[u] /\ Value(previous, u) = Old(previous, rows, u)
    BY DEF Value, Old
  <2>3. occurred[u] = credited[u] + (Value(rows, u) - Value(previous, u))
    BY <2>1 DEF IInv, Accounts, Exact, Balanced
  <2> QED
    BY <2>2, <2>3
<1> QED
  BY <1>1, StatsInvariant, PTL

\* A sample leaves no point older than the retention time, except behind a point with
\* a later time stamp that a wall clock set back has left in front of it.
THEOREM SamplesRetain == Spec => RetentionHolds
<1> DEFINE Young == appended' > appended =>
        \A n \in 0 .. count' - 1 :
            \/ PointAt(n)'.timestamp + Retention > wall
            \/ \E m \in 0 .. count - 1 :
                /\ PointAt(m).id < PointAt(n)'.id
                /\ PointAt(m).timestamp > PointAt(n)'.timestamp
<1>1. ASSUME IInv, Next PROVE Young
  <2>1. CASE append_stats_point
    BY <1>1, <2>1, AppendRetention DEF IInv
  <2>2. ASSUME ~append_stats_point PROVE appended' = appended \/ appended' = 0
    BY <1>1, <2>2
       DEF Next, RecordUid, RecordPort, AddRow, PruneRow, ClearRows, ClearPorts, OtherSnapshot,
           Clock, SizeSnapshot, SampleRows, SampleFails, ClearHistory, DaemonRestart,
           RingCleared, points
  <2>3. appended \in Nat
    BY <1>1, StatsRingAssumption DEF IInv, TypeOK
  <2>4. CASE ~append_stats_point
    <3>1. ~ (appended' > appended)
      BY <2>2, <2>3, <2>4
    <3> QED
      BY <3>1
  <2> QED
    BY <2>1, <2>4
<1>2. IInv /\ [Next]_vars => [Young]_vars
  BY <1>1
<1> QED
  BY <1>2, StatsInvariant, PTL DEF Spec, RetentionHolds
=============================================================================
