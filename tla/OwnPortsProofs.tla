--------------------------- MODULE OwnPortsProofs ---------------------------
(***************************************************************************)
(* Ownership of local ports, for every set of sockets, every size of the   *)
(* pending table and every timing: a target's own listener is forgotten,   *)
(* and a closed one remembered, for a bounded time.  The reconcile         *)
(* deadline is what bounds both: it is the only one no event postpones.    *)
(***************************************************************************)
EXTENDS OwnPorts, TLAPS

Refreshing == dpc \in {"inet", "inet6", "install"}

\* How long a clock may have run: a period for every refresh that failed, and the
\* part of the current period that has passed, or all of it during a refresh.
Allowed == IF Refreshing THEN Reconcile * fails + Reconcile
           ELSE Reconcile * fails + (Reconcile - reconcile)

\* A refresh under way has set the deadline anew, and the daemon does nothing else
\* while it waits for its own load.
Deadline ==
    /\ Refreshing => reconcile = Reconcile
    /\ publishing = "daemon" => dpc = "reloading"

\* A listener is blind only while it listens, no longer than allowed, and the
\* refresh under way has found it once it is past its family.
BlindFor(s) ==
    /\ blind[s] > 0 => s \in live /\ owned_port_is_local(Owner(s))
    /\ blind[s] <= Allowed
    /\ blind[s] > 0 /\ dpc = "inet6" /\ s.family = "inet" => Owner(s) \in dump
    /\ blind[s] > 0 /\ dpc = "install" => Owner(s) \in dump

\* An owner is stale only once it is gone; its pending entries expire in time, the
\* snapshot that holds it is replaced in time, and the refresh under way does not
\* bring it back.
StaleFor(s) ==
    /\ stale[s] > 0 => Gone(s)
    /\ \A w \in 1..Ways : pending[w].owner = Owner(s) /\ pending[w].left > 0 =>
                              pending[w].left + stale[s] <= PendingTTL
    /\ Owner(s) \in OwnedOwners => stale[s] <= Allowed
    /\ Refreshing /\ Owner(s) \in dump => stale[s] = 0
    /\ stale[s] <= Reconcile * fails + Reconcile

Clocks == \A s \in Sockets : BlindFor(s) /\ StaleFor(s)

IInv == TypeOK /\ Deadline /\ Clocks
-----------------------------------------------------------------------------

\* The periods of failed refreshes.
LEMMA Periods ==
    ASSUME NEW n \in Nat
    PROVE  /\ Reconcile * n \in Nat /\ Reconcile * 0 = 0
           /\ Reconcile * (n + 1) = Reconcile * n + Reconcile
           /\ \A m \in Nat : n <= m => Reconcile * n <= Reconcile * m
           /\ n <= MaxFailures => Reconcile * n + Reconcile <= Reconcile * (MaxFailures + 1)
<1>1. Reconcile \in Nat \ {0} /\ MaxFailures \in Nat
  BY OwnPortsAssumption
<1>2. Reconcile * n \in Nat /\ Reconcile * 0 = 0 /\ Reconcile * (n + 1) = Reconcile * n + Reconcile
  BY <1>1
<1>3. \A m \in Nat : n <= m => Reconcile * n <= Reconcile * m
  BY <1>1
<1>4. Reconcile * (MaxFailures + 1) = Reconcile * MaxFailures + Reconcile
  BY <1>1
<1> QED
  BY <1>1, <1>2, <1>3, <1>4

\* A deadline is at most the longest delay.
LEMMA LongestDelay ==
    LET longest == Max({PortDelay, DiagDelay, ConfigDelay})
    IN  /\ longest \in Nat /\ PortDelay <= longest /\ DiagDelay <= longest
        /\ ConfigDelay <= longest
<1> DEFINE S == {PortDelay, DiagDelay, ConfigDelay}
<1>1. PortDelay \in Nat /\ DiagDelay \in Nat /\ ConfigDelay \in Nat
  BY OwnPortsAssumption
<1>2. \E x \in S : \A y \in S : x >= y
  BY <1>1
<1>3. Max(S) \in S /\ \A y \in S : Max(S) >= y
  BY <1>2 DEF Max
<1> QED
  BY <1>1, <1>3

\* The owners of sockets.
LEMMA OwnersTyped ==
    ASSUME NEW s \in Sockets
    PROVE  Owner(s) \in OwnerType
  BY OwnPortsAssumption DEF Owner, OwnerType, Uids

\* The clocks in Watch only stop.
LEMMA WatchStops ==
    ASSUME TypeOK, Watch
    PROVE  /\ blind' \in [Sockets -> Nat] /\ stale' \in [Sockets -> Nat]
           /\ \A s \in Sockets : blind'[s] \in {0, blind[s]} /\ stale'[s] \in {0, stale[s]}
           /\ \A s \in Sockets : blind'[s] <= blind[s] /\ stale'[s] <= stale[s]
           /\ \A s \in Sockets : Known(s)' => blind'[s] = 0
           /\ \A s \in Sockets : ~OwnEntry(s)' => stale'[s] = 0
<1>1. blind \in [Sockets -> Nat] /\ stale \in [Sockets -> Nat]
  BY DEF TypeOK
<1>2. blind' = [s \in Sockets |-> IF Known(s)' THEN 0 ELSE blind[s]]
  BY DEF Watch
<1>3. stale' = [s \in Sockets |-> IF OwnEntry(s)' THEN stale[s] ELSE 0]
  BY DEF Watch
<1> QED
  BY <1>1, <1>2, <1>3

-----------------------------------------------------------------------------
(* The types.                                                              *)

\* The types hold at the start.
LEMMA TypeInit == Init => TypeOK
<1> SUFFICES ASSUME Init PROVE TypeOK
  OBVIOUS
<1>1. /\ 0 \in 0..MaxPublishes /\ 0 \in 0..PendingTTL /\ 0 \in 0..SnapshotTTL
      /\ Reconcile \in 0..Reconcile /\ 0 \in 0..MaxFailures
      /\ NotDue \in NotDue .. Max({PortDelay, DiagDelay, ConfigDelay})
  BY OwnPortsAssumption, LongestDelay DEF NotDue
<1>2. pending \in [1..Ways -> [owner : OwnerType \cup {NoOwner}, left : 0..PendingTTL]]
  BY <1>1 DEF Init, Unused
<1>3. owned \in [owners : SUBSET OwnerType, left : 0..SnapshotTTL]
  BY <1>1 DEF Init, NoSnapshot
<1> QED
  BY <1>1, <1>2, <1>3 DEF Init, TypeOK

\* The types, action by action.
LEMMA TypeStep == TypeOK /\ [Next]_vars => TypeOK'
<1> SUFFICES ASSUME TypeOK, [Next]_vars PROVE TypeOK'
  OBVIOUS
<1>1. ASSUME NEW s \in Sockets, Listen(s) PROVE TypeOK'
  BY <1>1 DEF Listen, policy, daemon, events, TypeOK
<1>2. ASSUME NEW s \in Sockets, CheckTarget(s) PROVE TypeOK'
  BY <1>2 DEF CheckTarget, policy, daemon, events, clocks, TypeOK
<1>3. ASSUME NEW s \in Sockets, RecordPending(s) PROVE TypeOK'
  <2>1. [owner |-> Owner(s), left |-> PendingTTL]
            \in [owner : OwnerType \cup {NoOwner}, left : 0..PendingTTL]
    BY OwnersTyped, OwnPortsAssumption
  <2>2. pending' \in [1..Ways -> [owner : OwnerType \cup {NoOwner}, left : 0..PendingTTL]]
    BY <1>3, <2>1 DEF RecordPending, TimeToLive, TypeOK
  <2>3. rpc' \in [Sockets -> {"idle", "check", "record", "notify"}]
    BY <1>3 DEF RecordPending, TypeOK
  <2>4. blind' \in [Sockets -> Nat] /\ stale' \in [Sockets -> Nat]
    BY <1>3, WatchStops DEF RecordPending
  <2> QED
    BY <1>3, <2>2, <2>3, <2>4 DEF RecordPending, policy, daemon, events, TypeOK
<1>4. ASSUME NEW s \in Sockets, vpnhide_notify_port_change(s) PROVE TypeOK'
  <2>1. event' \in BOOLEAN
    BY <1>4 DEF vpnhide_notify_port_change, TypeOK
  <2> QED
    BY <1>4, <2>1 DEF vpnhide_notify_port_change, policy, daemon, clocks, TypeOK
<1>5. ASSUME NEW s \in Sockets, Close(s) PROVE TypeOK'
  BY <1>5 DEF Close, policy, daemon, TypeOK
<1>6. ASSUME NEW new \in SUBSET Uids, OtherPublishes(new) PROVE TypeOK'
  BY <1>6, OwnPortsAssumption DEF OtherPublishes, AssignPolicy, hook, daemon, events, clocks, TypeOK
<1>7. ASSUME NEW new \in SUBSET Uids, DaemonReloads(new) PROVE TypeOK'
  BY <1>7, OwnPortsAssumption DEF DaemonReloads, AssignPolicy, hook, events, clocks, TypeOK
<1>8. CASE ClearOwnership
  <2>1. pending' \in [1..Ways -> [owner : OwnerType \cup {NoOwner}, left : 0..PendingTTL]]
    BY <1>8, OwnPortsAssumption DEF ClearOwnership, Unused
  <2>2. owned' \in [owners : SUBSET OwnerType, left : 0..SnapshotTTL]
    BY <1>8, OwnPortsAssumption DEF ClearOwnership, NoSnapshot
  <2>3. due' \in NotDue .. Max({PortDelay, DiagDelay, ConfigDelay})
    <3>1. due' \in {ConfigDelay, due}
      BY <1>8 DEF ClearOwnership
    <3>2. due \in NotDue .. Max({PortDelay, DiagDelay, ConfigDelay})
      BY DEF TypeOK
    <3> QED
      BY <3>1, <3>2, OwnPortsAssumption, LongestDelay DEF NotDue
  <2>4. blind' \in [Sockets -> Nat] /\ stale' \in [Sockets -> Nat]
    BY <1>8, WatchStops DEF ClearOwnership
  <2>5. dpc' \in {"idle", "reloading", "inet", "inet6", "install"} /\ publishing' = "no"
    BY <1>8 DEF ClearOwnership, TypeOK
  <2> QED
    BY <1>8, <2>1, <2>2, <2>3, <2>4, <2>5 DEF ClearOwnership, hook, events, TypeOK
<1>9. CASE DrainEvents
  <2>1. due' \in NotDue .. Max({PortDelay, DiagDelay, ConfigDelay})
    BY <1>9, OwnPortsAssumption, LongestDelay DEF DrainEvents, NotDue
  <2> QED
    BY <1>9, <2>1 DEF DrainEvents, policy, hook, clocks, TypeOK
<1>10. CASE StartRefresh
  <2>1. due' \in NotDue .. Max({PortDelay, DiagDelay, ConfigDelay})
    BY <1>10, LongestDelay DEF StartRefresh, NotDue
  <2>2. reconcile' \in 0..Reconcile
    BY <1>10, OwnPortsAssumption DEF StartRefresh
  <2> QED
    BY <1>10, <2>1, <2>2 DEF StartRefresh, policy, hook, events, clocks, TypeOK
<1>11. ASSUME NEW family, NEW next \in {"inet6", "install"}, DumpFamily(family, next)
       PROVE  TypeOK'
  <2>1. dump' \in SUBSET OwnerType
    BY <1>11, OwnersTyped DEF DumpFamily, TypeOK
  <2> QED
    BY <1>11, <2>1 DEF DumpFamily, policy, hook, events, clocks, TypeOK
<1>12. CASE InstallOwned
  <2>1. owned' \in [owners : SUBSET OwnerType, left : 0..SnapshotTTL]
    BY <1>12, OwnPortsAssumption DEF InstallOwned, TypeOK
  <2>2. blind' \in [Sockets -> Nat] /\ stale' \in [Sockets -> Nat]
    BY <1>12, WatchStops DEF InstallOwned
  <2>3. fails' \in 0..MaxFailures
    BY <1>12, OwnPortsAssumption DEF InstallOwned
  <2> QED
    BY <1>12, <2>1, <2>2, <2>3 DEF InstallOwned, policy, hook, events, TypeOK
<1>13. CASE RefreshFails
  <2>1. fails' \in 0..MaxFailures
    BY <1>13, OwnPortsAssumption DEF RefreshFails, TypeOK
  <2> QED
    BY <1>13, <2>1 DEF RefreshFails, policy, hook, events, clocks, TypeOK
<1>14. CASE Tick
  <2> DEFINE Entry == [owner : OwnerType \cup {NoOwner}, left : 0..PendingTTL]
  <2>0. /\ \A n \in 0..PendingTTL : Less(n) \in 0..PendingTTL
        /\ \A n \in 0..SnapshotTTL : Less(n) \in 0..SnapshotTTL
    BY OwnPortsAssumption DEF Less
  <2>1. pending' \in [1..Ways -> [owner : OwnerType \cup {NoOwner}, left : 0..PendingTTL]]
    <3>1. \A e \in Entry : [e EXCEPT !.left = Less(@)] \in Entry
      BY <2>0
    <3>2. \A w \in 1..Ways : pending[w] \in Entry
      BY DEF TypeOK
    <3> HIDE DEF Entry
    <3>3. pending' = [w \in 1..Ways |-> [pending[w] EXCEPT !.left = Less(@)]]
      BY <1>14 DEF Tick
    <3>4. pending' \in [1..Ways -> Entry]
      BY <3>1, <3>2, <3>3
    <3> QED
      BY <3>4 DEF Entry
  <2>2. owned' \in [owners : SUBSET OwnerType, left : 0..SnapshotTTL]
    BY <1>14, <2>0 DEF Tick, TypeOK
  <2>3. due' \in NotDue .. Max({PortDelay, DiagDelay, ConfigDelay})
    <3>1. due' = Less(due) /\ due \in NotDue .. Max({PortDelay, DiagDelay, ConfigDelay})
      BY <1>14 DEF Tick, TypeOK
    <3> QED
      BY <3>1, LongestDelay DEF Less, NotDue
  <2>4. reconcile' \in 0..Reconcile
    <3>1. reconcile' = Less(reconcile) /\ reconcile \in 0..Reconcile /\ Reconcile \in Nat
      BY <1>14, OwnPortsAssumption DEF Tick, TypeOK
    <3> QED
      BY <3>1 DEF Less
  <2>5. blind' \in [Sockets -> Nat] /\ stale' \in [Sockets -> Nat]
    BY <1>14 DEF Tick, TypeOK
  <2> QED
    BY <1>14, <2>1, <2>2, <2>3, <2>4, <2>5 DEF Tick, policy, hook, events, TypeOK
<1>15. CASE UNCHANGED vars
  BY <1>15 DEF vars, policy, hook, daemon, events, clocks, TypeOK
<1> QED
  BY <1>1, <1>2, <1>3, <1>4, <1>5, <1>6, <1>7, <1>8, <1>9, <1>10, <1>11, <1>12, <1>13,
     <1>14, <1>15 DEF Next

-----------------------------------------------------------------------------
(* The time allowed.                                                       *)

\* The time allowed, and its limit while no further refresh fails.
LEMMA AllowedIsNat ==
    TypeOK => /\ Allowed \in Nat /\ Allowed <= Reconcile * fails + Reconcile
              /\ Reconcile * fails \in Nat /\ Reconcile \in Nat
<1> SUFFICES ASSUME TypeOK
             PROVE  /\ Allowed \in Nat /\ Allowed <= Reconcile * fails + Reconcile
                    /\ Reconcile * fails \in Nat /\ Reconcile \in Nat
  OBVIOUS
<1>1. Reconcile \in Nat /\ reconcile \in 0..Reconcile /\ fails \in Nat
  BY OwnPortsAssumption DEF TypeOK
<1>2. Reconcile * fails \in Nat
  BY <1>1, Periods
<1> QED
  BY <1>1, <1>2 DEF Allowed

\* The same after a step.
LEMMA AllowedNext ==
    ASSUME TypeOK, [Next]_vars
    PROVE  /\ Allowed' \in Nat /\ fails' \in Nat /\ Reconcile * fails' \in Nat
           /\ Allowed' <= Reconcile * fails' + Reconcile
<1>1. TypeOK'
  BY TypeStep
<1>2. (Allowed \in Nat /\ Allowed <= Reconcile * fails + Reconcile)'
  BY <1>1, AllowedIsNat, PTL
<1>3. fails' \in Nat
  BY <1>1, OwnPortsAssumption DEF TypeOK
<1> QED
  BY <1>2, <1>3, Periods

\* The time allowed grows with time, and only a refresh that succeeds takes it back.
LEMMA AllowedStep ==
    ASSUME TypeOK, Deadline, [Next]_vars
    PROVE  /\ Deadline'
           /\ Tick => Allowed' = Allowed + 1
           /\ InstallOwned \/ (Allowed' >= Allowed /\ fails' >= fails)
           /\ InstallOwned => fails' = 0
<1>1. /\ Reconcile \in Nat \ {0} /\ reconcile \in 0..Reconcile /\ fails \in Nat
      /\ Reconcile * fails \in Nat
  BY Periods, OwnPortsAssumption DEF TypeOK
<1>2. Allowed \in Nat
  BY AllowedIsNat
<1>3. ASSUME UNCHANGED <<dpc, reconcile, fails>>, publishing' # "daemon" \/ publishing' = publishing
      PROVE  Deadline' /\ Allowed' = Allowed /\ fails' = fails
  BY <1>3 DEF Deadline, Allowed, Refreshing
<1>4. ASSUME NEW s \in Sockets, Listen(s) \/ CheckTarget(s) \/ RecordPending(s) \/ Close(s)
                                \/ vpnhide_notify_port_change(s)
      PROVE  Deadline' /\ Allowed' = Allowed /\ fails' = fails
  BY <1>3, <1>4 DEF Listen, CheckTarget, RecordPending, Close, vpnhide_notify_port_change,
                    daemon, policy
<1>5. ASSUME NEW new \in SUBSET Uids, OtherPublishes(new)
      PROVE  Deadline' /\ Allowed' = Allowed /\ fails' = fails
  BY <1>3, <1>5 DEF OtherPublishes, AssignPolicy, daemon
<1>6. ASSUME NEW new \in SUBSET Uids, DaemonReloads(new)
      PROVE  Deadline' /\ Allowed' = Allowed /\ fails' = fails
  BY <1>6 DEF DaemonReloads, AssignPolicy, Deadline, Allowed, Refreshing
<1>7. ASSUME ClearOwnership PROVE Deadline' /\ Allowed' = Allowed /\ fails' = fails
  BY <1>7 DEF ClearOwnership, Deadline, Allowed, Refreshing
<1>8. ASSUME DrainEvents PROVE Deadline' /\ Allowed' = Allowed /\ fails' = fails
  BY <1>3, <1>8 DEF DrainEvents, policy
<1>9. ASSUME StartRefresh PROVE Deadline' /\ Allowed' >= Allowed /\ fails' = fails
  <2>1. /\ ~Refreshing /\ Refreshing' /\ reconcile' = Reconcile /\ UNCHANGED <<publishing, fails>>
        /\ publishing # "daemon"
    BY <1>9 DEF StartRefresh, Refreshing, policy, Deadline
  <2> QED
    BY <1>1, <2>1 DEF Deadline, Allowed
<1>10. ASSUME DumpFamily("inet", "inet6") \/ DumpFamily("inet6", "install")
       PROVE  Deadline' /\ Allowed' = Allowed /\ fails' = fails
  BY <1>10 DEF DumpFamily, Deadline, Allowed, Refreshing, policy
<1>11. ASSUME InstallOwned PROVE Deadline' /\ fails' = 0
  BY <1>11 DEF InstallOwned, Deadline, Refreshing, policy
<1>12. ASSUME RefreshFails PROVE Deadline' /\ Allowed' >= Allowed /\ fails' >= fails
  <2>1. /\ Refreshing /\ ~Refreshing' /\ UNCHANGED <<reconcile, publishing>> /\ reconcile = Reconcile
        /\ fails' = fails + 1 /\ publishing # "daemon"
    BY <1>12 DEF RefreshFails, Refreshing, Deadline, policy
  <2>2. Reconcile * (fails + 1) = Reconcile * fails + Reconcile
    BY <1>1, Periods
  <2>3. Allowed' = Reconcile * (fails + 1) + (Reconcile - Reconcile)
    BY <2>1 DEF Allowed
  <2>4. Allowed = Reconcile * fails + Reconcile
    BY <2>1 DEF Allowed
  <2>5. Allowed' >= Allowed
    BY <1>1, <2>2, <2>3, <2>4
  <2> QED
    BY <1>1, <2>1, <2>5 DEF Deadline
<1>13. ASSUME Tick PROVE Deadline' /\ Allowed' = Allowed + 1 /\ fails' = fails
  <2>1. /\ ~Refreshing /\ ~Refreshing' /\ UNCHANGED <<fails, publishing, dpc>> /\ publishing = "no"
        /\ reconcile # 0 /\ reconcile' = Less(reconcile)
    BY <1>13 DEF Tick, Refreshing, RefreshNow, policy
  <2>2. reconcile' = reconcile - 1
    BY <1>1, <2>1 DEF Less
  <2> QED
    BY <1>1, <2>1, <2>2 DEF Deadline, Allowed
<1>14. ASSUME UNCHANGED vars PROVE Deadline' /\ Allowed' = Allowed /\ fails' = fails
  BY <1>3, <1>14 DEF vars, daemon, policy
<1>15. Allowed >= Allowed /\ Allowed + 1 >= Allowed /\ fails >= fails
  BY <1>1, <1>2
<1>16. Deadline' /\ (InstallOwned \/ (Allowed' >= Allowed /\ fails' >= fails))
  BY <1>4, <1>5, <1>6, <1>7, <1>8, <1>9, <1>10, <1>11, <1>12, <1>13, <1>14, <1>15 DEF Next
<1> QED
  BY <1>11, <1>13, <1>16

-----------------------------------------------------------------------------
(* Listeners that are not known.                                           *)

\* A step that does not let time pass, nor a refresh go on.
LEMMA BlindKept ==
    ASSUME IInv, [Next]_vars, ~InstallOwned, NEW s \in Sockets,
           blind'[s] \in {0, blind[s]}, blind'[s] > 0 => s \in live',
           dpc' \in {"inet6", "install"} => UNCHANGED <<dpc, dump>>
    PROVE  BlindFor(s)'
<1>1. blind[s] \in Nat /\ BlindFor(s) /\ Allowed \in Nat
  BY AllowedIsNat DEF IInv, TypeOK, Clocks
<1>2. Allowed' \in Nat /\ Allowed' >= Allowed
  BY AllowedNext, AllowedStep DEF IInv
<1> QED
  BY <1>1, <1>2 DEF BlindFor

\* What the refresh under way has found: the listeners of the families it has dumped.
LEMMA BlindDumped ==
    ASSUME IInv, NEW family \in Families, NEW next, DumpFamily(family, next),
           <<family, next>> \in {<<"inet", "inet6">>, <<"inet6", "install">>},
           NEW s \in Sockets
    PROVE  BlindFor(s)'
<1>1. blind[s] \in Nat /\ BlindFor(s) /\ s.family \in Families
  BY OwnPortsAssumption DEF IInv, TypeOK, Clocks
<1>2. Allowed' = Allowed
  BY DEF DumpFamily, Allowed, Refreshing
<1>3. /\ dpc = family /\ dpc' = next /\ UNCHANGED <<live, blind>> /\ dump \subseteq dump'
      /\ s \in live /\ s.family = family /\ owned_port_is_local(Owner(s)) => Owner(s) \in dump'
  BY DEF DumpFamily, hook, clocks
<1> QED
  BY <1>1, <1>2, <1>3 DEF BlindFor, Families

\* A refresh that succeeds makes every listener known.
LEMMA BlindInstalled ==
    ASSUME IInv, InstallOwned, NEW s \in Sockets
    PROVE  BlindFor(s)'
<1>1. blind[s] \in Nat /\ BlindFor(s)
  BY DEF IInv, TypeOK, Clocks
<1>2. OwnedOwners' = dump
  BY OwnPortsAssumption DEF InstallOwned, OwnedOwners
<1>3. blind[s] > 0 => Known(s)'
  <2>1. blind[s] > 0 => Owner(s) \in dump /\ owned_port_is_local(Owner(s))
    BY <1>1 DEF BlindFor, InstallOwned
  <2> QED
    BY <1>2, <2>1 DEF Known, vpnhide_uid_owns_port, owned_port_is_local
<1>4. blind'[s] = 0
  <2>1. TypeOK /\ Watch
    BY DEF InstallOwned, IInv
  <2>2. blind'[s] \in {0, blind[s]} /\ (Known(s)' => blind'[s] = 0)
    BY <2>1, WatchStops
  <2> QED
    BY <1>1, <1>3, <2>2
<1>5. Allowed' \in Nat
  BY AllowedNext DEF IInv, Next
<1> QED
  BY <1>4, <1>5 DEF BlindFor

\* Time passes.
LEMMA BlindTick ==
    ASSUME IInv, Tick, NEW s \in Sockets
    PROVE  BlindFor(s)'
<1>1. blind[s] \in Nat /\ BlindFor(s) /\ Allowed \in Nat
  BY AllowedIsNat DEF IInv, TypeOK, Clocks
<1>2. Allowed' = Allowed + 1
  BY AllowedStep DEF IInv, Next
<1>3. /\ blind'[s] = IF Settled(s) /\ ~Known(s) THEN blind[s] + 1 ELSE 0
      /\ dpc' = "idle" /\ live' = live
  BY DEF Tick, hook
<1>4. Settled(s) => s \in live /\ owned_port_is_local(Owner(s))
  BY DEF Settled
<1>5. blind'[s] > 0 => s \in live' /\ owned_port_is_local(Owner(s))
  BY <1>3, <1>4
<1>6. blind'[s] <= Allowed'
  BY <1>1, <1>2, <1>3 DEF BlindFor
<1> QED
  BY <1>3, <1>5, <1>6 DEF BlindFor

\* The bound of a listener that is not known, action by action.
LEMMA BlindStep ==
    ASSUME IInv, [Next]_vars, NEW s \in Sockets
    PROVE  BlindFor(s)'
<1>1. blind \in [Sockets -> Nat] /\ BlindFor(s) /\ TypeOK
  BY DEF IInv, TypeOK, Clocks
<1>2. blind[s] > 0 => s \in live
  BY <1>1 DEF BlindFor
<1>3. ASSUME NEW t \in Sockets, Listen(t) PROVE BlindFor(s)'
  <2>1. blind'[s] \in {0, blind[s]} /\ live \subseteq live' /\ UNCHANGED <<dpc, dump>>
    BY <1>1, <1>3 DEF Listen, daemon
  <2>2. blind'[s] > 0 => s \in live'
    BY <1>1, <1>2, <2>1
  <2>3. ~InstallOwned
    BY <1>3 DEF Listen, InstallOwned, daemon
  <2> QED
    BY <2>1, <2>2, <2>3, BlindKept
<1>4. ASSUME NEW t \in Sockets, CheckTarget(t) \/ vpnhide_notify_port_change(t) PROVE BlindFor(s)'
  <2>1. UNCHANGED <<blind, live, dpc, dump, fails, reconcile>>
    BY <1>4 DEF CheckTarget, vpnhide_notify_port_change, daemon, clocks
  <2> QED
    BY <1>1, <2>1 DEF BlindFor, Allowed, Refreshing
<1>5. ASSUME NEW t \in Sockets, RecordPending(t) PROVE BlindFor(s)'
  <2>1. blind'[s] \in {0, blind[s]} /\ UNCHANGED <<live, dpc, dump>>
    BY <1>1, <1>5, WatchStops DEF RecordPending, daemon
  <2>2. blind'[s] > 0 => s \in live'
    BY <1>2, <2>1
  <2>3. ~InstallOwned
    BY <1>5 DEF RecordPending, InstallOwned, daemon
  <2> QED
    BY <2>1, <2>2, <2>3, BlindKept
<1>6. ASSUME NEW t \in Sockets, Close(t) PROVE BlindFor(s)'
  <2>1. blind'[s] = (IF s = t THEN 0 ELSE blind[s]) /\ UNCHANGED <<dpc, dump>> /\ live' = live \ {t}
    BY <1>1, <1>6 DEF Close, daemon
  <2>2. blind'[s] > 0 => s \in live'
    BY <1>2, <2>1
  <2>3. ~InstallOwned
    BY <1>6 DEF Close, InstallOwned, daemon
  <2> QED
    BY <2>1, <2>2, <2>3, BlindKept
<1>7. ASSUME NEW new \in SUBSET Uids, OtherPublishes(new) \/ DaemonReloads(new) PROVE BlindFor(s)'
  <2>1. /\ UNCHANGED <<blind, live, dump, fails, reconcile>>
        /\ dpc' # dpc => dpc' = "reloading" /\ dpc = "idle"
    BY <1>7 DEF OtherPublishes, DaemonReloads, daemon, hook, clocks
  <2> QED
    BY <1>1, <2>1 DEF BlindFor, Allowed, Refreshing
<1>8. CASE ClearOwnership
  <2>1. blind'[s] \in {0, blind[s]} /\ UNCHANGED <<live, dump>> /\ (dpc' = dpc \/ dpc' = "idle")
    BY <1>1, <1>8, WatchStops DEF ClearOwnership, hook
  <2>2. blind'[s] > 0 => s \in live'
    BY <1>2, <2>1
  <2>3. ~InstallOwned
    BY <1>8 DEF ClearOwnership, InstallOwned, policy
  <2> QED
    BY <2>1, <2>2, <2>3, BlindKept
<1>9. CASE DrainEvents
  BY <1>1, <1>9 DEF DrainEvents, hook, clocks, BlindFor, Allowed, Refreshing
<1>10. CASE StartRefresh \/ RefreshFails
  <2>1. blind' = blind /\ live' = live /\ dpc' \in {"inet", "idle"}
    BY <1>10 DEF StartRefresh, RefreshFails, hook, clocks
  <2>2. ~InstallOwned
    <3>1. fails \in Nat
      BY <1>1, OwnPortsAssumption DEF TypeOK
    <3> QED
      BY <1>10, <3>1 DEF StartRefresh, RefreshFails, InstallOwned
  <2> QED
    BY <1>2, <2>1, <2>2, BlindKept
<1>11. CASE DumpFamily("inet", "inet6") \/ DumpFamily("inet6", "install")
  BY <1>11, BlindDumped DEF Families, IInv
<1>12. CASE UNCHANGED vars
  BY <1>1, <1>12 DEF vars, hook, daemon, clocks, BlindFor, Allowed, Refreshing
<1> QED
  BY <1>3, <1>4, <1>5, <1>6, <1>7, <1>8, <1>9, <1>10, <1>11, <1>12, BlindInstalled, BlindTick
     DEF Next

-----------------------------------------------------------------------------
(* Listeners that are gone.                                                *)

\* A clock that stands at zero.
LEMMA StaleZero ==
    ASSUME IInv, [Next]_vars, NEW s \in Sockets, stale'[s] = 0
    PROVE  StaleFor(s)'
<1>1. pending' \in [1..Ways -> [owner : OwnerType \cup {NoOwner}, left : 0..PendingTTL]]
  BY TypeStep DEF IInv, TypeOK
<1>2. \A w \in 1..Ways : pending'[w].left \in 0..PendingTTL
  BY <1>1
<1>3. /\ Allowed' \in Nat /\ Reconcile * fails' \in Nat /\ Reconcile \in Nat /\ PendingTTL \in Nat
  BY AllowedNext, OwnPortsAssumption DEF IInv
<1>4. \A w \in 1..Ways : pending'[w].left + 0 <= PendingTTL
  BY <1>2, <1>3
<1> QED
  BY <1>3, <1>4 DEF StaleFor

\* A step that neither lets time pass nor brings the owner back.
LEMMA StaleKept ==
    ASSUME IInv, [Next]_vars, ~InstallOwned, NEW s \in Sockets,
           stale'[s] \in {0, stale[s]}, Gone(s) => Gone(s)',
           \A w \in 1..Ways : pending'[w].owner = Owner(s) /\ pending'[w].left > 0
                                => pending'[w] = pending[w],
           OwnedOwners' \subseteq OwnedOwners,
           Refreshing' /\ Owner(s) \in dump' => Refreshing /\ Owner(s) \in dump
    PROVE  StaleFor(s)'
<1>1. stale[s] \in Nat /\ StaleFor(s) /\ Allowed \in Nat
  BY AllowedIsNat DEF IInv, TypeOK, Clocks
<1>2. /\ Allowed' \in Nat /\ Allowed' >= Allowed /\ Reconcile \in Nat
      /\ Reconcile * fails \in Nat /\ Reconcile * fails' \in Nat
      /\ Reconcile * fails <= Reconcile * fails'
  <2>1. fails' >= fails /\ fails \in Nat /\ fails' \in Nat
    <3>1. TypeOK /\ Deadline
      BY DEF IInv
    <3>2. fails \in Nat
      BY <3>1, OwnPortsAssumption DEF TypeOK
    <3> QED
      BY <3>1, <3>2, AllowedStep, AllowedNext
  <2> QED
    BY <2>1, AllowedStep, AllowedNext, AllowedIsNat, Periods DEF IInv
<1>3. CASE stale'[s] = 0
  BY <1>3, StaleZero
<1>4. CASE stale'[s] = stale[s]
  <2>1. stale'[s] > 0 => Gone(s)'
    BY <1>1, <1>4 DEF StaleFor
  <2>2. \A w \in 1..Ways : pending'[w].owner = Owner(s) /\ pending'[w].left > 0 =>
                              pending'[w].left + stale'[s] <= PendingTTL
    BY <1>1, <1>4 DEF StaleFor
  <2>3. Owner(s) \in OwnedOwners' => stale'[s] <= Allowed'
    BY <1>1, <1>2, <1>4 DEF StaleFor
  <2>4. Refreshing' /\ Owner(s) \in dump' => stale'[s] = 0
    BY <1>1, <1>4 DEF StaleFor
  <2>5. stale'[s] <= Reconcile * fails' + Reconcile
    BY <1>1, <1>2, <1>4 DEF StaleFor
  <2> QED
    BY <2>1, <2>2, <2>3, <2>4, <2>5 DEF StaleFor
<1> QED
  BY <1>3, <1>4

\* A step of a socket: it is either like s, and then s is not gone, or unlike s.
LEMMA StaleSocket ==
    ASSUME IInv, [Next]_vars, NEW s \in Sockets, NEW t \in Sockets,
           t \in live \/ rpc[t] # "idle",
           stale'[s] \in {0, stale[s]},
           \A u \in Sockets \ {t} : (u \in live' <=> u \in live) /\ rpc'[u] = rpc[u],
           \A w \in 1..Ways : pending'[w] # pending[w] => pending'[w].owner = Owner(t),
           UNCHANGED <<owned, daemon>>
    PROVE  StaleFor(s)'
<1>1. CASE Owner(t) = Owner(s)
  <2>1. ~Gone(s)
    BY <1>1 DEF Gone
  <2>2. stale[s] = 0
    BY <2>1 DEF IInv, TypeOK, Clocks, StaleFor
  <2> QED
    BY <2>2, StaleZero
<1>2. CASE Owner(t) # Owner(s)
  <2>1. Gone(s) => Gone(s)'
    BY <1>2 DEF Gone
  <2>2. ~InstallOwned
    BY DEF InstallOwned, daemon
  <2>3. OwnedOwners' = OwnedOwners /\ (Refreshing' <=> Refreshing) /\ dump' = dump
    BY DEF OwnedOwners, Refreshing, daemon
  <2>4. \A w \in 1..Ways : pending'[w].owner = Owner(s) /\ pending'[w].left > 0
                             => pending'[w] = pending[w]
    BY <1>2
  <2> QED
    BY <2>1, <2>2, <2>3, <2>4, StaleKept
<1> QED
  BY <1>1, <1>2

\* A refresh that succeeds: what it has not found is known no longer, except for
\* what is left of the pending time.
LEMMA StaleInstalled ==
    ASSUME IInv, InstallOwned, NEW s \in Sockets
    PROVE  StaleFor(s)'
<1>1. /\ stale[s] \in Nat /\ StaleFor(s) /\ Refreshing /\ Reconcile \in Nat /\ PendingTTL \in Nat
      /\ PendingTTL <= Reconcile
  BY OwnPortsAssumption DEF IInv, TypeOK, Clocks, InstallOwned, Refreshing
<1>2. OwnedOwners' = dump /\ UNCHANGED <<pending, live, rpc>> /\ fails' = 0 /\ dpc' = "idle" /\ Watch
  BY OwnPortsAssumption DEF InstallOwned, OwnedOwners, hook
<1>3. stale'[s] \in {0, stale[s]} /\ (~OwnEntry(s)' => stale'[s] = 0)
  BY <1>2, WatchStops DEF IInv
<1>4. CASE stale'[s] = 0
  BY <1>4, StaleZero DEF Next
<1>5. CASE stale'[s] # 0
  <2>1. stale'[s] = stale[s] /\ OwnEntry(s)' /\ stale[s] > 0
    BY <1>1, <1>3, <1>5
  <2>2. Owner(s) \notin dump
    BY <1>1, <2>1 DEF StaleFor
  <2>3. Owner(s) \in PendingOwners
    BY <1>2, <2>1, <2>2 DEF OwnEntry, PendingOwners
  <2>4. PICK w \in 1..Ways : pending[w].left > 0 /\ pending[w].owner = Owner(s)
    BY <2>3 DEF PendingOwners
  <2>5. pending[w].left \in Nat /\ pending[w].left + stale[s] <= PendingTTL
    BY <1>1, <2>4, OwnPortsAssumption DEF StaleFor, IInv, TypeOK
  <2>6. stale'[s] <= Reconcile
    BY <1>1, <2>1, <2>5
  <2>7. stale'[s] <= Reconcile * fails' + Reconcile
    BY <1>1, <1>2, <2>1, <2>6, Periods
  <2>8. Gone(s)'
    BY <1>1, <1>2, <2>1 DEF StaleFor, Gone
  <2>9. \A v \in 1..Ways : pending'[v].owner = Owner(s) /\ pending'[v].left > 0 =>
                              pending'[v].left + stale'[s] <= PendingTTL
    BY <1>1, <1>2, <2>1 DEF StaleFor
  <2>10. ~Refreshing'
    BY <1>2 DEF Refreshing
  <2> QED
    BY <1>2, <2>2, <2>7, <2>8, <2>9, <2>10 DEF StaleFor
<1> QED
  BY <1>4, <1>5

\* Time passes: what is left of an entry shrinks as the clock grows.
LEMMA StaleTick ==
    ASSUME IInv, Tick, NEW s \in Sockets
    PROVE  StaleFor(s)'
<1>1. /\ stale[s] \in Nat /\ StaleFor(s) /\ Reconcile \in Nat /\ PendingTTL \in Nat
      /\ PendingTTL <= Reconcile /\ Allowed \in Nat
  BY AllowedIsNat, OwnPortsAssumption DEF IInv, TypeOK, Clocks
<1>2. /\ stale'[s] = (IF Gone(s) /\ OwnEntry(s) THEN stale[s] + 1 ELSE 0)
      /\ UNCHANGED <<live, rpc, fails>> /\ dpc' = "idle"
      /\ pending' = [w \in 1..Ways |-> [pending[w] EXCEPT !.left = Less(@)]]
      /\ owned' = [owned EXCEPT !.left = Less(@)]
  BY DEF Tick, hook
<1>3. CASE stale'[s] = 0
  BY <1>3, StaleZero DEF Next
<1>4. CASE stale'[s] # 0
  <2>1. stale'[s] = stale[s] + 1 /\ Gone(s) /\ OwnEntry(s)
    BY <1>2, <1>4
  <2>2. Gone(s)'
    BY <1>2, <2>1 DEF Gone
  <2>3. \A w \in 1..Ways : /\ pending[w].left \in Nat /\ pending'[w].owner = pending[w].owner
                           /\ pending'[w].left = Less(pending[w].left)
    <3>1. pending \in [1..Ways -> [owner : OwnerType \cup {NoOwner}, left : 0..PendingTTL]]
      BY DEF IInv, TypeOK
    <3>2. ASSUME NEW w \in 1..Ways
          PROVE  /\ pending[w].left \in Nat /\ pending'[w].owner = pending[w].owner
                 /\ pending'[w].left = Less(pending[w].left)
      <4>1. pending[w] \in [owner : OwnerType \cup {NoOwner}, left : 0..PendingTTL]
        BY <3>1
      <4>2. pending'[w] = [pending[w] EXCEPT !.left = Less(@)]
        BY <1>2
      <4> QED
        BY <1>1, <4>1, <4>2
    <3> QED
      BY <3>2
  <2>4. ASSUME NEW w \in 1..Ways, pending'[w].owner = Owner(s), pending'[w].left > 0
        PROVE  pending'[w].left + stale'[s] <= PendingTTL
    <3>1. pending[w].left > 0 /\ pending'[w].left = pending[w].left - 1
      BY <2>3, <2>4 DEF Less
    <3>2. pending[w].left + stale[s] <= PendingTTL
      BY <1>1, <2>3, <2>4, <3>1 DEF StaleFor
    <3>3. pending[w].left \in Nat
      BY <2>3
    <3> QED
      BY <1>1, <2>1, <3>1, <3>2, <3>3
  <2>5. OwnedOwners' \subseteq OwnedOwners
    <3>1. owned'.owners = owned.owners /\ owned'.left = Less(owned.left) /\ owned.left \in Nat
      BY <1>2, OwnPortsAssumption DEF IInv, TypeOK
    <3> QED
      BY <3>1 DEF OwnedOwners, Less
  <2>6. Allowed' = Allowed + 1 /\ Allowed' <= Reconcile * fails' + Reconcile
        /\ Reconcile * fails' \in Nat
    BY AllowedStep, AllowedNext DEF IInv, Next
  <2>7. Owner(s) \in OwnedOwners => stale'[s] <= Allowed'
    BY <1>1, <2>1, <2>6 DEF StaleFor
  <2>8. stale'[s] <= Reconcile * fails' + Reconcile
    <3>1. CASE Owner(s) \in OwnedOwners
      BY <1>1, <2>1, <2>6, <2>7, <3>1
    <3>2. CASE Owner(s) \in PendingOwners
      <4>1. PICK w \in 1..Ways : pending[w].left > 0 /\ pending[w].owner = Owner(s)
        BY <3>2 DEF PendingOwners
      <4>2. pending[w].left + stale[s] <= PendingTTL
        BY <1>1, <4>1 DEF StaleFor
      <4>3. stale'[s] <= Reconcile
        BY <1>1, <2>1, <2>3, <4>1, <4>2
      <4> QED
        BY <1>1, <2>1, <2>6, <4>3
    <3> QED
      BY <2>1, <3>1, <3>2 DEF OwnEntry
  <2> QED
    BY <1>2, <2>2, <2>4, <2>5, <2>7, <2>8 DEF StaleFor, Refreshing
<1> QED
  BY <1>3, <1>4

\* The bound of an owner that is gone, action by action.
LEMMA StaleStep ==
    ASSUME IInv, [Next]_vars, NEW s \in Sockets
    PROVE  StaleFor(s)'
<1>1. /\ stale \in [Sockets -> Nat] /\ StaleFor(s) /\ TypeOK /\ live \subseteq Sockets
      /\ rpc \in [Sockets -> {"idle", "check", "record", "notify"}]
  BY DEF IInv, TypeOK, Clocks
<1>2. ASSUME NEW t \in Sockets, Listen(t) PROVE StaleFor(s)'
  <2>1. CASE Owner(s) = Owner(t)
    <3>1. stale'[s] = 0
      BY <1>2, <2>1 DEF Listen
    <3> QED
      BY <3>1, StaleZero
  <2>2. CASE Owner(s) # Owner(t)
    <3>1. stale'[s] = stale[s] /\ UNCHANGED <<pending, owned, daemon>>
      BY <1>2, <2>2 DEF Listen
    <3>2. Gone(s) => Gone(s)'
      BY <1>1, <1>2, <2>2 DEF Listen, Gone
    <3>3. OwnedOwners' = OwnedOwners /\ (Refreshing' <=> Refreshing) /\ dump' = dump /\ ~InstallOwned
      BY <3>1, <1>2 DEF OwnedOwners, Refreshing, daemon, InstallOwned
    <3> QED
      BY <3>1, <3>2, <3>3, StaleKept
  <2> QED
    BY <2>1, <2>2
<1>3. ASSUME NEW t \in Sockets, CheckTarget(t) \/ vpnhide_notify_port_change(t) PROVE StaleFor(s)'
  <2>1. /\ rpc[t] # "idle" /\ stale'[s] = stale[s] /\ UNCHANGED <<live, pending, owned, daemon>>
        /\ \A u \in Sockets \ {t} : rpc'[u] = rpc[u]
    BY <1>1, <1>3 DEF CheckTarget, vpnhide_notify_port_change, clocks
  <2> QED
    BY <2>1, StaleSocket
<1>4. ASSUME NEW t \in Sockets, RecordPending(t) PROVE StaleFor(s)'
  <2>1. /\ rpc[t] # "idle" /\ UNCHANGED <<live, owned, daemon>>
        /\ \A u \in Sockets \ {t} : rpc'[u] = rpc[u]
    BY <1>1, <1>4 DEF RecordPending
  <2>2. \A w \in 1..Ways : pending'[w] # pending[w] => pending'[w].owner = Owner(t)
    BY <1>1, <1>4 DEF RecordPending, TypeOK
  <2>3. stale'[s] \in {0, stale[s]}
    BY <1>1, <1>4, WatchStops DEF RecordPending
  <2> QED
    BY <2>1, <2>2, <2>3, StaleSocket
<1>5. ASSUME NEW t \in Sockets, Close(t) PROVE StaleFor(s)'
  <2>1. /\ t \in live /\ stale'[s] = stale[s] /\ UNCHANGED <<rpc, pending, owned, daemon>>
        /\ \A u \in Sockets \ {t} : u \in live' <=> u \in live
    BY <1>1, <1>5 DEF Close
  <2> QED
    BY <2>1, StaleSocket
<1>6. ASSUME stale' = stale, UNCHANGED <<live, rpc, pending, owned>>, ~InstallOwned,
             Refreshing' /\ Owner(s) \in dump' => Refreshing /\ Owner(s) \in dump
      PROVE  StaleFor(s)'
  <2>1. OwnedOwners' = OwnedOwners /\ (Gone(s) => Gone(s)')
    BY <1>6 DEF OwnedOwners, Gone
  <2> QED
    BY <1>6, <2>1, StaleKept
<1>7. ASSUME NEW new \in SUBSET Uids, OtherPublishes(new) \/ DaemonReloads(new) PROVE StaleFor(s)'
  BY <1>6, <1>7 DEF OtherPublishes, DaemonReloads, AssignPolicy, InstallOwned, policy, hook, daemon,
                    clocks, Refreshing
<1>8. CASE ClearOwnership
  <2>1. stale'[s] \in {0, stale[s]} /\ UNCHANGED <<live, rpc, dump>> /\ (dpc' = dpc \/ dpc' = "idle")
    BY <1>1, <1>8, WatchStops DEF ClearOwnership, hook
  <2>2. OwnedOwners' = {} /\ \A w \in 1..Ways : pending'[w].left = 0
    BY <1>8 DEF ClearOwnership, OwnedOwners, NoSnapshot, Unused
  <2>3. Gone(s) => Gone(s)'
    BY <2>1 DEF Gone
  <2>4. ~InstallOwned
    BY <1>8 DEF ClearOwnership, InstallOwned, policy
  <2>5. Refreshing' /\ Owner(s) \in dump' => Refreshing /\ Owner(s) \in dump
    BY <2>1 DEF Refreshing
  <2>6. /\ OwnedOwners' \subseteq OwnedOwners
        /\ \A w \in 1..Ways : pending'[w].owner = Owner(s) /\ pending'[w].left > 0
                              => pending'[w] = pending[w]
    BY <2>2
  <2> QED
    BY <2>1, <2>3, <2>4, <2>5, <2>6, StaleKept
<1>9. CASE DrainEvents
  BY <1>6, <1>9 DEF DrainEvents, InstallOwned, hook, clocks, Refreshing
<1>10. CASE StartRefresh
  BY <1>6, <1>10 DEF StartRefresh, InstallOwned, hook, clocks
<1>11. CASE RefreshFails
  <2>1. ~InstallOwned
    <3>1. fails' = fails + 1 /\ fails \in Nat
      BY <1>1, <1>11, OwnPortsAssumption DEF RefreshFails, TypeOK
    <3> QED
      BY <3>1 DEF InstallOwned
  <2> QED
    BY <1>6, <1>11, <2>1 DEF RefreshFails, hook, clocks
<1>12. ASSUME NEW family, NEW next, DumpFamily(family, next), family \in Families PROVE StaleFor(s)'
  <2>1. CASE \E t \in live : Owner(t) = Owner(s)
    <3>1. ~Gone(s)
      BY <1>1, <2>1 DEF Gone
    <3>2. stale'[s] = 0
      BY <1>1, <1>12, <3>1 DEF StaleFor, DumpFamily, clocks
    <3> QED
      BY <3>2, StaleZero
  <2>2. CASE ~ \E t \in live : Owner(t) = Owner(s)
    <3>1. stale' = stale /\ UNCHANGED <<live, rpc, pending, owned>> /\ Refreshing /\ ~InstallOwned
      BY <1>12 DEF DumpFamily, hook, clocks, Refreshing, InstallOwned, Families
    <3>2. Owner(s) \in dump' => Owner(s) \in dump
      BY <1>12, <2>2 DEF DumpFamily
    <3> QED
      BY <1>6, <3>1, <3>2
  <2> QED
    BY <2>1, <2>2
<1>13. CASE UNCHANGED vars
  <2>1. ~InstallOwned
    BY <1>13 DEF vars, daemon, InstallOwned
  <2> QED
    BY <1>6, <1>13, <2>1 DEF vars, hook, clocks, daemon, Refreshing
<1> QED
  BY <1>2, <1>3, <1>4, <1>5, <1>7, <1>8, <1>9, <1>10, <1>11, <1>12, <1>13, StaleInstalled, StaleTick
     DEF Next, Families

-----------------------------------------------------------------------------
(* The theorems.                                                           *)

\* The first state: nothing is known and no clock runs.
LEMMA InitIInv == Init => IInv
<1> SUFFICES ASSUME Init PROVE IInv
  OBVIOUS
<1>1. TypeOK
  BY TypeInit
<1>2. Allowed \in Nat /\ Reconcile * fails \in Nat /\ Reconcile \in Nat /\ PendingTTL \in Nat
  BY <1>1, AllowedIsNat, OwnPortsAssumption
<1>3. ASSUME NEW s \in Sockets PROVE BlindFor(s) /\ StaleFor(s)
  <2>1. /\ blind[s] = 0 /\ stale[s] = 0 /\ dpc = "idle" /\ owned.left = 0
        /\ \A w \in 1..Ways : pending[w].left = 0
    BY DEF Init, NoSnapshot, Unused
  <2> QED
    BY <1>2, <2>1 DEF BlindFor, StaleFor, Refreshing
<1>4. Deadline
  BY DEF Init, Deadline, Refreshing
<1> QED
  BY <1>1, <1>3, <1>4 DEF IInv, Clocks

\* The clocks and the types together.
LEMMA NextIInv == IInv /\ [Next]_vars => IInv'
<1> SUFFICES ASSUME IInv, [Next]_vars PROVE IInv'
  OBVIOUS
<1>1. TypeOK' /\ Deadline'
  BY TypeStep, AllowedStep DEF IInv
<1>2. ASSUME NEW s \in Sockets PROVE BlindFor(s)' /\ StaleFor(s)'
  BY BlindStep, StaleStep
<1> QED
  BY <1>1, <1>2 DEF IInv, Clocks

\* IInv is an invariant of port ownership.
THEOREM OwnershipInvariant == Spec => []IInv
  BY InitIInv, NextIInv, PTL DEF Spec

\* A target's own local listener is unknown for at most one reconcile period per
\* refresh that fails and one more, for every set of sockets, table and timing.
THEOREM OwnBlindnessIsBounded == Spec => []BlindnessIsBounded
<1>1. IInv => BlindnessIsBounded
  <2> SUFFICES ASSUME IInv, NEW s \in Sockets PROVE blind[s] <= Reconcile * (MaxFailures + 1)
    BY DEF IInv, BlindnessIsBounded
  <2>1. blind[s] \in Nat /\ blind[s] <= Allowed /\ TypeOK
    BY DEF IInv, TypeOK, Clocks, BlindFor
  <2>2. fails \in Nat /\ fails <= MaxFailures /\ MaxFailures \in Nat /\ Reconcile \in Nat
    BY <2>1, OwnPortsAssumption DEF TypeOK
  <2>3. Allowed \in Nat /\ Allowed <= Reconcile * fails + Reconcile /\ Reconcile * fails \in Nat
    BY <2>1, AllowedIsNat
  <2>4. Reconcile * fails + Reconcile <= Reconcile * (MaxFailures + 1)
    BY <2>2, Periods
  <2>5. Reconcile * (MaxFailures + 1) \in Nat
    BY <2>2, Periods
  <2> QED
    BY <2>1, <2>2, <2>3, <2>4, <2>5
<1> QED
  BY <1>1, OwnershipInvariant, PTL

\* A listener that is gone is taken for the application's own no longer than that,
\* whichever of the two tables still holds it.
THEOREM OwnStalenessIsBounded == Spec => []StalenessIsBounded
<1>1. IInv => StalenessIsBounded
  <2> SUFFICES ASSUME IInv, NEW s \in Sockets PROVE stale[s] <= Reconcile * (MaxFailures + 1)
    BY DEF StalenessIsBounded
  <2>1. stale[s] \in Nat /\ stale[s] <= Reconcile * fails + Reconcile /\ TypeOK
    BY DEF IInv, TypeOK, Clocks, StaleFor
  <2>2. fails \in Nat /\ fails <= MaxFailures /\ MaxFailures \in Nat /\ Reconcile \in Nat
    BY <2>1, OwnPortsAssumption DEF TypeOK
  <2>3. Reconcile * fails + Reconcile <= Reconcile * (MaxFailures + 1) /\ Reconcile * fails \in Nat
    BY <2>2, Periods
  <2>4. Reconcile * (MaxFailures + 1) \in Nat
    BY <2>2, Periods
  <2> QED
    BY <2>1, <2>2, <2>3, <2>4
<1> QED
  BY <1>1, OwnershipInvariant, PTL
=============================================================================
