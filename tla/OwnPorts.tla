------------------------------ MODULE OwnPorts ------------------------------
(***************************************************************************)
(* A target application may connect to the local services it runs itself,  *)
(* although its port rules block local ports.  Which services are its own  *)
(* is known from two places: the pending table, written by the bind and    *)
(* listen hooks and valid for two seconds, and the snapshot the daemon     *)
(* builds from socket diagnostics and installs with VH_SET_OWNED_PORTS.    *)
(* publish_policy_snapshot empties both.                                   *)
(*                                                                         *)
(* All sockets use one port and one hash set of the pending table.  Time   *)
(* passes in ticks; counters hold the ticks that are left.  Tick waits for *)
(* a daemon that has something to do: its loop is quick against its own    *)
(* timers, which is what the bounds below assume.                          *)
(***************************************************************************)
EXTENDS Integers, FiniteSets, FiniteSetsExt

CONSTANTS
    Sockets,       \* records [uid, family, address, id]
    Ways,          \* VPNHIDE_PENDING_PORT_WAYS
    PendingTTL,    \* VPNHIDE_PENDING_PORT_TTL
    SnapshotTTL,   \* 120 * HZ in replace_owned_ports
    Reconcile,     \* 60 s in daemon/main.c
    PortDelay,     \* 75 ms after a port event
    DiagDelay,     \* 25 ms after a socket was destroyed
    ConfigDelay,   \* 100 ms after a configuration event
    SlowHooks,     \* may time pass while a hook runs
    MaxPublishes,  \* bound: policies published
    MaxFailures    \* bound: refreshes that fail in a row

Families == {"inet", "inet6"}
Addresses == {"any", "loopback", "other"}
Uids == {s.uid : s \in Sockets}

ASSUME OwnPortsAssumption ==
    /\ \A s \in Sockets : s.uid \in Nat \ {0} /\ s.family \in Families
                          /\ s.address \in Addresses
    /\ Ways \in Nat \ {0}
    /\ PendingTTL \in Nat \ {0} /\ SnapshotTTL \in Nat \ {0} /\ Reconcile \in Nat \ {0}
    /\ PortDelay \in Nat \ {0} /\ DiagDelay \in Nat \ {0} /\ ConfigDelay \in Nat \ {0}
    /\ MaxPublishes \in Nat /\ MaxFailures \in Nat
    /\ PendingTTL <= Reconcile

\* struct vpnhide_owned_port of a socket; uid 0 marks an unused entry.
Owner(s) == [uid |-> s.uid, family |-> s.family, address |-> s.address]
NoOwner == [uid |-> 0, family |-> "inet", address |-> "any"]
Unused == [owner |-> NoOwner, left |-> 0]
NoSnapshot == [owners |-> {}, left |-> 0]
NotDue == -1

VARIABLES
    targets,   \* UIDs with a port target in the policy
    published, \* history: number of policies published
    publishing,\* "no", "daemon" or "other": between the new policy and the clears
    live,      \* sockets that listen (or are bound, for datagrams)
    rpc,       \* per socket: step of its hook
    pending,   \* pending_ports: entry of each way
    owned,     \* owned_ports_snapshot
    event,     \* the eventfd is readable
    destroyed, \* the diagnostics socket is readable
    due,       \* owned_ports_due, in ticks, or NotDue
    reconcile, \* next_owned_ports_reconcile, in ticks
    dpc, dump, \* refresh_owned_ports: step, owners found
    fails,     \* history: failures since the last refresh
    blind, stale     \* history: ticks a listener was unknown, a dead one known

policy == <<targets, published, publishing>>
hook == <<live, rpc>>
daemon == <<due, reconcile, dpc, dump, fails>>
events == <<event, destroyed>>
clocks == <<blind, stale>>
vars == <<policy, hook, pending, owned, daemon, events, clocks>>

Init ==
    /\ targets \in SUBSET Uids /\ published = 0 /\ publishing = "no"
    /\ live = {}
    /\ rpc = [s \in Sockets |-> "idle"]
    /\ pending = [w \in 1..Ways |-> Unused]
    /\ owned = NoSnapshot
    /\ event = FALSE /\ destroyed = FALSE
    /\ due = NotDue /\ reconcile = Reconcile
    /\ dpc = "idle" /\ dump = {} /\ fails = 0
    /\ blind = [s \in Sockets |-> 0] /\ stale = [s \in Sockets |-> 0]

-----------------------------------------------------------------------------
(* Lookups.                                                                *)

owned_port_is_local(owner) == owner.address \in {"any", "loopback"}

\* The owners of a snapshot that has not expired.
OwnedOwners == IF owned.left > 0 THEN owned.owners ELSE {}

PendingOwners == {pending[w].owner : w \in {v \in 1..Ways : pending[v].left > 0}}

\* The address itself, or the wildcard of the same family.
vpnhide_uid_owns_port(wanted) ==
    /\ owned_port_is_local(wanted)
    /\ {wanted, [wanted EXCEPT !.address = "any"]} \cap (OwnedOwners \cup PendingOwners) # {}

\* direct_connect_should_block for a destination the rules of the UID block.
direct_connect_should_block(wanted) ==
    /\ wanted.uid \in targets
    /\ owned_port_is_local(wanted)
    /\ ~vpnhide_uid_owns_port(wanted)

\* A listener of a target whose hook is done; and a listener that is gone: the
\* application has no other socket like it, nor a hook that may yet record one.
Settled(s) == s \in live /\ rpc[s] = "idle" /\ s.uid \in targets
                         /\ owned_port_is_local(Owner(s))
Gone(s) == \A t \in Sockets : Owner(t) = Owner(s) => t \notin live /\ rpc[t] = "idle"
Known(s) == vpnhide_uid_owns_port(Owner(s))
OwnEntry(s) == Owner(s) \in OwnedOwners \cup PendingOwners

\* The clocks of the bounds stop when a listener becomes known, an entry goes.
Watch ==
    /\ blind' = [s \in Sockets |-> IF Known(s)' THEN 0 ELSE blind[s]]
    /\ stale' = [s \in Sockets |-> IF OwnEntry(s)' THEN stale[s] ELSE 0]

-----------------------------------------------------------------------------
(* The application and the hooks on inet_listen, inet_bind and bind.       *)

\* The call succeeds: the socket is visible to socket diagnostics.
Listen(s) ==
    /\ s \notin live
    /\ rpc[s] = "idle"
    /\ live' = live \cup {s}
    /\ rpc' = [rpc EXCEPT ![s] = "check"]
    /\ blind' = [blind EXCEPT ![s] = 0]
    /\ stale' = [t \in Sockets |-> IF Owner(t) = Owner(s) THEN 0 ELSE stale[t]]
    /\ UNCHANGED <<policy, pending, owned, daemon, events>>

\* vpnhide_record_bound_socket: the address, and the policy under RCU.
CheckTarget(s) ==
    /\ rpc[s] = "check"
    /\ IF owned_port_is_local(Owner(s)) /\ s.uid \in targets
       THEN rpc' = [rpc EXCEPT ![s] = "record"]
       ELSE rpc' = [rpc EXCEPT ![s] = "idle"]
    /\ UNCHANGED <<live, policy, pending, owned, daemon, events, clocks>>

\* The first way that holds the owner, is unused or has expired; otherwise the
\* one that expires first.
Reusable(owner) ==
    {w \in 1..Ways : pending[w].owner = owner \/ pending[w].left = 0}

Oldest == Min({w \in 1..Ways : \A v \in 1..Ways : pending[w].left <= pending[v].left})

SelectWay(owner) == IF Reusable(owner) # {} THEN Min(Reusable(owner)) ELSE Oldest

TimeToLive(w) == PendingTTL

\* The critical section under pending_ports_lock.
RecordPending(s) ==
    LET w == SelectWay(Owner(s))
        changed == pending[w].owner # Owner(s) \/ pending[w].left = 0
    IN
    /\ rpc[s] = "record"
    /\ pending' = [pending EXCEPT ![w] = [owner |-> Owner(s), left |-> TimeToLive(w)]]
    /\ rpc' = [rpc EXCEPT ![s] = IF changed THEN "notify" ELSE "idle"]
    /\ UNCHANGED <<live, policy, owned, daemon, events>>
    /\ Watch

vpnhide_notify_port_change(s) ==
    /\ rpc[s] = "notify"
    /\ event' = (event \/ s.uid \in targets)
    /\ rpc' = [rpc EXCEPT ![s] = "idle"]
    /\ UNCHANGED <<live, policy, pending, owned, daemon, destroyed, clocks>>

\* The socket is closed: socket diagnostics report it to the daemon.
Close(s) ==
    /\ s \in live
    /\ live' = live \ {s}
    /\ destroyed' = TRUE
    /\ blind' = [blind EXCEPT ![s] = 0]
    /\ UNCHANGED <<rpc, policy, pending, owned, daemon, event, stale>>

-----------------------------------------------------------------------------
(* publish_policy_snapshot, under policy_apply_lock.                       *)

AssignPolicy(new, by) ==
    /\ publishing = "no"
    /\ published < MaxPublishes
    /\ targets' = new
    /\ published' = published + 1
    /\ publishing' = by

\* Some other process loads a policy.
OtherPublishes(new) ==
    /\ AssignPolicy(new, "other")
    /\ UNCHANGED <<hook, pending, owned, daemon, events, clocks>>

\* drain_config_events: the daemon runs vpnhide-ctl load and waits for it.
DaemonReloads(new) ==
    /\ dpc = "idle"
    /\ AssignPolicy(new, "daemon")
    /\ dpc' = "reloading"
    /\ UNCHANGED <<hook, pending, owned, due, reconcile, dump, fails, events, clocks>>

\* Both tables are emptied; the daemon, if it waited, schedules a refresh.
ClearOwnership ==
    /\ publishing # "no"
    /\ pending' = [w \in 1..Ways |-> Unused]
    /\ owned' = NoSnapshot
    /\ publishing' = "no"
    /\ IF publishing = "daemon"
       THEN dpc' = "idle" /\ due' = ConfigDelay
       ELSE UNCHANGED <<dpc, due>>
    /\ UNCHANGED <<targets, published, hook, reconcile, dump, fails, events>>
    /\ Watch

-----------------------------------------------------------------------------
(* The daemon's loop.                                                      *)

\* A port event and a destroy event seen in the same round: the latter decides.
DrainEvents ==
    /\ dpc = "idle"
    /\ event \/ destroyed
    /\ due' = IF destroyed THEN DiagDelay ELSE PortDelay
    /\ event' = FALSE /\ destroyed' = FALSE
    /\ UNCHANGED <<policy, hook, pending, owned, reconcile, dpc, dump, fails, clocks>>

\* Wrong variant: the period only matters when no event is waiting.
RefreshDueOnly == IF due # NotDue THEN due = 0 ELSE reconcile = 0

RefreshNow == due = 0 \/ reconcile = 0

\* refresh_owned_ports begins, with both deadlines set anew.
StartRefresh ==
    /\ dpc = "idle"
    /\ RefreshNow
    /\ due' = NotDue
    /\ reconcile' = Reconcile
    /\ dpc' = "inet"
    /\ dump' = {}
    /\ UNCHANGED <<policy, hook, pending, owned, fails, events, clocks>>

\* Wrong variant: each family starts a new list.
DumpFamilyAlone(family, next) ==
    /\ dpc = family
    /\ dump' = {Owner(s) : s \in {t \in live :
                  t.family = family /\ owned_port_is_local(Owner(t))}}
    /\ dpc' = next
    /\ UNCHANGED <<policy, hook, pending, owned, due, reconcile, fails, events, clocks>>

\* dump_owned_ports_family, one family after the other.
DumpFamily(family, next) ==
    /\ dpc = family
    /\ dump' = dump \cup {Owner(s) : s \in {t \in live :
                  t.family = family /\ owned_port_is_local(Owner(t))}}
    /\ dpc' = next
    /\ UNCHANGED <<policy, hook, pending, owned, due, reconcile, fails, events, clocks>>

\* Wrong variant: the new list is added to the old one.
InstallMerged ==
    /\ dpc = "install"
    /\ publishing = "no"
    /\ owned' = [owners |-> owned.owners \cup dump, left |-> SnapshotTTL]
    /\ dpc' = "idle" /\ dump' = {} /\ fails' = 0
    /\ UNCHANGED <<policy, hook, pending, due, reconcile, events>>
    /\ Watch

\* VH_SET_OWNED_PORTS: replace_owned_ports needs policy_apply_lock.
InstallOwned ==
    /\ dpc = "install"
    /\ publishing = "no"
    /\ owned' = [owners |-> dump, left |-> SnapshotTTL]
    /\ dpc' = "idle" /\ dump' = {} /\ fails' = 0
    /\ UNCHANGED <<policy, hook, pending, due, reconcile, events>>
    /\ Watch

\* No memory, too many sockets, a netlink error: the snapshot stays.
RefreshFails ==
    /\ dpc \in {"inet", "inet6", "install"}
    /\ fails < MaxFailures
    /\ fails' = fails + 1
    /\ dpc' = "idle" /\ dump' = {}
    /\ UNCHANGED <<policy, hook, pending, owned, due, reconcile, events, clocks>>

Less(n) == IF n > 0 THEN n - 1 ELSE n

\* Time passes while the daemon sleeps in poll.
Tick ==
    /\ dpc = "idle" /\ ~event /\ ~destroyed /\ ~RefreshNow
    /\ publishing = "no"
    /\ SlowHooks \/ \A s \in Sockets : rpc[s] = "idle"
    /\ pending' = [w \in 1..Ways |-> [pending[w] EXCEPT !.left = Less(@)]]
    /\ owned' = [owned EXCEPT !.left = Less(@)]
    /\ due' = Less(due)
    /\ reconcile' = Less(reconcile)
    /\ blind' = [s \in Sockets |-> IF Settled(s) /\ ~Known(s) THEN blind[s] + 1 ELSE 0]
    /\ stale' = [s \in Sockets |-> IF Gone(s) /\ OwnEntry(s) THEN stale[s] + 1 ELSE 0]
    /\ UNCHANGED <<policy, hook, dpc, dump, fails, events>>

Next ==
    \/ \E s \in Sockets : \/ Listen(s) \/ CheckTarget(s) \/ RecordPending(s)
                          \/ vpnhide_notify_port_change(s) \/ Close(s)
    \/ \E new \in SUBSET Uids : OtherPublishes(new) \/ DaemonReloads(new)
    \/ ClearOwnership
    \/ DrainEvents \/ StartRefresh
    \/ DumpFamily("inet", "inet6") \/ DumpFamily("inet6", "install")
    \/ InstallOwned \/ RefreshFails \/ Tick

Spec == Init /\ [][Next]_vars

-----------------------------------------------------------------------------
OwnerType == [uid : Uids, family : Families, address : Addresses]

TypeOK ==
    /\ targets \in SUBSET Uids /\ published \in 0..MaxPublishes
    /\ publishing \in {"no", "daemon", "other"}
    /\ live \in SUBSET Sockets
    /\ rpc \in [Sockets -> {"idle", "check", "record", "notify"}]
    /\ pending \in [1..Ways -> [owner : OwnerType \cup {NoOwner},
                                left : 0..PendingTTL]]
    /\ owned \in [owners : SUBSET OwnerType, left : 0..SnapshotTTL]
    /\ event \in BOOLEAN /\ destroyed \in BOOLEAN
    /\ due \in NotDue .. Max({PortDelay, DiagDelay, ConfigDelay})
    /\ reconcile \in 0..Reconcile
    /\ dpc \in {"idle", "reloading", "inet", "inet6", "install"}
    /\ dump \in SUBSET OwnerType
    /\ fails \in 0..MaxFailures
    /\ blind \in [Sockets -> Nat] /\ stale \in [Sockets -> Nat]

\* A target's own local listener is unknown to direct_connect_should_block for
\* no longer than one reconcile period per failed refresh and one more,
\* whatever events, policies and other sockets come and go.  Types are included.
BlindnessIsBounded ==
    /\ TypeOK
    /\ \A s \in Sockets : blind[s] <= Reconcile * (MaxFailures + 1)

\* A closed listener is taken for the target's own no longer than that either.
StalenessIsBounded ==
    \A s \in Sockets : stale[s] <= Reconcile * (MaxFailures + 1)

\* hooks_socket.c: "Record the actual port after success so subsequent localhost
\* connects by the same UID bypass the port deny rules."
OwnListenersBypassRules ==
    \A s \in Sockets : Settled(s) => ~direct_connect_should_block(Owner(s))
=============================================================================
