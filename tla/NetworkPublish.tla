--------------------------- MODULE NetworkPublish ---------------------------
(***************************************************************************)
(* The network half of vpnhide-daemon.  The poll loop of daemon/main.c     *)
(* wakes for a netlink event, for a periodic rescan or for a follow-up     *)
(* scan, and runs update_spoof_ip (daemon/network.c): list the interfaces, *)
(* classify and probe each one, choose the cover interface, and publish    *)
(* to the kernel the addresses to show, the cover index, the cover name    *)
(* and the VPN list, with the file hiding commands in between.             *)
(*                                                                         *)
(* Interfaces come, go and change between any two of these steps, the      *)
(* configured prefixes change without a netlink event, and every call may  *)
(* fail.  Time is abstracted: a timer that runs may expire at any poll.    *)
(* The MTU of an address travels with it and is left out.                  *)
(***************************************************************************)
EXTENDS Integers, FiniteSets, SequencesExt

CONSTANTS
  Order,            \* the interfaces, in the order getifaddrs lists them
  Family,           \* name family: "eth", "wlan", "cell", "dummy", "other"
  Named,            \* interfaces whose name matches a built-in VPN pattern
  Tunnel,           \* interfaces with IFF_POINTOPOINT or a tunnel ARPHRD
  Prefixable,       \* interfaces a configured prefix may come to match
  Shapes,           \* interface -> its possible [up, v4, v6, ll]
  MAX_ACTIVE_VPNS,
  CacheMax,         \* capacity of the SUSFS registration cache
  MaxChanges,       \* bound on changes of the network and of the prefixes
  MaxFailures       \* bound on failing calls

VARIABLES
  net,              \* interface -> [idx, up, v4, v6, ll]; idx 0 is absent
  prefixes,         \* interfaces the published policy's prefixes match
  nextIdx,          \* the index the next interface created will have
  nlPending,        \* data waits on the netlink socket
  pc, pos,          \* step of the daemon, and position in a loop of it
  event,            \* netlink_event of the current iteration
  ok,               \* publish_ok
  seen,             \* [prefixes, list]: what the scan of this pass read
  infos,            \* the interfaces[] table: sequence of candidates
  vpns,             \* active_vpns: sequence of [idx, name]
  new, best,        \* new_ipv4, new_ipv6, new_ipv6_linklocal; best_ifname
  last,             \* last_ipv4, last_ipv6, last_ipv6_linklocal
  updatePending, retryCount,
  mode,             \* the file hiding tool the configuration file names
  tool,             \* the one read from it: susfs_enabled, use_nomount_...
  cache, hidden,    \* susfs_registered; what a tool was told to hide
  spoof, coverIdx, coverName, activeVpns, nameCache,   \* the kernel's
  silent,           \* history: the last pass lost data without noticing
  changes, failures \* counters for the bounds

netVars == <<net, prefixes, mode, nextIdx, nlPending, changes>>
passVars == <<seen, infos, vpns, new, best>>
loopVars == <<event, updatePending, retryCount>>
fileVars == <<tool, cache, hidden>>
kernelVars == <<spoof, coverIdx, coverName, activeVpns, nameCache>>
vars == <<netVars, pc, pos, ok, passVars, loopVars, last, fileVars,
          kernelVars, silent, failures>>

Ifaces == ToSet(Order)
None == <<>>
Absent == [idx |-> 0, up |-> FALSE, v4 |-> 0, v6 |-> 0, ll |-> 0]
NoAddresses == [v4 |-> None, v6 |-> None, ll |-> None]
NoIface == "none"
Tools == {"susfs", "nomount", "off"}

\* An address of interface i, or None: which interface an address belongs
\* to is what the properties tell apart.
Addr(i, n) == IF n = 0 THEN None ELSE <<i, n>>
AddrsOf(i) == {None} \cup {<<i, n>> : n \in 1..2}
-----------------------------------------------------------------------------
(* Classification and choice of the cover interface.                       *)

daemon_is_vpn_ifname(i, pfx) == i \in Named \cup pfx

IsVpnInterface(i, pfx) ==
  \/ daemon_is_vpn_ifname(i, pfx)
  \/ i \in Tunnel /\ Family[i] # "cell"

IsCoverCandidate(i) == Family[i] # "dummy"

Score(info) ==
  (CASE Family[info.name] = "eth" -> 100000
     [] Family[info.name] = "wlan" -> 50000
     [] Family[info.name] = "cell" -> 10000
     [] OTHER -> 1000)
  + (IF info.v4 # None THEN 5000 ELSE 0)
  + (IF info.v6 # None THEN 5000 ELSE 0)

HasEgress(info) == info.v4 # None \/ info.v6 # None

\* Wrong variant: the branch that resets the IPv4 address is missing.
ConsiderKeepsV4(acc, info) ==
  IF HasEgress(info) /\ Score(info) > acc.score
  THEN [score |-> Score(info), best |-> info.name,
        new |-> [v4 |-> IF info.v4 # None THEN info.v4 ELSE acc.new.v4,
                 v6 |-> info.v6, ll |-> info.ll]]
  ELSE acc

\* One round of the scoring loop.  The link-local address has no branch that
\* resets it: one of an interface considered before may stay.
Consider(acc, info) ==
  IF HasEgress(info) /\ Score(info) > acc.score
  THEN [score |-> Score(info), best |-> info.name,
        new |-> [v4 |-> info.v4, v6 |-> info.v6,
                 ll |-> IF info.ll # None THEN info.ll ELSE acc.new.ll]]
  ELSE acc

Choice(table) ==
  FoldLeft(Consider, [score |-> -1, best |-> NoIface, new |-> NoAddresses],
           table)
-----------------------------------------------------------------------------
(* The environment.                                                        *)

Change == changes < MaxChanges /\ changes' = changes + 1

Daemon == <<pc, pos, ok, passVars, loopVars, last, fileVars, kernelVars,
            silent, failures>>

With(idx, s) ==
  [idx |-> idx, up |-> s.up, v4 |-> s.v4, v6 |-> s.v6, ll |-> s.ll]

\* A link or an address changes: rtnetlink tells the daemon.
NetChange(i) ==
  /\ Change
  /\ \/ /\ net[i].idx = 0
        /\ \E s \in Shapes[i] : net' = [net EXCEPT ![i] = With(nextIdx, s)]
        /\ nextIdx' = nextIdx + 1
     \/ /\ net[i].idx # 0
        /\ \E s \in Shapes[i] :
             /\ With(net[i].idx, s) # net[i]
             /\ net' = [net EXCEPT ![i] = With(net[i].idx, s)]
        /\ UNCHANGED nextIdx
     \/ /\ net[i].idx # 0
        /\ net' = [net EXCEPT ![i] = Absent]
        /\ UNCHANGED nextIdx
  /\ nlPending' = TRUE
  /\ UNCHANGED <<prefixes, mode, Daemon>>

\* The configuration changes: a policy with other interface prefixes is
\* published, or another file hiding tool is named.  No netlink event.
ConfigChange ==
  /\ Change
  /\ \/ /\ \E p \in SUBSET Prefixable : p # prefixes /\ prefixes' = p
        /\ UNCHANGED mode
     \/ /\ \E t \in Tools : t # mode /\ mode' = t
        /\ UNCHANGED prefixes
  /\ UNCHANGED <<net, nextIdx, nlPending, Daemon>>
-----------------------------------------------------------------------------
(* The poll loop.                                                          *)

Fails == failures < MaxFailures /\ failures' = failures + 1
Works == UNCHANGED failures

Goto(step) == pc' = step /\ pos' = 1

\* Wrong variant: the interfaces are rescanned only after a failed pass.
PollNoRescan ==
  /\ pc = "poll"
  /\ IF ok /\ ~nlPending /\ ~updatePending
     THEN UNCHANGED vars
     ELSE /\ event' = nlPending
          /\ nlPending' = FALSE
          /\ updatePending' = FALSE
          /\ Goto("scan")
          /\ UNCHANGED <<net, prefixes, mode, nextIdx, changes, ok, passVars,
                         retryCount, last, fileVars, kernelVars, silent,
                         failures>>

\* An iteration of the loop that starts an update: it drains the netlink
\* socket, and finds the rescan timer and the follow-up timer expired or not.
Poll ==
  /\ pc = "poll"
  /\ \E rescan, due \in BOOLEAN :
       /\ due => updatePending
       /\ nlPending \/ rescan \/ due
       /\ updatePending' = (updatePending /\ ~due)
  /\ event' = nlPending
  /\ nlPending' = FALSE
  /\ Goto("scan")
  /\ UNCHANGED <<net, prefixes, mode, nextIdx, changes, ok, passVars, retryCount,
                 last, fileVars, kernelVars, silent, failures>>

\* The end of an update: a netlink event is followed by two more scans.  (The
\* locals of the pass go out of scope.)
UpdateDone ==
  /\ pc = "done"
  /\ updatePending' = (event \/ updatePending \/ retryCount = 2)
  /\ retryCount' = (IF event THEN 2
                    ELSE IF retryCount > 0 THEN retryCount - 1 ELSE 0)
  /\ event' = FALSE
  /\ seen' = [prefixes |-> {}, list |-> [i \in Ifaces |-> Absent]]
  /\ infos' = <<>> /\ vpns' = <<>>
  /\ new' = NoAddresses /\ best' = NoIface
  /\ Goto("poll")
  /\ UNCHANGED <<netVars, ok, last, fileVars, kernelVars, silent, failures>>
-----------------------------------------------------------------------------
(* update_spoof_ip.                                                        *)

\* VH_GET_IFACE_PREFIXES, whose failure leaves the zeroed prefixes, and
\* getifaddrs, whose failure ends the pass.
Scan ==
  /\ pc = "scan"
  /\ \/ /\ Works
        /\ seen' = [prefixes |-> prefixes, list |-> net]
        /\ ok' = TRUE /\ silent' = FALSE
        /\ Goto("probe")
     \/ /\ Fails
        /\ seen' = [prefixes |-> {}, list |-> net]
        /\ ok' = TRUE /\ silent' = TRUE
        /\ Goto("probe")
     \/ /\ Fails
        /\ ok' = FALSE
        /\ Goto("done")
        /\ UNCHANGED <<seen, silent>>
  /\ UNCHANGED <<netVars, infos, vpns, new, best, loopVars, last, fileVars,
                 kernelVars>>

\* Classify one listed interface and, for a candidate, test its egress routes.
\* The listing is the scan's; the index, the operational state and the
\* addresses of the routes are read now.
ProbeEffect(i) ==
  LET isVpn == IsVpnInterface(i, seen.prefixes)
      info == [name |-> i, v4 |-> Addr(i, net[i].v4), v6 |-> Addr(i, net[i].v6),
               ll |-> Addr(i, seen.list[i].ll)]
  IN /\ vpns' = IF isVpn /\ net[i].idx > 0 /\ Len(vpns) < MAX_ACTIVE_VPNS
                THEN Append(vpns, [idx |-> net[i].idx, name |-> i])
                ELSE vpns
     /\ infos' = IF ~isVpn /\ seen.list[i].up /\ IsCoverCandidate(i) /\ net[i].up
                 THEN Append(infos, info)
                 ELSE infos

Probe ==
  /\ pc = "probe"
  /\ IF seen.list[Order[pos]].idx # 0
     THEN ProbeEffect(Order[pos])
     ELSE UNCHANGED <<vpns, infos>>
  /\ IF pos < Len(Order)
     THEN pos' = pos + 1 /\ pc' = "probe"
     ELSE Goto("spoof")
  /\ UNCHANGED <<netVars, ok, seen, new, best, loopVars, last, fileVars,
                 kernelVars, silent, failures>>

\* The kernel's side of VH_SET_SPOOF_IP and of VH_SET_COVER_IFACE.
SetSpoofIp(sip) == spoof' = sip
SetCoverIface(idx) == coverIdx' = idx

\* Choose the cover interface; publish its addresses if they differ from the
\* ones last published.  The daemon remembers them only once the kernel has
\* taken them.
PublishSpoof ==
  /\ pc = "spoof"
  /\ LET choice == Choice(infos)
     IN /\ new' = choice.new
        /\ best' = choice.best
        /\ IF choice.new = last
           THEN Works /\ UNCHANGED <<spoof, last, ok>>
           ELSE \/ /\ Works
                   /\ SetSpoofIp(choice.new)
                   /\ last' = choice.new
                   /\ UNCHANGED ok
                \/ /\ Fails
                   /\ ok' = FALSE
                   /\ UNCHANGED <<spoof, last>>
  /\ Goto("cover")
  /\ UNCHANGED <<netVars, seen, infos, vpns, loopVars, fileVars, coverIdx,
                 coverName, activeVpns, nameCache, silent>>

\* VH_SET_COVER_IFACE with the index the chosen name has now.  An interface
\* that is gone by now leaves the old index and the old name in the kernel.
PublishCover ==
  /\ pc = "cover"
  /\ LET idx == IF best = NoIface THEN 0 ELSE net[best].idx
         gone == best # NoIface /\ idx = 0
     IN \/ /\ Works
           /\ IF gone THEN UNCHANGED coverIdx ELSE SetCoverIface(idx)
           /\ ok' = (ok /\ ~gone)
           /\ Goto(IF gone THEN "refresh" ELSE "name")
        \/ /\ Fails /\ ~gone
           /\ ok' = FALSE
           /\ Goto("name")
           /\ UNCHANGED coverIdx
  /\ UNCHANGED <<netVars, passVars, loopVars, last, fileVars, spoof,
                 coverName, activeVpns, nameCache, silent>>

\* Wrong variant: the name is written only when the kernel has none.
PublishNameIfNew ==
  /\ pc = "name"
  /\ \/ /\ Works
        /\ IF coverIdx # 0 /\ coverName # NoIface
           THEN UNCHANGED coverName
           ELSE coverName' = best
        /\ UNCHANGED ok
     \/ /\ Fails
        /\ ok' = FALSE
        /\ UNCHANGED coverName
  /\ Goto("refresh")
  /\ UNCHANGED <<netVars, passVars, loopVars, last, fileVars, spoof, coverIdx,
                 activeVpns, nameCache, silent>>

\* The cover_iface: command written to the control device.
PublishName ==
  /\ pc = "name"
  /\ \/ Works /\ coverName' = best /\ UNCHANGED ok
     \/ Fails /\ ok' = FALSE /\ UNCHANGED coverName
  /\ Goto("refresh")
  /\ UNCHANGED <<netVars, passVars, loopVars, last, fileVars, spoof, coverIdx,
                 activeVpns, nameCache, silent>>
-----------------------------------------------------------------------------
(* File hiding: the paths of an interface stand as one object, which an    *)
(* interface created anew under the same name does not share.              *)

\* Wrong variant: the cache is keyed by the path alone.
RegisteredByPath(i) == \E e \in cache : e[1] = i

Registered(i) == <<i, net[i].idx>> \in cache

SusfsRegister(i) ==
  IF net[i].idx = 0
  THEN /\ cache' = {e \in cache : e[1] # i}
       /\ UNCHANGED hidden
       /\ Works
  ELSE IF Registered(i)
  THEN Works /\ UNCHANGED <<cache, hidden>>
  ELSE \/ /\ Works
          /\ hidden' = hidden \cup {<<i, net[i].idx>>}
          /\ cache' = IF Cardinality(cache) < CacheMax
                      THEN cache \cup {<<i, net[i].idx>>}
                      ELSE cache
       \/ Fails /\ UNCHANGED <<cache, hidden>>

\* A NoMount rule is for the path, whatever is there, and is set every time.
NomountRule(i) ==
  /\ UNCHANGED cache
  /\ \/ Works /\ hidden' = hidden \cup {<<i, 0>>}
     \/ Fails /\ UNCHANGED hidden

\* susfs_refresh_enabled: the configuration file is read at every pass.  One
\* that cannot be read clears use_nomount_for_file_hiding and leaves susfs_enabled.
RefreshTool ==
  /\ pc = "refresh"
  /\ \/ Works /\ tool' = mode
     \/ Fails /\ tool' = IF tool = "nomount" THEN "off" ELSE tool
  /\ Goto("files")
  /\ UNCHANGED <<netVars, ok, passVars, loopVars, last, cache, hidden,
                 kernelVars, silent>>

SyncFiles ==
  /\ pc = "files"
  /\ IF pos <= Len(vpns) /\ tool # "off"
     THEN /\ \/ tool = "susfs" /\ SusfsRegister(vpns[pos].name)
             \/ tool = "nomount" /\ NomountRule(vpns[pos].name)
          /\ pos' = pos + 1 /\ pc' = "files"
     ELSE Works /\ Goto("vpns") /\ UNCHANGED <<cache, hidden>>
  /\ UNCHANGED <<netVars, ok, passVars, loopVars, last, tool, kernelVars,
                 silent>>
-----------------------------------------------------------------------------
\* VH_SET_VPN_IFINDEXES, first half: the active VPN list.
PublishVpns ==
  /\ pc = "vpns"
  /\ \/ Works /\ activeVpns' = vpns /\ Goto("names") /\ UNCHANGED ok
     \/ Fails /\ ok' = FALSE /\ Goto("done") /\ UNCHANGED activeVpns
  /\ UNCHANGED <<netVars, passVars, loopVars, last, fileVars, spoof, coverIdx,
                 coverName, nameCache, silent>>

\* Second half: vh_rebuild_name_cache, which returns nothing: the call
\* succeeds although the old cache stays when memory is short.
RebuildNameCache ==
  /\ pc = "names"
  /\ \/ Works /\ nameCache' = {v.name : v \in ToSet(vpns)} /\ UNCHANGED silent
     \/ Fails /\ silent' = TRUE /\ UNCHANGED nameCache
  /\ Goto("done")
  /\ UNCHANGED <<netVars, ok, passVars, loopVars, last, fileVars, spoof,
                 coverIdx, coverName, activeVpns>>
-----------------------------------------------------------------------------
\* The daemon starts beside a running network and does one update at once; its
\* last_* start as values no address has.  The kernel module was just loaded.
Init ==
  /\ \E off \in SUBSET Named :
       net = [i \in Ifaces |->
                IF i \in off THEN Absent
                ELSE With(CHOOSE n \in 1..Len(Order) : Order[n] = i,
                          CHOOSE s \in Shapes[i] : s.up)]
  /\ prefixes = {} /\ nextIdx = Len(Order) + 1 /\ nlPending = FALSE
  /\ pc = "scan" /\ pos = 1 /\ event = FALSE /\ ok = TRUE
  /\ seen = [prefixes |-> {}, list |-> [i \in Ifaces |-> Absent]]
  /\ infos = <<>> /\ vpns = <<>> /\ new = NoAddresses /\ best = NoIface
  /\ last = [v4 |-> <<"unset">>, v6 |-> <<"unset">>, ll |-> <<"unset">>]
  /\ updatePending = FALSE /\ retryCount = 0
  /\ mode = "susfs" /\ tool = "susfs" /\ cache = {} /\ hidden = {}
  /\ spoof = NoAddresses /\ coverIdx = 0 /\ coverName = NoIface
  /\ activeVpns = <<>> /\ nameCache = {}
  /\ silent = FALSE /\ changes = 0 /\ failures = 0

DaemonStep ==
  \/ Poll \/ Scan \/ Probe \/ PublishSpoof \/ PublishCover \/ PublishName
  \/ RefreshTool \/ SyncFiles \/ PublishVpns \/ RebuildNameCache \/ UpdateDone

Next ==
  \/ \E i \in Ifaces : NetChange(i)
  \/ ConfigChange
  \/ DaemonStep

\* The daemon's own steps are fair: each of its calls returns, and next_iface_rescan
\* is at most IFACE_RESCAN_INTERVAL_MS ahead, so poll returns.
Spec == Init /\ [][Next]_vars /\ WF_vars(DaemonStep)
-----------------------------------------------------------------------------
\* Every variable holds a value of its type; the lists respect their capacities.
TypeOK ==
  /\ \A i \in Ifaces : net[i] = Absent \/ net[i] \in {With(net[i].idx, s) : s \in Shapes[i]}
  /\ prefixes \subseteq Prefixable
  /\ pc \in {"poll", "scan", "probe", "spoof", "cover", "name", "refresh",
             "files", "vpns", "names", "done"}
  /\ retryCount \in 0..2
  /\ Len(vpns) <= MAX_ACTIVE_VPNS /\ Len(activeVpns) <= MAX_ACTIVE_VPNS
  /\ Cardinality(cache) <= CacheMax
  /\ best \in Ifaces \cup {NoIface} /\ coverName \in Ifaces \cup {NoIface}
  /\ nameCache \subseteq Ifaces
  /\ \A a \in {spoof.v4, spoof.v6, spoof.ll} : \E i \in Ifaces : a \in AddrsOf(i)

\* The two addresses the hooks show in place of a VPN's are never taken from
\* two interfaces, whatever the order in which candidates are scored.
SpoofPairIsOneInterface ==
  (spoof.v4 # None /\ spoof.v6 # None) => spoof.v4[1] = spoof.v6[1]

\* A netlink event is always followed by the two follow-up scans: the loop never
\* blocks with scans owed and none scheduled.
FollowUpIsPending == (pc = "poll" /\ retryCount > 0) => updatePending

\* Between passes, once a pass reported success, the five things published
\* separately describe one view: the addresses are the cover interface's, index
\* and name are set together, the name cache is the VPN list's, and no VPN
\* provides the cover.  (A pass that lost data silently is excepted.)  Types
\* are included: the VPN list and the file cache stay within their capacity; so
\* is that the follow-up scans a pass owes are scheduled.
PassPublishesOneView ==
  /\ TypeOK
  /\ FollowUpIsPending
  /\ (pc = "poll" /\ ok /\ ~silent) =>
    /\ \A a \in {spoof.v4, spoof.v6} : a # None => a[1] = coverName
    /\ (coverIdx = 0) <=> (coverName = NoIface)
    /\ (coverName # NoIface) => (spoof.v4 # None \/ spoof.v6 # None)
    /\ nameCache = {v.name : v \in ToSet(activeVpns)}
    /\ coverName \notin nameCache

\* What should be published for the network and the prefixes as they are.
CurrentVpns ==
  LET entries == SelectSeq(Order, LAMBDA i : net[i].idx # 0
                                              /\ IsVpnInterface(i, prefixes))
      listed == SubSeq(entries, 1, IF Len(entries) < MAX_ACTIVE_VPNS
                                   THEN Len(entries) ELSE MAX_ACTIVE_VPNS)
  IN [n \in 1..Len(listed) |-> [idx |-> net[listed[n]].idx, name |-> listed[n]]]

Usable(i) ==
  /\ net[i].up /\ (net[i].v4 # 0 \/ net[i].v6 # 0)
  /\ ~IsVpnInterface(i, prefixes) /\ IsCoverCandidate(i)

Info(i) == [name |-> i, v4 |-> Addr(i, net[i].v4), v6 |-> Addr(i, net[i].v6)]

ShownIsCurrent ==
  /\ activeVpns = CurrentVpns
  /\ nameCache = {v.name : v \in ToSet(CurrentVpns)}
  /\ IF \E i \in Ifaces : Usable(i)
     THEN /\ coverName # NoIface /\ Usable(coverName)
          /\ coverIdx = net[coverName].idx
          /\ \A i \in Ifaces : Usable(i) => Score(Info(i)) <= Score(Info(coverName))
          /\ spoof.v4 = Info(coverName).v4 /\ spoof.v6 = Info(coverName).v6
     ELSE coverName = NoIface /\ coverIdx = 0
          /\ spoof.v4 = None /\ spoof.v6 = None

\* Once the network, the prefixes and the calls settle, the kernel comes to hold
\* the best cover interface, its addresses and the VPN list as they are, and
\* keeps them: no event that was missed and no call that failed is lost for good.
EventuallyPublished == <>[]ShownIsCurrent

\* And the paths of every listed VPN interface, in its present incarnation, have
\* been given to the file hiding tool the configuration names.
FilesEventuallyHidden ==
  <>[](\A v \in ToSet(CurrentVpns) :
         CASE mode = "susfs" -> <<v.name, v.idx>> \in hidden
           [] mode = "nomount" -> <<v.name, 0>> \in hidden
           [] OTHER -> TRUE)
=============================================================================
