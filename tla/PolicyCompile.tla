--------------------------- MODULE PolicyCompile ---------------------------
(***************************************************************************)
(* From the JSON document to the decision a hook takes.  vpnhide-ctl load  *)
(* parses the document, compiles it into UID lists, port targets and hook  *)
(* masks, packs them into one ABI v4 payload and hands it to the kernel,   *)
(* which validates, sorts and publishes it; the hooks look UIDs up in the  *)
(* published snapshot by binary search.  The application may rewrite the   *)
(* document at any time.  Sizes and offsets are in words of four bytes.    *)
(***************************************************************************)
EXTENDS PortRules, FiniteSets, SequencesExt

CONSTANTS
    Documents,      \* what the application may have stored at first
    Edits,          \* what it may write later
    Uids,           \* the UIDs decisions are compared for
    Hooks,          \* the kernel hooks of a mask
    Mandatory,      \* VPNHIDE_PORT_HOOK_MASK: HOOK_CONNECT and HOOK_BIND
    MaxIfaces,      \* MAX_IFACE_PREFIXES
    MaxWords,       \* VPNHIDE_POLICY_MAX_BYTES
    LegacyUids,     \* VPNHIDE_LEGACY_TARGET_UIDS
    LegacyRules,    \* VPNHIDE_LEGACY_PORT_RULES_PER_UID
    MaxLoads        \* bound: runs of vpnhide-ctl load

ASSUME CompileAssumption == Mandatory \subseteq Hooks /\ MaxWords \in Nat /\ MaxIfaces \in Nat

VARIABLES
    file,           \* vpnhide_config.json
    pc,             \* how far the running load has come
    root,           \* the document it parsed
    masks,          \* app_hook_masks
    targets,        \* the kmod and lsposed UID vectors
    ports,          \* port_policy
    payload,        \* the packed payload, or None
    snapshot,       \* global_policy_snapshot, or None
    origin,         \* history: the document the snapshot was compiled from
    answer,         \* history: what the kernel answered to the controller
    loads           \* history: runs started so far

vars == <<file, pc, root, masks, targets, ports, payload, snapshot, origin, answer, loads>>

None == [abi |-> 0]
Foreign == [mode |-> "none"]  \* no document: the controller did not produce it
Unset == {}                   \* a field the document does not give; {x} if it gives x

INCLUDE == 0                  \* VPNHIDE_MATCH_*
EXCLUDE == 1
RULES == 0                    \* VH_PORT_POLICY_*
UNRESTRICTED == 1
DENY_ALL == 2

\* Neither root, the system server nor any other core UID is ever a target.
Eligible(uid) == uid # 0 /\ uid # 1000 /\ uid % 100000 >= 10000

-----------------------------------------------------------------------------
(* vpnhide-ctl: the compiler.                                              *)

\* Wrong variant: a second mask for the same UID is appended too.
AppendAnyMask(vector, mask) == Append(vector, mask)

append_app_hook_mask(vector, mask) ==
    IF \E i \in 1 .. Len(vector) : vector[i].uid = mask.uid
    THEN vector ELSE Append(vector, mask)

add_uid_distinct(vector, uid) ==
    IF uid = 0 \/ uid \in ToSet(vector) THEN vector ELSE Append(vector, uid)

allowlist_mode(doc) == doc.global /\ doc.mode = "ALLOWLIST"

\* The masks sent for the whole system.
GlobalMask(doc, m) == IF doc.global THEN m ELSE Hooks

\* In allowlist mode the bits an application selects are exceptions.
EffectiveMask(doc, m, raw) ==
    IF allowlist_mode(doc) THEN GlobalMask(doc, m) \ UNION raw ELSE UNION raw

AppMask(doc, app) ==
    [uid |-> app.uid,
     hask |-> app.kernel # Unset,
     kernel |-> EffectiveMask(doc, doc.kernel \cup Mandatory, app.kernel) \cup Mandatory,
     hasj |-> app.java # Unset,
     java |-> EffectiveMask(doc, doc.java, app.java)]

\* The loop over apps[] that collects the masks.
app_hook_masks(doc) ==
    FoldLeft(LAMBDA acc, app : IF app.uid # 0 /\ (app.kernel # Unset \/ app.java # Unset)
                               THEN append_app_hook_mask(acc, AppMask(doc, app)) ELSE acc,
             <<>>, doc.apps)

\* The appId test of the controller.
AppRange(uid) == uid # 0 /\ uid % 100000 >= 10000

vpnhide_resolve_targets(doc, layer) ==
    FoldLeft(LAMBDA acc, app : IF AppRange(app.uid) /\ app[layer]
                               THEN add_uid_distinct(acc, app.uid) ELSE acc,
             <<>>, doc.apps)

\* add_port_rule: only an enabled rule is checked, and an invalid one makes
\* the load fail.
Invalid(rule) == rule.enabled /\ (rule.end > MaxPort \/ rule.start > rule.end)

RuleNames(rule, app) ==
    \/ rule.uid # 0 /\ app.uid # 0 /\ rule.uid = app.uid
    \/ rule.name = app.name /\ (rule.user = Unset \/ app.user \in rule.user)

Bare(rule) == [start |-> rule.start, end |-> rule.end, protocol |-> rule.protocol]

\* The rules resolve_named_port_rules adds, in its order.
NamedRules(doc, app) ==
    LET own(r) == RuleNames(r, app) /\ r.enabled
        mass(r) == r.enabled
        both == SelectSeq(doc.rules, own) \o SelectSeq(doc.mass, mass)
    IN [i \in 1 .. Len(both) |-> Bare(both[i])]

FullRange == <<[start |-> 0, end |-> MaxPort, protocol |-> BOTH]>>

\* Wrong variant: an application without rules is left without any.
RulesOnly(doc, app) == [uid |-> app.uid, mode |-> RULES, rules |-> NamedRules(doc, app)]

\* A selected application without a rule of its own is hidden on every port.
resolve_named_port_rules(doc, app) ==
    LET rules == NamedRules(doc, app)
    IN [uid |-> app.uid, mode |-> RULES, rules |-> IF rules = <<>> THEN FullRange ELSE rules]

\* The kernel only blocks: the visible ranges become their complement, which
\* the scan emits in ascending order.
resolve_allowlist_exception_rules(doc, app) ==
    LET allowed == NamedRules(doc, app)
    IN IF allowed = <<>>
       THEN [uid |-> app.uid, mode |-> UNRESTRICTED, rules |-> <<>>]
       ELSE [uid |-> app.uid, mode |-> RULES,
             rules |-> SetToSortSeq(BlockingComplement(ToSet(allowed)), RuleLeq)]

\* The target of one application; the first entry of a UID decides.
PortTarget(doc, app) ==
    IF allowlist_mode(doc) THEN resolve_allowlist_exception_rules(doc, app)
    ELSE resolve_named_port_rules(doc, app)

\* The applications vpnhide_resolve_port_rules compiles a target for.
PortApps(doc) ==
    {i \in 1 .. Len(doc.apps) :
        /\ doc.apps[i].portHiding /\ AppRange(doc.apps[i].uid)
        /\ \A j \in 1 .. i - 1 :
              ~ (doc.apps[j].portHiding /\ doc.apps[j].uid = doc.apps[i].uid)}

\* An invalid rule of a compiled application, or of the mass rules.
PortRulesRejected(doc) ==
    \E i \in PortApps(doc) :
        \/ \E k \in 1 .. Len(doc.rules) :
              RuleNames(doc.rules[k], doc.apps[i]) /\ Invalid(doc.rules[k])
        \/ \E k \in 1 .. Len(doc.mass) : Invalid(doc.mass[k])

vpnhide_resolve_port_rules(doc) ==
    LET compiled == SetToSortSeq(PortApps(doc), <)
    IN [k \in 1 .. Len(compiled) |-> PortTarget(doc, doc.apps[compiled[k]])]

sort_uids(arr) == SortSeq(arr, <)

-----------------------------------------------------------------------------
(* The payload.                                                            *)

Sections == <<"kmod", "lsposed", "targets", "rules", "masks">>
Width == [kmod |-> 1, lsposed |-> 1, targets |-> 4, rules |-> 2, masks |-> 4]
HeaderV3 == 144               \* sizeof(struct vpnhide_policy_payload_v3)
HeaderV4 == 148               \* sizeof(struct vpnhide_policy_payload_v4)

\* Where section i begins (Len(Sections) + 1: the end of the payload) when the
\* sections have these counts and the first one follows the header.
Cursor(header, count, i) ==
    LET from[k \in 1 .. Len(Sections) + 1] ==
            IF k = 1 THEN header
            ELSE from[k - 1] + count[Sections[k - 1]] * Width[Sections[k - 1]]
    IN from[i]

\* The rules of the first n targets behind each other.
FlatRules(pol, n) == FlattenSeq([i \in 1 .. n |-> pol[i].rules])

PackedTargets(pol) ==
    [i \in 1 .. Len(pol) |->
        [uid |-> pol[i].uid, mode |-> pol[i].mode,
         first |-> Len(FlatRules(pol, i - 1)), count |-> Len(pol[i].rules)]]

Least(a, b) == IF a <= b THEN a ELSE b

\* The set of the packed payload; empty when it would be too large.
pack_policy_v4(doc, kmod, lsposed, pol, appMasks) ==
    LET body == [kmod |-> kmod, lsposed |-> lsposed, targets |-> PackedTargets(pol),
                 rules |-> FlatRules(pol, Len(pol)), masks |-> appMasks]
        count == [s \in ToSet(Sections) |-> Len(body[s])]
        mode == IF allowlist_mode(doc) THEN EXCLUDE ELSE INCLUDE
        size == Cursor(HeaderV4, count, Len(Sections) + 1)
        packed ==
            [abi |-> 4, body |-> body, count |-> count, size |-> size, total |-> size,
             offset |-> [s \in ToSet(Sections) |->
                 Cursor(HeaderV4, count, CHOOSE i \in 1 .. Len(Sections) : Sections[i] = s)],
             mode |-> [kmod |-> mode, lsposed |-> mode, port |-> mode],
             ifaces |-> Least(doc.ifaces, MaxIfaces),
             active |-> GlobalMask(doc, doc.kernel \cup Mandatory),
             java |-> GlobalMask(doc, doc.java)]
    IN IF size <= MaxWords THEN {packed} ELSE {}

-----------------------------------------------------------------------------
(* The kernel: validation and lookups.                                     *)

\* policy_section_validate for the five sections in turn: each begins where
\* the one before it ends, and the last ends with the payload.
SectionsTile(p, header) ==
    /\ \A i \in 1 .. Len(Sections) : p.offset[Sections[i]] = Cursor(header, p.count, i)
    /\ Cursor(header, p.count, Len(Sections) + 1) = p.total

TargetsOk(p) ==
    \A i \in 1 .. Len(p.body.targets) :
        LET t == p.body.targets[i]
            next_rule == IF i = 1 THEN 0
                         ELSE p.body.targets[i - 1].first + p.body.targets[i - 1].count
        IN /\ t.uid # 0 /\ t.mode <= DENY_ALL
           /\ t.first = next_rule /\ t.count <= Len(p.body.rules) - next_rule
           /\ i = Len(p.body.targets) => t.first + t.count = Len(p.body.rules)

RulesOk(p) ==
    /\ \A i \in 1 .. Len(p.body.rules) :
          p.body.rules[i].start <= p.body.rules[i].end /\ p.body.rules[i].protocol <= BOTH
    /\ p.body.targets = <<>> => p.body.rules = <<>>

\* After sorting, no two neighbours share a UID and the smallest is not 0.
Distinct(uids) == IsInjective(uids) /\ 0 \notin ToSet(uids)
UidsOf(s) == [i \in 1 .. Len(s) |-> s[i].uid]

PolicyValid(p) ==
    /\ p.size \in HeaderV3 .. MaxWords /\ p.total = p.size /\ p.ifaces <= MaxIfaces
    /\ SectionsTile(p, HeaderV3)
    /\ TargetsOk(p) /\ RulesOk(p)
    /\ Distinct(p.body.kmod) /\ Distinct(p.body.lsposed)
    /\ Distinct(UidsOf(p.body.targets)) /\ Distinct(UidsOf(p.body.masks))

ByUid(a, b) == a.uid < b.uid

\* Wrong variant: the kernel trusts the order the rules came in.
RulesAsGiven(body) == body.rules

\* The rules of every target sorted in place.
SortedRules(body) ==
    FlattenSeq([i \in 1 .. Len(body.targets) |->
                  SortSeq(SubSeq(body.rules, body.targets[i].first + 1,
                                 body.targets[i].first + body.targets[i].count), RuleLeq)])

\* The set of the snapshot made from a valid payload; empty on -EINVAL.
policy_snapshot_from_v3(p) ==
    {[abi |-> 3, mode |-> [kmod |-> INCLUDE, lsposed |-> INCLUDE, port |-> INCLUDE],
      active |-> p.active \cup Mandatory, java |-> p.java, ifaces |-> p.ifaces,
      kmod |-> SortSeq(p.body.kmod, <), lsposed |-> SortSeq(p.body.lsposed, <),
      targets |-> SortSeq(p.body.targets, ByUid), rules |-> SortedRules(p.body),
      masks |-> SortSeq([i \in 1 .. Len(p.body.masks) |->
                           LET m == p.body.masks[i]
                           IN IF m.hask THEN [m EXCEPT !.kernel = @ \cup Mandatory] ELSE m], ByUid)]
     : x \in {q \in {p} : PolicyValid(q)}}

\* The v3 form of a v4 payload: a shorter header, so everything moves up.
AsV3(p) ==
    LET delta == HeaderV4 - HeaderV3
    IN [p EXCEPT !.abi = 3, !.size = @ - delta, !.total = p.size - delta,
                 !.offset = [s \in ToSet(Sections) |-> p.offset[s] - delta]]

policy_snapshot_from_v4(p) ==
    IF /\ p.size >= HeaderV4 /\ p.total = p.size
       /\ \A layer \in DOMAIN p.mode : p.mode[layer] <= EXCLUDE
       /\ \A s \in ToSet(Sections) : p.offset[s] >= HeaderV4
    THEN {[snap EXCEPT !.abi = 4, !.mode = p.mode] : snap \in policy_snapshot_from_v3(AsV3(p))}
    ELSE {}

\* vpnhide_apply_policy: the arrays of a v2 client, repacked as v3.
policy_snapshot_from_v2(p) ==
    IF /\ \A s \in ToSet(Sections) \ {"rules"} : Len(p.body[s]) <= LegacyUids
       /\ \A i \in 1 .. Len(p.body.targets) : p.body.targets[i].count <= LegacyRules
       /\ RulesOk(p) /\ p.ifaces <= MaxIfaces
    THEN LET count == [s \in ToSet(Sections) |-> Len(p.body[s])]
             size == Cursor(HeaderV3, count, Len(Sections) + 1)
         IN policy_snapshot_from_v3(
               [p EXCEPT !.size = size, !.total = size, !.count = count,
                         !.offset = [s \in ToSet(Sections) |->
                            Cursor(HeaderV3, count, CHOOSE i \in 1 .. Len(Sections) : Sections[i] = s)]])
    ELSE {}

\* VH_SET_POLICY up to the publication: the snapshot, or nothing.
SnapshotOf(p) ==
    CASE p.abi = 2 -> policy_snapshot_from_v2(p)
      [] p.abi = 3 -> IF p.size > MaxWords THEN {} ELSE policy_snapshot_from_v3(p)
      [] p.abi = 4 -> IF p.size > MaxWords THEN {} ELSE policy_snapshot_from_v4(p)

-----------------------------------------------------------------------------
(* The lookups of the hooks.                                               *)

\* The binary search they share: the position of uid among keys, or 0.
RECURSIVE Search(_, _, _, _)
Search(keys, uid, lo, hi) ==
    IF lo > hi THEN 0
    ELSE LET mid == lo + (hi - lo) \div 2
         IN IF keys[mid] = uid THEN mid
            ELSE IF keys[mid] < uid THEN Search(keys, uid, mid + 1, hi)
            ELSE Search(keys, uid, lo, mid - 1)
Position(keys, uid) == Search(keys, uid, 1, Len(keys))

vpnhide_uid_matches_mode(uids, mode, uid) ==
    /\ Eligible(uid)
    /\ IF mode = EXCLUDE THEN Position(uids, uid) = 0 ELSE Position(uids, uid) # 0

is_target_uid_val(s, layer, uid) == vpnhide_uid_matches_mode(s[layer], s.mode[layer], uid)

is_hook_active(s, hook, uid) ==
    LET i == Position(UidsOf(s.masks), uid)
    IN hook \in (IF i # 0 /\ s.masks[i].hask THEN s.masks[i].kernel ELSE s.active)

\* vpnhide_find_port_target followed by should_block_port.
port_blocked(s, uid, port, proto) ==
    LET i == Position(UidsOf(s.targets), uid)
        t == s.targets[i]
    IN IF i = 0
       THEN s.mode.port = EXCLUDE /\ vpnhide_uid_matches_mode(<<>>, EXCLUDE, uid)
       ELSE CASE t.mode = UNRESTRICTED -> FALSE
              [] t.mode = DENY_ALL -> TRUE
              [] OTHER -> should_block_port(SubSeq(s.rules, t.first + 1, t.first + t.count),
                                            port, proto)

-----------------------------------------------------------------------------
(* The steps of vpnhide-ctl load, the kernel and the application.          *)

Init ==
    /\ file \in Documents
    /\ pc = "idle" /\ root = Foreign
    /\ masks = <<>> /\ targets = [kmod |-> <<>>, lsposed |-> <<>>] /\ ports = <<>>
    /\ payload = None /\ snapshot = None
    /\ origin = Foreign /\ answer = "none" /\ loads = 0

\* The process exits: nothing it computed survives.
Exit ==
    /\ pc' = "idle" /\ root' = Foreign
    /\ masks' = <<>> /\ targets' = [kmod |-> <<>>, lsposed |-> <<>>] /\ ports' = <<>>
    /\ payload' = None

\* The application replaces the document by renaming a new file over it.
RewriteDocument ==
    /\ loads < MaxLoads
    /\ file' \in Edits \ {file}
    /\ UNCHANGED <<pc, root, masks, targets, ports, payload, snapshot, origin, answer, loads>>

\* json_parse_file: the document is read once.
Parse ==
    /\ pc = "idle" /\ loads < MaxLoads
    /\ pc' = "masks" /\ root' = file /\ loads' = loads + 1
    /\ UNCHANGED <<file, masks, targets, ports, payload, snapshot, origin, answer>>

BuildMasks ==
    /\ pc = "masks"
    /\ pc' = "targets" /\ masks' = app_hook_masks(root)
    /\ UNCHANGED <<file, root, targets, ports, payload, snapshot, origin, answer, loads>>

ResolveTargets ==
    /\ pc = "targets"
    /\ pc' = "ports"
    /\ targets' = [layer \in {"kmod", "lsposed"} |-> vpnhide_resolve_targets(root, layer)]
    /\ UNCHANGED <<file, root, masks, ports, payload, snapshot, origin, answer, loads>>

ResolvePorts ==
    /\ pc = "ports" /\ ~PortRulesRejected(root)
    /\ pc' = "pack" /\ ports' = vpnhide_resolve_port_rules(root)
    /\ UNCHANGED <<file, root, masks, targets, payload, snapshot, origin, answer, loads>>

\* An invalid rule, or memory that runs out, ends the load before the kernel
\* is asked.
LoadFails ==
    /\ pc \in {"masks", "targets", "ports", "pack"}
    /\ Exit
    /\ UNCHANGED <<file, snapshot, origin, answer, loads>>

Pack ==
    /\ pc = "pack"
    /\ \E p \in pack_policy_v4(root, sort_uids(targets.kmod), sort_uids(targets.lsposed),
                                ports, masks) :
          pc' = "apply" /\ payload' = p
    /\ UNCHANGED <<file, root, masks, targets, ports, snapshot, origin, answer, loads>>

\* VH_SET_POLICY by the controller: refused, published, or out of memory.
SetPolicy ==
    LET result == SnapshotOf(payload)
    IN /\ answer' = IF result = {} THEN "EINVAL" ELSE "applied"
       /\ snapshot' \in (IF result = {} THEN {snapshot} ELSE result)
       /\ origin' = IF result = {} THEN origin ELSE root

Apply ==
    /\ pc = "apply"
    /\ SetPolicy \/ (answer' = "ENOMEM" /\ UNCHANGED <<snapshot, origin>>)
    /\ Exit
    /\ UNCHANGED <<file, loads>>

\* What clients with another packer send: the older ABIs, and payloads that
\* contradict themselves in one place.
OtherPayloads(p) ==
    {[p EXCEPT !.abi = 2], AsV3(p), [p EXCEPT !.total = @ + 1], [p EXCEPT !.mode.port = EXCLUDE + 1]}
    \cup {[p EXCEPT !.offset[x] = @ + 1] : x \in ToSet(Sections)}
    \cup {[p EXCEPT !.count[x] = @ + 1] : x \in ToSet(Sections)}
    \cup {[p EXCEPT !.body.kmod[i] = u] : i \in DOMAIN p.body.kmod, u \in {0} \cup ToSet(p.body.kmod)}
    \cup {[p EXCEPT !.body.kmod = Reverse(@), !.body.targets[i].first = @ + 1] :
              i \in DOMAIN p.body.targets}
    \cup {[p EXCEPT !.body.targets[i].uid = u] :
              i \in DOMAIN p.body.targets, u \in {0} \cup ToSet(UidsOf(p.body.targets))}
    \cup {[p EXCEPT !.body.rules[i].end = 0] : i \in DOMAIN p.body.rules}
    \cup {[p EXCEPT !.body.masks[i].uid = p.body.masks[1].uid] : i \in DOMAIN p.body.masks}

OtherClient ==
    /\ pc = "apply"
    /\ \E p \in OtherPayloads(payload) : \E s \in SnapshotOf(p) : snapshot' = s
    /\ origin' = Foreign
    /\ UNCHANGED <<file, pc, root, masks, targets, ports, payload, answer, loads>>

Next ==
    \/ RewriteDocument
    \/ Parse \/ BuildMasks \/ ResolveTargets \/ ResolvePorts \/ LoadFails \/ Pack
    \/ Apply
    \/ OtherClient

Spec == Init /\ [][Next]_vars

-----------------------------------------------------------------------------
(* Properties.                                                             *)

\* Every value has its type, and no payload exceeds VPNHIDE_POLICY_MAX_BYTES:
\* pack_policy_v4 refuses to build one.
TypeOK ==
    /\ pc \in {"idle", "masks", "targets", "ports", "pack", "apply"}
    /\ \A d \in {file, root, origin} : d.mode \in {"BLACKLIST", "ALLOWLIST", "none"}
    /\ answer \in {"none", "applied", "EINVAL", "ENOMEM"}
    /\ loads \in 0..MaxLoads
    /\ payload = None \/ (payload.abi = 4 /\ payload.size \in HeaderV4 .. MaxWords)
    /\ snapshot = None \/ snapshot.abi \in {3, 4}
    /\ \A i \in 1 .. Len(ports) : ports[i].rules \in Seq(Rules)

\* What POLICY.md promises for a document.  A layer lists its targets in
\* blacklist mode and its exceptions in allowlist mode.
MeansTarget(doc, layer, uid) ==
    LET listed == \E i \in 1 .. Len(doc.apps) : doc.apps[i].uid = uid /\ doc.apps[i][layer]
    IN Eligible(uid) /\ (allowlist_mode(doc) <=> ~listed)

\* A selected application is hidden on the ports its rules and the mass rules
\* name, on all when there are none; in allowlist mode those are the visible
\* ports instead, an exception without rules sees all, and every other
\* eligible UID sees none.
MeansBlocked(doc, uid, port, proto) ==
    LET entries == {i \in 1 .. Len(doc.apps) : doc.apps[i].uid = uid /\ doc.apps[i].portHiding}
        app == doc.apps[CHOOSE i \in entries : \A j \in entries : i <= j]
        rules == {Bare(r) : r \in {r \in ToSet(doc.rules) : RuleNames(r, app) /\ r.enabled}
                                  \cup {r \in ToSet(doc.mass) : r.enabled}}
        named == \E r \in rules : RuleMatches(r, port, proto)
    IN /\ Eligible(uid)
       /\ IF entries = {} THEN allowlist_mode(doc)
          ELSE IF allowlist_mode(doc) THEN rules # {} /\ ~named
          ELSE rules = {} \/ named

\* The port hooks are always on; the others follow the first mask given for
\* the UID, or else the global one.
MeansActive(doc, hook, uid) ==
    LET given == {i \in 1 .. Len(doc.apps) : doc.apps[i].uid = uid
                     /\ (doc.apps[i].kernel # Unset \/ doc.apps[i].java # Unset)}
        raw == IF given = {} THEN Unset
               ELSE doc.apps[CHOOSE i \in given : \A j \in given : i <= j].kernel
        everywhere == IF doc.global THEN hook \in doc.kernel ELSE TRUE
    IN \/ hook \in Mandatory
       \/ IF raw = Unset THEN everywhere
          ELSE IF allowlist_mode(doc) THEN everywhere /\ hook \notin UNION raw
          ELSE hook \in UNION raw

\* After a load every hook decides as the one document it was compiled from
\* says, whatever order applications, rules and masks had in it and whatever
\* the application has written since.
DecisionsFollowTheDocument ==
    (snapshot # None /\ origin # Foreign) =>
        \A uid \in Uids :
            /\ \A layer \in {"kmod", "lsposed"} :
                  is_target_uid_val(snapshot, layer, uid) <=> MeansTarget(origin, layer, uid)
            /\ \A port \in Ports, proto \in Protocols :
                  port_blocked(snapshot, uid, port, proto)
                     <=> MeansBlocked(origin, uid, port, proto)
            /\ \A hook \in Hooks :
                  is_hook_active(snapshot, hook, uid) <=> MeansActive(origin, hook, uid)

\* The two validators agree: policy_snapshot_from_v4 refuses no payload that
\* pack_policy_v4 produced.
KernelAcceptsTheController == answer # "EINVAL"

\* What the lookups rely on, for payloads of any client: UID-keyed sections
\* are strictly ascending, the targets' slices lie inside the rules, do not
\* overlap and are sorted for the early exit of should_block_port.  Types are included: no
\* payload is larger than the ABI allows.
SnapshotSupportsLookups ==
    /\ TypeOK
    /\ snapshot # None =>
        LET Ascending(keys) == \A i, j \in 1 .. Len(keys) : i < j => keys[i] < keys[j]
            Slice(t) == t.first + 1 .. t.first + t.count
        IN /\ Ascending(snapshot.kmod) /\ Ascending(snapshot.lsposed)
           /\ Ascending(UidsOf(snapshot.targets)) /\ Ascending(UidsOf(snapshot.masks))
           /\ 0 \notin ToSet(snapshot.kmod) \cup ToSet(UidsOf(snapshot.targets))
           /\ \A t, u \in ToSet(snapshot.targets) :
                 /\ Slice(t) \subseteq 1 .. Len(snapshot.rules)
                 /\ t # u => Slice(t) \cap Slice(u) = {}
                 /\ \A i \in Slice(t) : snapshot.rules[i].start <= snapshot.rules[i].end
                 /\ RulesSorted(SubSeq(snapshot.rules, t.first + 1, t.first + t.count))
=============================================================================
