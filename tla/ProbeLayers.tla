----------------------------- MODULE ProbeLayers -----------------------------
(***************************************************************************)
(* Loading and unloading the module, and the calls an application makes    *)
(* meanwhile.                                                              *)
(*                                                                         *)
(* A socket call passes several kernel functions, and vpnhide_init attaches*)
(* to each call where it can: at the system call, or at a function further *)
(* in if the kernel does not offer the first.  Probes are live one by one  *)
(* as they are registered (kmod/main.c); the handlers are those of         *)
(* kmod/hooks_socket.c.  A call is followed function by function on its    *)
(* way in and out, and each handler runs at once.                          *)
(*                                                                         *)
(* The in-tree build (kpatch/security/vpnhide/hook_socket.c) has one hook  *)
(* for each call, compiled into it.  It is there from the start.           *)
(*                                                                         *)
(* All calls are made by one UID on UDP sockets ("listen": TCP); a value   *)
(* that a call reports, an address, an index, a name or an MTU, is "vpn",  *)
(* "plain", "cover" or "none".                                             *)
(***************************************************************************)
EXTENDS Integers, Sequences, FiniteSets

CONSTANTS
  Threads,      \* of the application
  Builds,       \* "module", "intree"
  Refusals,     \* which probes a kernel may refuse: a set of sets
  MaxActive,    \* VPNHIDE_KRETPROBE_MAXACTIVE
  MaxCalls,     \* bound on calls
  MaxPublishes  \* bound on policies and covers published

VARIABLES
  build, refused,
  phase,        \* "new", "loading", "flags", "device", "loaded", "unloading", "gone"
  next,         \* i of the loops over probes[]
  registered,   \* probes[i].registered
  wrapper,      \* sys_connect_uses_wrapper, sys_bind_uses_wrapper
  device,       \* vpnhide_misc is registered
  table,        \* kmod_port_stats is allocated
  policy,       \* "none"; "open": the UID is no target; "block": it is, and the port is
  cover,        \* global_spoof_ip and global_cover_ifindex are set
  call,         \* per thread
  refs,         \* socket references the handlers hold
  leaked,       \* history: those whose return handler was cut off
  calls, publishes

moduleVars == <<phase, next, registered, wrapper, device, table>>
policyVars == <<policy, cover, publishes>>
vars == <<build, refused, moduleVars, policyVars, call, refs, leaked, calls>>

\* probes[], as far as a call passes more than one of them or its argument
\* layout is decided by a flag, and the receive and listen probes.
Probes ==
  << [f |-> "sys_getsockopt", primary |-> "none"],
     [f |-> "sk_getsockopt", primary |-> "sk_getsockopt"],
     [f |-> "sock_getsockopt", primary |-> "sk_getsockopt"],
     [f |-> "sock_common_getsockopt", primary |-> "sk_getsockopt"],
     [f |-> "ip_cmsg_recv_offset", primary |-> "none"],
     [f |-> "ip6_datagram_recv_common_ctl", primary |-> "none"],
     [f |-> "ip6_datagram_recv_ctl", primary |-> "ip6_datagram_recv_common_ctl"],
     [f |-> "sys_connect", primary |-> "none"],
     [f |-> "sys_bind", primary |-> "none"],
     [f |-> "security_socket_connect", primary |-> "sys_connect"],
     [f |-> "inet_bind", primary |-> "sys_bind"],
     [f |-> "inet_listen", primary |-> "none"],
     [f |-> "inet6_bind", primary |-> "none"],
     [f |-> "sys_getsockname", primary |-> "none"],
     [f |-> "inet_getname", primary |-> "sys_getsockname"],
     [f |-> "inet6_getname", primary |-> "sys_getsockname"] >>

Functions == {Probes[i].f : i \in 1..Len(Probes)}

ASSUME ProbeLayersAssumption ==
  /\ Builds \subseteq {"module", "intree"}
  /\ IsFiniteSet(Threads)
  /\ \A r \in Refusals : r \subseteq Functions

Names == {"name4", "name6"}
Receives == {"recv4", "recv6"}
Options == {"device", "mtu"}
Reports == Names \cup Receives \cup Options
Binds == {"bind4", "bind6", "bindll"}   \* "bindll": to a link-local VPN address
Kinds == {"connect", "listen"} \cup Binds \cup Reports

\* The functions a call passes, from the outside in.
Layers(kind) ==
  CASE kind = "connect" -> <<"sys_connect", "security_socket_connect">>
    [] kind = "listen"  -> <<"inet_listen">>
    [] kind = "bind4"   -> <<"sys_bind", "inet_bind">>
    [] kind \in {"bind6", "bindll"} -> <<"sys_bind", "inet6_bind">>
    [] kind = "name4"   -> <<"sys_getsockname", "inet_getname">>
    [] kind = "name6"   -> <<"sys_getsockname", "inet6_getname">>
    [] kind = "recv4"   -> <<"ip_cmsg_recv_offset">>
    [] kind = "recv6"   -> <<"ip6_datagram_recv_ctl", "ip6_datagram_recv_common_ctl">>
    [] kind = "device"  -> <<"sys_getsockopt", "sock_getsockopt", "sk_getsockopt">>
    [] kind = "mtu"     -> <<"sys_getsockopt", "sock_common_getsockopt">>

Path(kind) == IF build = "module" THEN Layers(kind) ELSE <<"hook">>

NoCall == [kind |-> "none", at |-> 0, way |-> "idle", ret |-> "ok", value |-> "none",
           short |-> FALSE, elsewhere |-> FALSE, kept |-> {}, deny |-> FALSE, misread |-> {},
           owned |-> 0, counted |-> 0, under |-> {}, covered |-> {},
           whole |-> FALSE, missed |-> FALSE]

Running(t) == call[t].way \in {"in", "out"}
Active == policy = "block"    \* is_hook_active and is_target_uid for the UID
-----------------------------------------------------------------------------
(* vpnhide_init.                                                           *)

AllocateTable ==
  /\ build = "module" /\ phase = "new"
  /\ \/ phase' = "loading" /\ table' = TRUE
     \/ phase' = "gone" /\ UNCHANGED table
  /\ next' = 1
  /\ UNCHANGED <<build, refused, registered, wrapper, device, policyVars, call, refs,
                 leaked, calls>>

\* Wrong variant: a probe with a primary is never registered.
RegisterPrimaries(p) == p.f \notin refused /\ p.primary = "none"

\* Is the probe skipped, refused by the kernel, or registered?
Registers(p) == p.f \notin refused /\ p.primary \notin registered

RegisterProbe ==
  /\ phase = "loading"
  /\ IF next > Len(Probes)
     THEN phase' = "flags" /\ UNCHANGED <<next, registered>>
     ELSE /\ next' = next + 1
          /\ registered' = registered \cup
               IF Registers(Probes[next]) THEN {Probes[next].f} ELSE {}
          /\ UNCHANGED phase
  /\ UNCHANGED <<build, refused, wrapper, device, table, policyVars, call, refs, leaked,
                 calls>>

\* Wrong variant: the indices into probes[] are one too low.
SetFlagsOneLow ==
  /\ phase = "flags"
  /\ phase' = "device"
  /\ wrapper' = [connect |-> "ip6_datagram_recv_ctl" \in registered,
                 bind |-> "sys_connect" \in registered]
  /\ UNCHANGED <<build, refused, next, registered, device, table, policyVars, call, refs,
                 leaked, calls>>

SetFlags ==
  /\ phase = "flags"
  /\ phase' = "device"
  /\ wrapper' = [connect |-> "sys_connect" \in registered,
                 bind |-> "sys_bind" \in registered]
  /\ UNCHANGED <<build, refused, next, registered, device, table, policyVars, call, refs,
                 leaked, calls>>

\* Without the device the module stays loaded, with no table.
RegisterDevice ==
  /\ phase = "device"
  /\ phase' = "loaded"
  /\ device' \in BOOLEAN
  /\ table' = device'
  /\ UNCHANGED <<build, refused, next, registered, wrapper, policyVars, call, refs,
                 leaked, calls>>

\* The in-tree build has its hooks from the start; without a table or a device
\* it stays without a policy.
vpnhide_init ==
  /\ build = "intree" /\ phase = "new"
  /\ \/ phase' = "loaded" /\ table' = TRUE /\ device' = TRUE
     \/ phase' = "gone" /\ UNCHANGED <<table, device>>
  /\ UNCHANGED <<build, refused, next, registered, wrapper, policyVars, call, refs,
                 leaked, calls>>
-----------------------------------------------------------------------------
\* A daemon installs a policy, a cover interface and its addresses.
Publish ==
  /\ device /\ phase = "loaded" /\ publishes < MaxPublishes
  /\ publishes' = publishes + 1
  /\ policy' \in {"open", "block"} /\ cover' \in BOOLEAN
  /\ call' = [t \in Threads |-> IF Running(t)
                THEN [call[t] EXCEPT !.under = @ \cup {policy'}, !.covered = @ \cup {cover'}]
                ELSE call[t]]
  /\ UNCHANGED <<build, refused, moduleVars, refs, leaked, calls>>
-----------------------------------------------------------------------------
(* vpnhide_exit, once no process has the device open.                      *)

Unload ==
  /\ build = "module" /\ phase = "loaded"
  /\ phase' = "unloading" /\ next' = 1
  /\ call' = [t \in Threads |-> [call[t] EXCEPT !.whole = FALSE]]
  /\ UNCHANGED <<build, refused, registered, wrapper, device, table, policyVars, refs,
                 leaked, calls>>

Held(t) == "sys_bind" \in call[t].kept /\ "sys_bind" \notin call[t].misread

\* unregister_kretprobe: calls that are inside the function return past the
\* handler.
UnregisterProbe ==
  /\ phase = "unloading" /\ next <= Len(Probes)
  /\ LET f == Probes[next].f IN
       /\ next' = next + 1
       /\ registered' = registered \ {f}
       /\ leaked' = leaked +
            IF f = "sys_bind" THEN Cardinality({t \in Threads : Held(t)}) ELSE 0
       /\ call' = [t \in Threads |-> [call[t] EXCEPT !.kept = @ \ {f}]]
  /\ UNCHANGED <<build, refused, phase, wrapper, device, table, policyVars, refs, calls>>

\* The policy, the tables, the cover and the device.
Teardown ==
  /\ phase = "unloading" /\ next > Len(Probes)
  /\ phase' = "gone"
  /\ policy' = "none" /\ cover' = FALSE /\ table' = FALSE /\ device' = FALSE
  /\ UNCHANGED <<build, refused, next, registered, wrapper, publishes, call, refs, leaked,
                 calls>>
-----------------------------------------------------------------------------
(* Entry handlers: what each makes of the call c.  Keep means that it       *)
(* returned 0, so that the return handler runs.                            *)

Keep(c, f) == [c EXCEPT !.kept = @ \cup {f}]
Misread(c, f) == [c EXCEPT !.misread = @ \cup {f}]
Turn(c, r) == [c EXCEPT !.way = "out", !.ret = r]

\* With a policy that blocks the port the address is taken from the system call,
\* which fails for want of it.  Without the flag the registers of the system
\* call are taken for a socket and an address.
socket_connect_entry(c) ==
  IF ~Active THEN c
  ELSE IF wrapper.connect THEN Turn(Keep(c, "sys_connect"), "EFAULT")
  ELSE Misread(Keep(c, "sys_connect"), "sys_connect")

security_socket_connect_entry(c) == IF Active THEN Keep(c, "security_socket_connect") ELSE c

\* No policy is asked.  The socket is looked up by the descriptor; without the
\* flag the registers are taken for it.
socket_bind_entry(c) ==
  IF wrapper.bind THEN Keep(c, "sys_bind") ELSE Misread(Keep(c, "sys_bind"), "sys_bind")

inet_bind_owner_entry(c) == Keep(c, "inet_bind")

inet_listen_owner_entry(c) == Keep(c, "inet_listen")

inet6_bind_ll_entry(c) ==
  [Keep(c, "inet6_bind") EXCEPT !.deny = c.kind = "bindll" /\ Active]

sys_getsockname_entry(c) == IF Active THEN Keep(c, "sys_getsockname") ELSE c

inet_getname_entry(c) == IF Active THEN Keep(c, "inet_getname") ELSE c

inet6_getname_entry(c) == IF Active THEN Keep(c, "inet6_getname") ELSE c

vh_pktinfo_recv_entry(c, f) == IF Active THEN Keep(c, f) ELSE c

sys_getsockopt_entry(c) == IF Active THEN Keep(c, "sys_getsockopt") ELSE c

sock_getsockopt_entry(c) == IF Active THEN Keep(c, "sock_getsockopt") ELSE c

\* Written for sk_getsockopt, but the probe of sock_common_getsockopt, whose
\* arguments lie elsewhere, uses it too.
sk_getsockopt_entry(c, f) ==
  IF ~Active THEN c
  ELSE IF f = "sk_getsockopt" THEN Keep(c, f) ELSE Misread(Keep(c, f), f)

AfterEntry(c, f) ==
  CASE f = "sys_connect" -> socket_connect_entry(c)
    [] f = "security_socket_connect" -> security_socket_connect_entry(c)
    [] f = "sys_bind" -> socket_bind_entry(c)
    [] f = "inet_bind" -> inet_bind_owner_entry(c)
    [] f = "inet_listen" -> inet_listen_owner_entry(c)
    [] f = "inet6_bind" -> inet6_bind_ll_entry(c)
    [] f = "sys_getsockname" -> sys_getsockname_entry(c)
    [] f = "inet_getname" -> inet_getname_entry(c)
    [] f = "inet6_getname" -> inet6_getname_entry(c)
    [] f = "sys_getsockopt" -> sys_getsockopt_entry(c)
    [] f = "sock_getsockopt" -> sock_getsockopt_entry(c)
    [] f \in {"sk_getsockopt", "sock_common_getsockopt"} -> sk_getsockopt_entry(c, f)
    [] OTHER -> vh_pktinfo_recv_entry(c, f)
-----------------------------------------------------------------------------
(* Return handlers.                                                        *)

Records(c) == [c EXCEPT !.owned = @ + 1]     \* vpnhide_record_bound_socket
Counts(c) == [c EXCEPT !.counted = @ + 1]    \* record_kmod_intercept, record_port_intercept
Shows(c, v) == [Counts(c) EXCEPT !.value = v]

socket_connect_ret(c) ==
  [Counts(c) EXCEPT !.ret = IF wrapper.connect /\ @ # "EFAULT" THEN @ ELSE "ECONNREFUSED"]

security_socket_connect_ret(c) == [Counts(c) EXCEPT !.ret = "ECONNREFUSED"]

\* With the registers taken for a socket it may find anything.
socket_bind_ret(c) ==
  IF c.ret # "ok" THEN {c}
  ELSE IF "sys_bind" \in c.misread THEN {c, Records(c)} ELSE {Records(c)}

inet_bind_owner_ret(c) == IF c.ret = "ok" THEN Records(c) ELSE c

inet_listen_owner_ret(c) == IF c.ret = "ok" THEN Records(c) ELSE c

\* Wrong variant: the bind is recorded here too if sys_bind is probed.
inet6_bind_ll_ret_always(c) ==
  IF c.deny THEN [Counts(c) EXCEPT !.ret = "ENODEV"]
  ELSE IF c.ret = "ok" THEN Records(c) ELSE c

inet6_bind_ll_ret(c) ==
  IF c.deny THEN [Counts(c) EXCEPT !.ret = "ENODEV"]
  ELSE IF ~wrapper.bind /\ c.ret = "ok" THEN Records(c) ELSE c

\* An address other than the wildcard and loopback is replaced, by a fixed one
\* if there is no cover, unless the buffer is too small for the whole sockaddr.
sys_getsockname_ret(c) ==
  IF c.ret # "ok" \/ c.value = "none" \/ c.short THEN c ELSE Shows(c, "cover")

inet_getname_ret(c) == IF c.ret # "ok" \/ c.value = "none" THEN c ELSE Shows(c, "cover")

inet6_getname_ret(c) == IF c.ret # "ok" \/ c.value = "none" THEN c ELSE Shows(c, "cover")

\* vh_rewrite_pktinfo_cmsgs, which asks the policy again.
vh_pktinfo_recv_ret(c) ==
  IF c.value = "vpn" /\ Active /\ cover THEN Shows(c, "cover") ELSE c

\* An MTU or MSS becomes that of the cover, or of 1500 bytes; with the arguments
\* misread the caller's buffer may not be found.
sock_getsockopt_ret(c, f) ==
  IF c.ret # "ok" THEN {c}
  ELSE IF c.kind = "device" THEN {Shows(c, IF c.value = "vpn" THEN "none" ELSE c.value)}
  ELSE {Shows(c, "cover")} \cup IF f \in c.misread THEN {Counts(c)} ELSE {}

AfterReturn(c, f) ==
  CASE f = "sys_connect" -> {socket_connect_ret(c)}
    [] f = "security_socket_connect" -> {security_socket_connect_ret(c)}
    [] f = "sys_bind" -> socket_bind_ret(c)
    [] f = "inet_bind" -> {inet_bind_owner_ret(c)}
    [] f = "inet_listen" -> {inet_listen_owner_ret(c)}
    [] f = "inet6_bind" -> {inet6_bind_ll_ret(c)}
    [] f = "sys_getsockname" -> {sys_getsockname_ret(c)}
    [] f = "inet_getname" -> {inet_getname_ret(c)}
    [] f = "inet6_getname" -> {inet6_getname_ret(c)}
    [] c.kind \in Options -> sock_getsockopt_ret(c, f)
    [] c.kind \in Receives -> {vh_pktinfo_recv_ret(c)}
-----------------------------------------------------------------------------
(* The hooks of the in-tree build, before and after the kernel's work.     *)

\* vpnhide_connect, vpnhide_connect_pre
connect_pre(c) == IF Active THEN Counts(Turn(c, "ECONNREFUSED")) ELSE c

vpnhide_inet6_bind_ll(c) == IF Active THEN Counts(Turn(c, "ENODEV")) ELSE c

\* vpnhide_bind_post, vpnhide_listen_post
bind_post(c) == IF c.ret = "ok" THEN Records(c) ELSE c

\* A socket bound to another interface is left alone; without a cover an IPv4
\* address becomes the wildcard.
getname_post(c) ==
  IF ~Active \/ c.elsewhere \/ c.value = "none" THEN c
  ELSE Shows(c, IF c.kind = "name4" /\ ~cover THEN "none" ELSE "cover")

\* vpnhide_pktinfo4_post, vpnhide_pktinfo6_post
pktinfo_post(c) == IF c.value = "vpn" /\ Active /\ cover THEN Shows(c, "cover") ELSE c

\* The device is always empty.  The hook does not ask whether the call succeeded.
getsockopt_post(c) ==
  IF Active THEN Shows(c, IF c.kind = "mtu" THEN "cover" ELSE "none") ELSE c

Before(c) ==
  CASE c.kind = "connect" -> connect_pre(c)
    [] c.kind = "bindll" -> vpnhide_inet6_bind_ll(c)
    [] OTHER -> c

After(c) ==
  CASE c.kind \in Binds \cup {"listen"} -> bind_post(c)
    [] c.kind \in Names -> IF c.ret = "ok" THEN getname_post(c) ELSE c
    [] c.kind \in Receives -> IF c.ret = "ok" THEN pktinfo_post(c) ELSE c
    [] c.kind \in Options -> getsockopt_post(c)
    [] OTHER -> c
-----------------------------------------------------------------------------
(* A call.                                                                 *)

\* A short buffer matters to the module only, the socket's binding in-tree only.
Start(t, kind) ==
  /\ call[t].way \in {"idle", "done"} /\ calls < MaxCalls
  /\ calls' = calls + 1
  /\ \E short \in (IF kind \in Names /\ build = "module" THEN BOOLEAN ELSE {FALSE}),
        elsewhere \in (IF kind \in Names /\ build = "intree" THEN BOOLEAN ELSE {FALSE}) :
       call' = [call EXCEPT ![t] = [NoCall EXCEPT !.kind = kind, !.at = 1, !.way = "in",
                  !.short = short, !.elsewhere = elsewhere, !.under = {policy},
                  !.covered = {cover}, !.whole = (phase = "loaded")]]
  /\ UNCHANGED <<build, refused, moduleVars, policyVars, refs, leaked>>

Users(f) == {t \in Threads : f \in call[t].kept}

\* On to the next function, unless the handler has turned the call back.
Onward(c) == IF c.way = "in" THEN [c EXCEPT !.at = @ + 1] ELSE c

\* The next function is entered.  Its entry handler runs if it is probed and an
\* instance is free for it, which is the kernel's part; socket_bind_entry takes a
\* reference.
Enter(t) ==
  LET c == call[t]
      f == Path(c.kind)[c.at]
      d == AfterEntry(c, f)
  IN /\ build = "module" /\ c.way = "in" /\ c.at <= Len(Path(c.kind))
     /\ IF f \notin registered
        THEN call' = [call EXCEPT ![t] = Onward(c)] /\ UNCHANGED refs
        ELSE IF Cardinality(Users(f)) >= MaxActive
        THEN call' = [call EXCEPT ![t] = [Onward(c) EXCEPT !.missed = TRUE]] /\ UNCHANGED refs
        ELSE /\ call' = [call EXCEPT ![t] = Onward(d)]
             /\ refs' = IF f = "sys_bind" /\ f \notin d.misread THEN refs + 1 ELSE refs
     /\ UNCHANGED <<build, refused, moduleVars, policyVars, leaked, calls>>

\* The patched kernel function runs the hook it has before its own work.
EnterPatched(t) ==
  /\ build = "intree" /\ call[t].way = "in" /\ call[t].at = 1
  /\ call' = [call EXCEPT ![t] = Onward(Before(@))]
  /\ UNCHANGED <<build, refused, moduleVars, policyVars, refs, leaked, calls>>

Found(c) ==
  CASE c.kind \in Names /\ c.elsewhere -> {"none", "plain"}
    [] c.kind \in Names \cup {"device"} /\ ~c.elsewhere -> {"none", "plain", "vpn"}
    [] c.kind \in Receives \cup {"mtu"} -> {"plain", "vpn"}
    [] OTHER -> {"none"}

\* The kernel does what it was asked, or fails.
Kernel(t) ==
  LET c == call[t] IN
  /\ c.way = "in" /\ c.at > Len(Path(c.kind))
  /\ \/ \E v \in Found(c) :
          call' = [call EXCEPT ![t] = [Turn(c, "ok") EXCEPT !.at = @ - 1, !.value = v]]
     \/ call' = [call EXCEPT ![t] = [Turn(c, "failed") EXCEPT !.at = @ - 1]]
  /\ UNCHANGED <<build, refused, moduleVars, policyVars, refs, leaked, calls>>

\* Wrong variant: the reference is dropped only if the bind succeeded.
DropsIfBound(c, f) == f = "sys_bind" /\ f \in c.kept \ c.misread /\ c.ret = "ok"

\* socket_bind_ret drops the reference.
Drops(c, f) == f = "sys_bind" /\ f \in c.kept \ c.misread

Leave(t) ==
  LET c == call[t]
      f == Path(c.kind)[c.at]
  IN /\ build = "module" /\ c.way = "out" /\ c.at > 0
     /\ \E d \in (IF f \in c.kept THEN AfterReturn(c, f) ELSE {c}) :
          call' = [call EXCEPT ![t] = [d EXCEPT !.at = @ - 1, !.kept = @ \ {f}]]
     /\ refs' = IF Drops(c, f) THEN refs - 1 ELSE refs
     /\ UNCHANGED <<build, refused, moduleVars, policyVars, leaked, calls>>

\* The hook the patched function has behind it.
LeavePatched(t) ==
  /\ build = "intree" /\ call[t].way = "out" /\ call[t].at > 0
  /\ call' = [call EXCEPT ![t] = [After(@) EXCEPT !.at = 0]]
  /\ UNCHANGED <<build, refused, moduleVars, policyVars, refs, leaked, calls>>

\* The result reaches the application.
Finish(t) ==
  /\ call[t].way = "out" /\ call[t].at = 0
  /\ call' = [call EXCEPT ![t].way = "done"]
  /\ UNCHANGED <<build, refused, moduleVars, policyVars, refs, leaked, calls>>
-----------------------------------------------------------------------------
Init ==
  /\ build \in Builds
  /\ refused \in IF build = "module" THEN Refusals ELSE {{}}
  /\ phase = "new"
  /\ next = 1 /\ registered = {}
  /\ wrapper = [connect |-> FALSE, bind |-> FALSE]
  /\ device = FALSE /\ table = FALSE
  /\ policy = "none" /\ cover = FALSE /\ publishes = 0
  /\ call = [t \in Threads |-> NoCall]
  /\ refs = 0 /\ leaked = 0 /\ calls = 0

Load == AllocateTable \/ RegisterProbe \/ SetFlags \/ RegisterDevice \/ vpnhide_init

Next ==
  \/ Load \/ Publish
  \/ Unload \/ UnregisterProbe \/ Teardown
  \/ \E t \in Threads, kind \in Kinds : Start(t, kind)
  \/ \E t \in Threads : Enter(t) \/ EnterPatched(t) \/ Kernel(t) \/ Leave(t)
                      \/ LeavePatched(t) \/ Finish(t)

Spec == Init /\ [][Next]_vars
-----------------------------------------------------------------------------
\* Made and finished while the module was loaded, with a free instance for each
\* handler, on a kernel that lets one of the call's functions be probed.
Handled(t) ==
  LET c == call[t] IN
  /\ c.way = "done" /\ c.whole /\ ~c.missed
  /\ build = "module" => \E i \in 1..Len(Layers(c.kind)) : Layers(c.kind)[i] \notin refused

\* Wherever the probes could be attached, a call is handled once: a UDP bind or a
\* listen that succeeds is recorded exactly once, a connection that the policy
\* blocks all along is refused and counted once and one that it does not is left
\* alone, a link-local bind to the VPN is refused, counted once and not recorded,
\* and a name is replaced at most once.  While a policy is in force the port
\* table is there to count in.
EachCallIsHandledOnce ==
  /\ policy # "none" => table
  /\ \A t \in Threads : Handled(t) =>
      LET c == call[t] IN
      /\ c.kind \in {"bind4", "bind6", "listen"} =>
           c.owned = IF c.ret = "ok" THEN 1 ELSE 0
      /\ c.kind = "connect" /\ c.under = {"block"} =>
           c.ret = "ECONNREFUSED" /\ c.counted = 1
      /\ c.kind = "connect" /\ "block" \notin c.under =>
           c.ret \in {"ok", "failed"} /\ c.counted = 0
      /\ c.kind = "bindll" /\ c.under = {"block"} /\ "inet6_bind" \notin refused =>
           c.ret = "ENODEV" /\ c.counted = 1 /\ c.owned = 0
      /\ c.kind \in Names => c.counted <= 1

\* A target whose hooks are active all through the call is not told an address,
\* an index, a name or an MTU of the VPN by any of the functions that can be
\* probed, provided a cover is set where packet information needs one.  Two cases
\* are left out because the code does not cover them: a getsockname buffer too
\* small for the address, and an MTU on a kernel where only
\* sock_common_getsockopt can be probed.
ReportedValuesAreCovered ==
  \A t \in Threads :
    LET c == call[t] IN
    (/\ Handled(t) /\ c.kind \in Reports /\ c.under = {"block"}
     /\ c.kind \in Receives => c.covered = {TRUE}
     /\ c.short => "sys_getsockname" \in refused
     /\ c.kind = "mtu" => "sys_getsockopt" \notin refused) => c.value # "vpn"

\* Handlers read their arguments with the layout of the function they are
\* attached to.  The exceptions are binds that were begun before vpnhide_init
\* had set its flags, and sock_common_getsockopt.
ArgumentsAreReadAsProbed ==
  \A t \in Threads :
    call[t].misread \subseteq
      {"sock_common_getsockopt"} \cup IF call[t].whole THEN {} ELSE {"sys_bind"}

\* The reference socket_bind_entry takes is dropped when the call returns; only
\* unloading the module inside a bind keeps the socket alive for good.
ReferencesAreDropped ==
  refs = leaked + Cardinality({t \in Threads : Held(t)})
=============================================================================
