---------------------------- MODULE SocketHooks ----------------------------
(***************************************************************************)
(* The probes on the socket calls of a target application, whose threads   *)
(* share one socket (kmod/hooks_socket.c, the UDP part of kmod/hooks_fs.c).*)
(* A call is an entry handler, the kernel's own work and a return handler, *)
(* and the daemon may publish a VPN list or a policy between any two:      *)
(*                                                                         *)
(*   "name", "index"  setsockopt SO_BINDTODEVICE, SO_BINDTOIFINDEX: the    *)
(*                    entry handler puts a fake value into the caller's    *)
(*                    buffer and the return handler puts the old one back; *)
(*   "mark"           setsockopt SO_MARK, as the other options whose value *)
(*                    is replaced for good;                                *)
(*   "device"         getsockopt SO_BINDTODEVICE;                          *)
(*   "connect"        connect to a local port;                             *)
(*   "send"           a non-blocking send over the connected route, which  *)
(*                    is throttled by zeroing sk_sndbuf for its duration;  *)
(*   "sendto"         a send with an address, which never is;              *)
(*   "linklocal"      a send to a link-local address of the route's        *)
(*                    interface, reported as failed after the fact.        *)
(*                                                                         *)
(* The in-tree build (kpatch/security/vpnhide/hook_socket.c) asks before   *)
(* the kernel does anything: it refuses binds and sends outright, and lets *)
(*   "probe"          setsockopt IP_MTU_DISCOVER, IPV6_MTU_DISCOVER and    *)
(*                    UDP_SEGMENT                                          *)
(* mark the socket as one that is never throttled.                         *)
(***************************************************************************)
EXTENDS Integers, FiniteSets

CONSTANTS
  Builds,      \* "module", "intree"
  Threads,     \* of the application
  Links,       \* interfaces
  Tunnels,     \* those that may be VPNs
  Route,       \* the interface the connected socket sends through
  SndBuf,      \* what sk_sndbuf is set to
  Capacity,    \* BUCKET_CAPACITY
  Milli,       \* units of a token, 1000 in the code
  RegenNs,     \* TOKEN_REGEN_NS
  U32,         \* 2^32 in the code: tokens is a u32
  IntHalf,     \* 2^31 in the code: in-tree tokens are an int
  Steps,       \* how far the clock may move at once
  MaxNow,      \* bound on the clock
  MaxCalls,    \* bound on calls
  MaxFlips     \* bound on publications

ASSUME RegenIsWhole == RegenNs % Milli = 0 /\ Capacity * Milli < U32

ASSUME SocketAssumption ==
  /\ {Capacity, Milli, RegenNs, U32, IntHalf} \subseteq Nat \ {0}
  /\ Steps \subseteq Nat /\ {MaxNow, MaxCalls, MaxFlips} \subseteq Nat
  /\ SndBuf \in Nat \ {0}
  /\ Tunnels \subseteq Links /\ Links \cap {"nothing", "fake", "address", "value"} = {}

VARIABLES
  build,            \* never changes
  vpns,             \* global_active_vpns
  block,            \* the policy in force blocks the port
  wrapper,          \* sys_connect_uses_wrapper
  bound, mark, sndbuf,       \* the socket
  probe,                     \* VH_SK_PROBE_MARK in sk_mark
  now, rate,                 \* ktime_get_ns, the UID's udp_uid_rate
  pc, call, ubuf, data, ret, \* per thread; ubuf is the caller's buffer
  asked, listed, verdicts,   \* history: the caller's value; interfaces listed
                             \* all through the call; verdicts in force in it
  boundWhileListed,          \* history: a bind went through to a listed VPN
  spent, fullAt, wrapped,    \* history: tokens taken since the bucket was full,
                             \* when that was, whether tokens wrapped around
  crowded,                   \* history: two sends overlapped
  probing,                   \* history: marked as a probe, no SO_MARK since
  calls, flips

sockVars == <<bound, mark, sndbuf, probe, probing>>
rateVars == <<rate, spent, fullAt, wrapped>>
worldVars == <<build, vpns, block, wrapper>>
histVars == <<asked, listed, verdicts>>
vars == <<worldVars, sockVars, now, rateVars, pc, call, ubuf, data, ret, histVars,
          boundWhileListed, crowded, calls, flips>>

Nothing == "nothing"     \* an empty name, an unbound socket
Fake == "fake"           \* "nonexistent0xxx" or -1
OK == "ok"
NoRate == [present |-> FALSE, tokens |-> 0, last |-> 0]

\* sock_setsockopt_data, socket_connect_data and udp_sendmsg_data
NoData == [modified |-> FALSE, orig |-> Nothing, badlen |-> FALSE,
           deny |-> FALSE, spoofed |-> FALSE, sndbuf |-> SndBuf]

IsActiveVpn(i) == i \in vpns
Binds == {"name", "index"}
Sends == {"send", "sendto", "linklocal"}
-----------------------------------------------------------------------------
\* VH_SET_VPN_IFINDEXES.
SetVpns ==
  /\ flips < MaxFlips
  /\ flips' = flips + 1
  /\ \E v \in SUBSET Tunnels :
       /\ v # vpns
       /\ vpns' = v
       /\ listed' = [t \in Threads |-> listed[t] \cap v]
  /\ UNCHANGED <<build, block, wrapper, sockVars, now, rateVars, pc, call, ubuf, data, ret,
                 asked, verdicts, boundWhileListed, crowded, calls>>

\* A policy is published: vpnhide_udp_rates_prune drops the bucket of a UID that
\* the policy does not name, to start with a full one when it is back.
SetPolicy ==
  /\ flips < MaxFlips
  /\ flips' = flips + 1
  /\ block' \in BOOLEAN
  /\ verdicts' = [t \in Threads |-> verdicts[t] \cup {block'}]
  /\ rate' \in {rate, NoRate}
  /\ <<block', rate'>> # <<block, rate>>
  /\ UNCHANGED <<build, vpns, wrapper, sockVars, now, spent, fullAt, wrapped, pc, call, ubuf,
                 data, ret, asked, listed, boundWhileListed, crowded, calls>>

Tick ==
  /\ \E d \in Steps : now + d <= MaxNow /\ now' = now + d
  /\ UNCHANGED <<worldVars, sockVars, rateVars, pc, call, ubuf, data, ret, histVars,
                 boundWhileListed, crowded, calls, flips>>
-----------------------------------------------------------------------------
(* What all calls share.                                                   *)

Enter(t, c, value) ==
  /\ pc[t] = "idle" /\ calls < MaxCalls
  /\ calls' = calls + 1
  /\ call' = [call EXCEPT ![t] = c]
  /\ asked' = [asked EXCEPT ![t] = value]
  /\ listed' = [listed EXCEPT ![t] = vpns]
  /\ verdicts' = [verdicts EXCEPT ![t] = {block}]
  /\ UNCHANGED <<worldVars, now, ret, boundWhileListed, flips>>

\* The probed function returns r and the return handler is next.
Returns(t, r) ==
  /\ ret' = [ret EXCEPT ![t] = r]
  /\ pc' = [pc EXCEPT ![t] = "ret"]

Finish(t, r) ==
  /\ ret' = [ret EXCEPT ![t] = r]
  /\ pc' = [pc EXCEPT ![t] = "done"]

\* The application has looked at the result.
Back(t) ==
  /\ pc[t] = "done"
  /\ pc' = [pc EXCEPT ![t] = "idle"]
  /\ call' = [call EXCEPT ![t] = "none"]
  /\ ubuf' = [ubuf EXCEPT ![t] = Nothing]
  /\ data' = [data EXCEPT ![t] = NoData]
  /\ ret' = [ret EXCEPT ![t] = OK]
  /\ asked' = [asked EXCEPT ![t] = Nothing]
  /\ listed' = [listed EXCEPT ![t] = {}]
  /\ verdicts' = [verdicts EXCEPT ![t] = {}]
  /\ UNCHANGED <<worldVars, sockVars, now, rateVars, boundWhileListed, crowded, calls,
                 flips>>
-----------------------------------------------------------------------------
(* setsockopt and getsockopt.                                              *)

\* sys_setsockopt_entry, SO_BINDTODEVICE and SO_BINDTOIFINDEX.  If the fake
\* value cannot be written the length becomes -1 instead.
BindEntry(t, opt, i) ==
  /\ build = "module"
  /\ Enter(t, opt, i)
  /\ IF IsActiveVpn(i)
     THEN \/ /\ ubuf' = [ubuf EXCEPT ![t] = Fake]
             /\ data' = [data EXCEPT ![t] = [NoData EXCEPT !.modified = TRUE,
                           !.orig = i, !.deny = opt = "index"]]
          \/ /\ ubuf' = [ubuf EXCEPT ![t] = i]
             /\ data' = [data EXCEPT ![t] = [NoData EXCEPT !.modified = TRUE,
                           !.orig = i, !.badlen = TRUE, !.deny = TRUE]]
     ELSE /\ ubuf' = [ubuf EXCEPT ![t] = i]
          /\ UNCHANGED data
  /\ pc' = [pc EXCEPT ![t] = "kernel"]
  /\ UNCHANGED <<sockVars, rateVars, crowded>>

\* vpnhide_setsockopt_sock: -ENODEV before the kernel has seen the call.
setsockopt_bind(t, opt, i) ==
  /\ build = "intree"
  /\ Enter(t, opt, i)
  /\ ubuf' = [ubuf EXCEPT ![t] = i]
  /\ data' = [data EXCEPT ![t] = [NoData EXCEPT !.deny = IsActiveVpn(i)]]
  /\ pc' = [pc EXCEPT ![t] = IF IsActiveVpn(i) THEN "ret" ELSE "kernel"]
  /\ UNCHANGED <<sockVars, rateVars, crowded>>

\* The kernel binds the socket, unless it may not or the value is no device.
BindKernel(t) ==
  /\ pc[t] = "kernel" /\ call[t] \in Binds
  /\ IF data[t].badlen THEN Returns(t, "EINVAL") /\ UNCHANGED <<bound, boundWhileListed>>
     ELSE IF ubuf[t] = Fake
     THEN /\ Returns(t, IF call[t] = "name" THEN "ENODEV" ELSE "EINVAL")
          /\ UNCHANGED <<bound, boundWhileListed>>
     ELSE \/ Returns(t, "EPERM") /\ UNCHANGED <<bound, boundWhileListed>>
          \/ /\ Returns(t, OK)
             /\ bound' = ubuf[t]
             /\ boundWhileListed' = (boundWhileListed \/ ubuf[t] \in listed[t])
  /\ UNCHANGED <<worldVars, mark, sndbuf, probe, probing, now, rateVars, call, ubuf, data,
                 histVars, crowded, calls, flips>>

\* Wrong variant: the fake value is taken back only while the VPN is still listed.
BindRetListed(t) ==
  /\ pc[t] = "ret" /\ call[t] \in Binds
  /\ ubuf' = IF data[t].modified /\ IsActiveVpn(data[t].orig)
             THEN [ubuf EXCEPT ![t] = data[t].orig] ELSE ubuf
  /\ Finish(t, IF data[t].deny THEN "ENODEV" ELSE ret[t])
  /\ UNCHANGED <<worldVars, sockVars, now, rateVars, call, data, histVars,
                 boundWhileListed, crowded, calls, flips>>

\* sys_setsockopt_ret: the old value is put back, unless that faults.
BindRet(t) ==
  /\ pc[t] = "ret" /\ call[t] \in Binds
  /\ \/ /\ ubuf' = IF data[t].modified THEN [ubuf EXCEPT ![t] = data[t].orig] ELSE ubuf
        /\ Finish(t, IF data[t].deny THEN "ENODEV" ELSE ret[t])
        /\ UNCHANGED asked
     \/ /\ data[t].modified /\ UNCHANGED ubuf
        /\ Finish(t, IF data[t].deny THEN "ENODEV" ELSE ret[t])
        /\ asked' = [asked EXCEPT ![t] = ubuf[t]]
  /\ UNCHANGED <<worldVars, sockVars, now, rateVars, call, data, listed, verdicts,
                 boundWhileListed, crowded, calls, flips>>

\* SO_MARK: the value becomes 0, and a fault leaves it.  (IP_MTU_DISCOVER,
\* IPV6_MTU_DISCOVER, UDP_SEGMENT and SO_TIMESTAMPING are treated alike.)
MarkEntry(t, v) ==
  /\ build = "module"
  /\ Enter(t, "mark", v)
  /\ \/ ubuf' = [ubuf EXCEPT ![t] = Nothing]
     \/ ubuf' = [ubuf EXCEPT ![t] = v]
  /\ pc' = [pc EXCEPT ![t] = "kernel"]
  /\ UNCHANGED <<sockVars, rateVars, data, crowded>>

\* vpnhide_setsockopt_sock: the present mark is zeroed but for the probe's bit,
\* and the kernel goes on with the value it was given.
setsockopt_mark(t, v) ==
  /\ build = "intree"
  /\ Enter(t, "mark", v)
  /\ ubuf' = [ubuf EXCEPT ![t] = v]
  /\ mark' = Nothing
  /\ pc' = [pc EXCEPT ![t] = "kernel"]
  /\ UNCHANGED <<bound, sndbuf, probe, probing, rateVars, data, crowded>>

\* The kernel sets the whole mark, if the application may.
MarkKernel(t) ==
  /\ pc[t] = "kernel" /\ call[t] = "mark"
  /\ \/ mark' = ubuf[t] /\ probe' = FALSE /\ probing' = FALSE /\ Finish(t, OK)
     \/ Finish(t, "EPERM") /\ UNCHANGED <<mark, probe, probing>>
  /\ UNCHANGED <<worldVars, bound, sndbuf, now, rateVars, call, ubuf, data, histVars,
                 boundWhileListed, crowded, calls, flips>>

\* vpnhide_setsockopt_sock answers for the kernel.
setsockopt_probe(t) ==
  /\ build = "intree"
  /\ Enter(t, "probe", Nothing)
  /\ probe' = TRUE /\ probing' = TRUE
  /\ pc' = [pc EXCEPT ![t] = "done"]
  /\ UNCHANGED <<bound, mark, sndbuf, rateVars, ubuf, data, crowded>>

\* getsockopt SO_BINDTODEVICE: the kernel writes the name.
DeviceEntry(t) ==
  /\ build = "module"
  /\ Enter(t, "device", Nothing)
  /\ ubuf' = [ubuf EXCEPT ![t] = bound]
  /\ pc' = [pc EXCEPT ![t] = "ret"]
  /\ UNCHANGED <<sockVars, rateVars, data, crowded>>

\* Wrong variant: the name is emptied only if it was listed when it was bound.
DeviceRetAsBound(t) ==
  /\ pc[t] = "ret" /\ call[t] = "device"
  /\ ubuf' = IF boundWhileListed THEN [ubuf EXCEPT ![t] = Nothing] ELSE ubuf
  /\ Finish(t, OK)
  /\ UNCHANGED <<worldVars, sockVars, now, rateVars, call, data, histVars,
                 boundWhileListed, crowded, calls, flips>>

\* sock_getsockopt_ret empties it.
DeviceRet(t) ==
  /\ pc[t] = "ret" /\ call[t] = "device"
  /\ ubuf' = IF IsActiveVpn(ubuf[t]) THEN [ubuf EXCEPT ![t] = Nothing] ELSE ubuf
  /\ Finish(t, OK)
  /\ UNCHANGED <<worldVars, sockVars, now, rateVars, call, data, histVars,
                 boundWhileListed, crowded, calls, flips>>
-----------------------------------------------------------------------------
(* connect.                                                                *)

\* socket_connect_entry takes the address away from the system call;
\* security_socket_connect_entry only remembers.
ConnectEntry(t) ==
  /\ build = "module"
  /\ Enter(t, "connect", Nothing)
  /\ data' = [data EXCEPT ![t] = [NoData EXCEPT !.deny = block]]
  /\ ubuf' = [ubuf EXCEPT ![t] = IF block /\ wrapper THEN Nothing ELSE "address"]
  /\ pc' = [pc EXCEPT ![t] = "kernel"]
  /\ UNCHANGED <<sockVars, rateVars, crowded>>

\* The system call needs the address; the security hook has nothing against it.
ConnectKernel(t) ==
  /\ pc[t] = "kernel" /\ call[t] = "connect"
  /\ Returns(t, IF ubuf[t] = Nothing THEN "EFAULT" ELSE OK)
  /\ UNCHANGED <<worldVars, sockVars, now, rateVars, call, ubuf, data, histVars,
                 boundWhileListed, crowded, calls, flips>>

\* Wrong variant: the return handler looks at the policy again.
RefusedNow(t) == block /\ (wrapper => ret[t] = "EFAULT")

\* socket_connect_ret, security_socket_connect_ret
Refused(t) == data[t].deny /\ (wrapper => ret[t] = "EFAULT")

ConnectRet(t) ==
  /\ pc[t] = "ret" /\ call[t] = "connect"
  /\ Finish(t, IF Refused(t) THEN "ECONNREFUSED" ELSE ret[t])
  /\ UNCHANGED <<worldVars, sockVars, now, rateVars, call, ubuf, data, histVars,
                 boundWhileListed, crowded, calls, flips>>
-----------------------------------------------------------------------------
(* UDP sends.                                                              *)

\* vpnhide_udpv6_sendmsg_ll takes the device the socket is bound to where there
\* is no link-local scope.
udpv6_sendmsg_ll(c) ==
  IF c = "linklocal" THEN IsActiveVpn(Route) ELSE IsActiveVpn(bound)

\* udp_sendmsg_entry and udpv6_sendmsg_ll_entry save sk_sndbuf; the latter looks
\* at the scope of a link-local address.
SendEntry(t, c) ==
  /\ Enter(t, c, Nothing)
  /\ data' = [data EXCEPT ![t] = [NoData EXCEPT !.sndbuf = sndbuf,
                !.deny = IF build = "intree" THEN udpv6_sendmsg_ll(c)
                         ELSE c = "linklocal" /\ IsActiveVpn(Route)]]
  /\ crowded' = (crowded \/ \E u \in Threads :
                              call[u] \in Sends /\ pc[u] # "done")
  /\ pc' = [pc EXCEPT ![t] = "limit"]
  /\ UNCHANGED <<sockVars, rateVars, ubuf>>

Regained == ((now - rate.last) * Milli) \div RegenNs

\* Wrong variant: the time that did not make a whole unit is forgotten.
RefilledNow ==
  LET tokens == (rate.tokens + (Regained % U32)) % U32
  IN IF Regained = 0 THEN rate
     ELSE IF tokens >= Capacity * Milli
     THEN [rate EXCEPT !.tokens = Capacity * Milli, !.last = now]
     ELSE [rate EXCEPT !.tokens = tokens, !.last = now]

\* udp_rate_limit_exceeded, first part: what time has given back.
Refilled ==
  LET tokens == (rate.tokens + (Regained % U32)) % U32
  IN IF Regained = 0 THEN rate
     ELSE IF tokens >= Capacity * Milli
     THEN [rate EXCEPT !.tokens = Capacity * Milli, !.last = now]
     ELSE [rate EXCEPT !.tokens = tokens,
                       !.last = @ + (Regained * RegenNs) \div Milli]

\* A known UID pays with a token if it has one.
TakeToken(ok) ==
  LET full == Refilled
      isFull == Regained > 0 /\ full.tokens = Capacity * Milli /\ full.last = now
      base == IF isFull THEN 0 ELSE spent
  IN /\ rate.present
     /\ ok = (full.tokens >= Milli)
     /\ rate' = IF ok THEN [full EXCEPT !.tokens = @ - Milli] ELSE full
     /\ spent' = IF ok THEN base + 1 ELSE base
     /\ fullAt' = IF isFull THEN now ELSE fullAt
     /\ wrapped' = (wrapped \/ rate.tokens + Regained >= U32)

\* A new one gets a bucket, unless memory is short.
NewRate ==
  /\ ~rate.present
  /\ \/ /\ rate' = [present |-> TRUE, tokens |-> (Capacity - 1) * Milli, last |-> now]
        /\ spent' = 1 /\ fullAt' = now /\ wrapped' = FALSE
     \/ UNCHANGED rateVars

Spoof(t) ==
  /\ sndbuf' = 0
  /\ data' = [data EXCEPT ![t].spoofed = TRUE]

\* The rest of udp_sendmsg_entry: only a send without an address, over a route
\* through a VPN, is counted and, beyond the limit, throttled.
SendLimit(t) ==
  /\ build = "module"
  /\ pc[t] = "limit"
  /\ \/ /\ call[t] = "send" /\ IsActiveVpn(Route)
        /\ \/ TakeToken(TRUE) /\ UNCHANGED <<sndbuf, data>>
           \/ TakeToken(FALSE) /\ Spoof(t)
           \/ NewRate /\ UNCHANGED <<sndbuf, data>>
     \/ /\ call[t] # "send" \/ ~IsActiveVpn(Route)
        /\ UNCHANGED <<rateVars, sndbuf, data>>
  /\ pc' = [pc EXCEPT ![t] = "kernel"]
  /\ UNCHANGED <<worldVars, bound, mark, probe, probing, now, call, ubuf, ret, histVars,
                 boundWhileListed, crowded, calls, flips>>

\* The in-tree bucket counts whole tokens, and time by whole periods.
Periods == (now - rate.last) \div RegenNs
AsInt(n) == ((n + IntHalf) % (2 * IntHalf)) - IntHalf

\* vpnhide_udp_sendmsg: what time has given back.
rl_refilled ==
  LET regen == AsInt(Periods)
      tokens == AsInt(rate.tokens + regen)
  IN IF regen <= 0 THEN rate
     ELSE [rate EXCEPT !.tokens = IF tokens < Capacity THEN tokens ELSE Capacity,
                       !.last = @ + regen * RegenNs]

\* vpnhide_udp_sendmsg: a token, if there is one.
rl_take(ok) ==
  LET full == rl_refilled
      isFull == full.last > rate.last /\ full.tokens = Capacity
      base == IF isFull THEN 0 ELSE spent
  IN /\ rate.present
     /\ ok = (full.tokens > 0)
     /\ rate' = IF ok THEN [full EXCEPT !.tokens = @ - 1] ELSE full
     /\ spent' = IF ok THEN base + 1 ELSE base
     /\ fullAt' = IF isFull THEN full.last ELSE fullAt
     /\ wrapped' = (wrapped \/ rate.tokens + Periods >= IntHalf)

\* rl_find_or_alloc, and the first token.
rl_alloc ==
  /\ ~rate.present
  /\ \/ /\ rate' = [present |-> TRUE, tokens |-> Capacity - 1, last |-> now]
        /\ spent' = 1 /\ fullAt' = now /\ wrapped' = FALSE
     \/ UNCHANGED rateVars

udp_dst_is_vpn(t) == call[t] = "send" /\ IsActiveVpn(Route)

\* vpnhide_udp_sendmsg_pre: a send that is refused never reaches the kernel.
sendmsg_pre(t) ==
  /\ build = "intree"
  /\ pc[t] = "limit"
  /\ IF data[t].deny
     THEN Finish(t, "ENODEV") /\ UNCHANGED <<rateVars, data>>
     ELSE IF udp_dst_is_vpn(t) /\ ~probe
     THEN \/ /\ rl_take(TRUE) \/ rl_alloc
             /\ pc' = [pc EXCEPT ![t] = "kernel"]
             /\ UNCHANGED <<data, ret>>
          \/ /\ rl_take(FALSE)
             /\ data' = [data EXCEPT ![t].spoofed = TRUE]
             /\ Finish(t, "EAGAIN")
     ELSE pc' = [pc EXCEPT ![t] = "kernel"] /\ UNCHANGED <<rateVars, data, ret>>
  /\ UNCHANGED <<worldVars, sockVars, now, call, ubuf, histVars, boundWhileListed, crowded,
                 calls, flips>>

SendKernel(t) ==
  /\ pc[t] = "kernel" /\ call[t] \in Sends
  /\ Returns(t, IF sndbuf = 0 THEN "EAGAIN" ELSE OK)
  /\ UNCHANGED <<worldVars, sockVars, now, rateVars, call, ubuf, data, histVars,
                 boundWhileListed, crowded, calls, flips>>

\* Wrong variant: sk_sndbuf is put back only if the send failed.
RestoredOnError(t) == IF ret[t] # OK /\ ~data[t].spoofed THEN data[t].sndbuf ELSE sndbuf

\* udp_sendmsg_ret, udpv6_sendmsg_ll_ret
Restored(t) == IF data[t].spoofed THEN data[t].sndbuf ELSE sndbuf

SendRet(t) ==
  /\ pc[t] = "ret" /\ call[t] \in Sends
  /\ sndbuf' = Restored(t)
  /\ Finish(t, IF data[t].deny THEN "ENOBUFS" ELSE ret[t])
  /\ UNCHANGED <<worldVars, bound, mark, probe, probing, now, rateVars, call, ubuf, data,
                 histVars, boundWhileListed, crowded, calls, flips>>
-----------------------------------------------------------------------------
Init ==
  /\ build \in Builds
  /\ vpns \in SUBSET Tunnels /\ block \in BOOLEAN
  /\ wrapper \in IF build = "module" THEN BOOLEAN ELSE {FALSE}
  /\ bound = Nothing /\ mark = Nothing /\ sndbuf = SndBuf
  /\ probe = FALSE /\ probing = FALSE
  /\ now = 0 /\ rate = NoRate
  /\ pc = [t \in Threads |-> "idle"] /\ call = [t \in Threads |-> "none"]
  /\ ubuf = [t \in Threads |-> Nothing] /\ data = [t \in Threads |-> NoData]
  /\ ret = [t \in Threads |-> OK]
  /\ asked = [t \in Threads |-> Nothing] /\ listed = [t \in Threads |-> {}]
  /\ verdicts = [t \in Threads |-> {}]
  /\ boundWhileListed = FALSE
  /\ spent = 0 /\ fullAt = 0 /\ wrapped = FALSE /\ crowded = FALSE
  /\ calls = 0 /\ flips = 0

Begin(t) ==
  \/ \E opt \in Binds, i \in Links : BindEntry(t, opt, i) \/ setsockopt_bind(t, opt, i)
  \/ MarkEntry(t, "value") \/ setsockopt_mark(t, "value") \/ setsockopt_probe(t)
  \/ DeviceEntry(t)
  \/ ConnectEntry(t)
  \/ \E c \in Sends : SendEntry(t, c)

Proceed(t) ==
  \/ BindKernel(t) \/ BindRet(t) \/ MarkKernel(t) \/ DeviceRet(t)
  \/ ConnectKernel(t) \/ ConnectRet(t)
  \/ SendLimit(t) \/ sendmsg_pre(t) \/ SendKernel(t) \/ SendRet(t)
  \/ Back(t)

Next ==
  \/ \E t \in Threads : Begin(t) \/ Proceed(t)
  \/ SetVpns \/ SetPolicy \/ Tick

Spec == Init /\ [][Next]_vars
-----------------------------------------------------------------------------
TypeOK ==
  /\ vpns \subseteq Tunnels
  /\ bound \in Links \cup {Nothing}
  /\ sndbuf \in {0, SndBuf}
  /\ rate.tokens <= Capacity * (IF build = "module" THEN Milli ELSE 1)
  /\ rate.tokens >= (IF build = "module" THEN 0 ELSE -IntHalf) /\ rate.last <= now
  /\ \A t \in Threads : ubuf[t] \in Links \cup {Nothing, Fake, "address", "value"}

\* A bind that the hook denied leaves no trace: the caller gets -ENODEV whichever
\* way the kernel refused, its buffer is what it was before the call (unless
\* writing it faulted) and no socket gets bound to an interface that is listed
\* all through the call, whatever VPN lists are published meanwhile.
DeniedBindLeavesNoTrace ==
  /\ ~boundWhileListed
  /\ \A t \in Threads :
       (pc[t] = "done" /\ call[t] \in Binds) =>
         /\ ubuf[t] = asked[t]
         /\ data[t].modified \/ data[t].deny => ret[t] = "ENODEV"

\* SO_BINDTODEVICE never gives the application the name of an interface that is
\* listed all through the call, also if it was bound before it was listed.
BoundVpnNotReported ==
  \A t \in Threads :
    (pc[t] = "done" /\ call[t] = "device") => ubuf[t] \notin listed[t]

\* A connect is refused or goes through as a policy in force during the call
\* says, with the one error the application expects, whichever of the two
\* probes is registered and whatever is published meanwhile.
ConnectFollowsOnePolicy ==
  \A t \in Threads :
    (pc[t] = "done" /\ call[t] = "connect") =>
      \/ ret[t] = "ECONNREFUSED" /\ TRUE \in verdicts[t]
      \/ ret[t] = OK /\ FALSE \in verdicts[t]

\* Throttling is over with the call: unless two sends have overlapped on the
\* socket, its send buffer is as the application set it whenever no send is in
\* progress, and a send that is not over the VPN route is never throttled.  A
\* socket marked as a probe keeps the mark, and is not throttled, until an SO_MARK
\* of the application goes through; one that is refused does not remove it.
\* Types are included: the bucket never exceeds its capacity.
ThrottlingEndsWithTheSend ==
  /\ TypeOK
  /\ probing => probe
  /\ ~crowded =>
    /\ (\A t \in Threads : call[t] \in Sends => pc[t] = "done") => sndbuf = SndBuf
    /\ \A t \in Threads : (pc[t] = "done" /\ call[t] = "sendto") => ret[t] # "EAGAIN"

\* One more send would exceed the capacity plus what time has given back since
\* the bucket was last full.
OverRate ==
  rate.present
    /\ (spent + 1) * Milli > Capacity * Milli + ((now - fullAt) * Milli) \div RegenNs

\* The token bucket is exact: a send is let through only within the rate, however
\* the calls are spaced, and is throttled only beyond it unless the u32 or int
\* count has wrapped around after a long pause.  Sends the in-tree build refuses
\* for another reason, and those of a probe, are not counted.
BucketIsExact ==
  [][\A t \in Threads :
       (/\ pc[t] = "limit" /\ pc'[t] # "limit"
        /\ call[t] = "send" /\ IsActiveVpn(Route)
        /\ build = "intree" => ~probe /\ ~data[t].deny) =>
         /\ ~data'[t].spoofed => ~OverRate
         /\ (data'[t].spoofed /\ ~wrapped') => OverRate]_vars
=============================================================================
