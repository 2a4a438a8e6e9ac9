----------------------------- MODULE LinkViews -----------------------------
(***************************************************************************)
(* What an application whose UID is a target sees when it enumerates       *)
(* network interfaces (kmod/hooks_netlink.c), while the list of active     *)
(* VPNs changes under it:                                                  *)
(*                                                                         *)
(*   "dump"    a netlink dump: the kernel fills one message per entry,     *)
(*             several to a buffer, and resumes with the entry that did    *)
(*             not fit; the hooks trim the message of a VPN away;          *)
(*   "seq"     a /proc/net file: the kernel shows records into a seq_file  *)
(*             buffer, grows or flushes it when a record overflows; the    *)
(*             hooks compact the lines of a VPN away;                      *)
(*   "ifconf"  SIOCGIFCONF: the hook compacts the array in the caller's    *)
(*             memory, clears the rest and corrects the length;            *)
(*   "ioctl"   an ioctl per interface name (SIOCGIFADDR and its likes),    *)
(*             which fails for a VPN;                                      *)
(*   "bpf"     the traffic counters in a BPF map (kmod/hooks_fs.c), which  *)
(*             a process that is no target reads row by row or in batches: *)
(*             the rows of VPNs become zero and the cover interface's row  *)
(*             gains what they held.                                       *)
(*                                                                         *)
(* The in-tree build (kpatch) asks in the kernel functions themselves: its *)
(* styles are "patched" and "patchedrule" for dumps, "patched" for files,  *)
(* "elem", "wide", "page" and "widepage" for counters.                     *)
(*                                                                         *)
(* A line is LineLen pieces <<name, 1>>, .., <<name, LineLen>>; the first  *)
(* or, in some files, the last holds the interface name.  The dump loop,   *)
(* seq_read and the ioctl itself are the kernel's and external to the      *)
(* repository.  The count each hook adds to is in module InterceptStats.   *)
(***************************************************************************)
EXTENDS Integers, SequencesExt, FiniteSetsExt

CONSTANTS
  Links,       \* the interfaces, in the order the kernel lists them
  Tunnels,     \* those that may be in the list of active VPNs
  Files,       \* the files: sequences of records, which are sequences of names
  SkbMax,      \* messages that fit one netlink buffer
  SeqSize,     \* initial size of a seq_file buffer
  LineLen,     \* pieces of a line
  IfconfMax,   \* most entries the caller's SIOCGIFCONF array holds
  Traffic,     \* per interface, the counter in the map
  Covers,      \* the interfaces that may be the cover, never a VPN; NoCover included
  MaxOps,      \* bound on enumerations
  MaxFlips     \* bound on changes of the VPN list

VARIABLES
  vpns,        \* global_active_vpns
  cover,       \* global_cover_ifindex
  op, style,   \* the enumeration, and which family of hooks serves it
  pc, idx,     \* its step and the entry it is at
  buf, got,    \* the kernel's buffer; what the application has received
  data,        \* ri->data of the hooked call
  file, size, count,         \* seq_file: records, size and count; for
                             \* SIOCGIFCONF capacity and entries written
  ubuf, ulen, dst, fault,    \* SIOCGIFCONF: caller's array, ifc_len, failures
  vsum, cpos, cidx,   \* bpf batch: vpn_sum, cover_pos, cover_idx
  calm,           \* history: nothing published during this enumeration
  always, ever,   \* history: listed at all / some moments of this enumeration
  ops, flips

seqVars == <<file, size, count>>
ifcVars == <<ubuf, ulen, dst, fault>>
bpfVars == <<vsum, cpos, cidx>>
envVars == <<vpns, cover, calm, always, ever, flips>>
vars == <<envVars, op, style, pc, idx, buf, got, data, seqVars, ifcVars, bpfVars, ops>>

Names == ToSet(Links)
NoCover == "none"
SplitRule == "split"    \* a rule that routes a UID range to a table of its own
Blank == "blank"
Junk == <<Blank, 0>>
NoData == [filter |-> FALSE, saved |-> 0, ret |-> 0]
EMSGSIZE == -90

\* is_active_vpn_ifindex, is_active_vpn_ifname
IsActiveVpn(i) == i \in vpns

Least(a, b) == IF a < b THEN a ELSE b
-----------------------------------------------------------------------------
\* VH_SET_VPN_IFINDEXES of the daemon, at any moment.
SetVpns ==
  /\ flips < MaxFlips
  /\ flips' = flips + 1
  /\ \E v \in SUBSET Tunnels :
       /\ v # vpns
       /\ vpns' = v
       /\ always' = always \cap v
       /\ ever' = ever \cup v
  /\ calm' = FALSE
  /\ UNCHANGED <<cover, op, style, pc, idx, buf, got, data, seqVars, ifcVars, bpfVars, ops>>

\* VH_SET_COVER_IFACE, or the write of a cover_iface line.
SetCover ==
  /\ flips < MaxFlips
  /\ flips' = flips + 1
  /\ cover' \in Covers \ {cover}
  /\ calm' = FALSE
  /\ UNCHANGED <<vpns, always, ever, op, style, pc, idx, buf, got, data, seqVars,
                 ifcVars, bpfVars, ops>>

Start(o, s, step) ==
  /\ op = "idle" /\ ops < MaxOps
  /\ op' = o /\ style' = s /\ pc' = step /\ idx' = 1
  /\ buf' = <<>> /\ got' = <<>> /\ data' = NoData
  /\ always' = vpns /\ ever' = vpns /\ calm' = TRUE
  /\ ops' = ops + 1
  /\ UNCHANGED <<vpns, cover, flips>>

\* The application is done with what it received.
Finish ==
  /\ pc = "done"
  /\ op' = "idle" /\ pc' = "idle"
  /\ got' = <<>> /\ buf' = <<>> /\ data' = NoData /\ idx' = 1
  /\ file' = <<>> /\ size' = SeqSize /\ count' = 0
  /\ ulen' = 0 /\ dst' = 0 /\ fault' = "none"
  /\ UNCHANGED <<envVars, style, ubuf, bpfVars, ops>>
-----------------------------------------------------------------------------
(* Netlink dumps.  Four families of hooks:                                 *)
(*   "link"   rtnl_fill_ifinfo, inet_fill_ifaddr, inet6_fill_ifaddr decide *)
(*            at entry and turn every result into success;                 *)
(*   "route"  fib_dump_info, rt_fill_info, rt6_fill_node and               *)
(*   "rule"   fib_nl_fill_rule decide at entry and leave an error alone;   *)
(*   "qdisc"  tc_fill_qdisc decides on return, from the message itself.    *)
(* An entry is named by the interface it is about.                         *)

StartDump ==
  /\ \E s \in {"link", "route", "rule", "qdisc", "patched", "patchedrule"} :
       Start("dump", s, "fill")
  /\ UNCHANGED <<seqVars, ifcVars, bpfVars>>

Entries == IF style \in {"rule", "patchedrule"} THEN Append(Links, SplitRule) ELSE Links

\* rt6_fill_entry, rt_fill_entry: the device of the route.
RouteFilter(e) == IsActiveVpn(e)

\* fib_rule_fill_entry: a rule is hidden for its interface names, or because
\* it routes a range of application UIDs to a table of its own.
RuleFilter(e) == IsActiveVpn(e) \/ e = SplitRule

Filter(e) ==
  \/ style = "link" /\ IsActiveVpn(e)
  \/ style = "route" /\ RouteFilter(e)
  \/ style = "rule" /\ RuleFilter(e)

\* The probed function is entered: the hook looks at the device and saves the
\* buffer's length; then the function adds its message, or finds no room.
Fill ==
  /\ op = "dump" /\ pc = "fill" /\ style \notin {"patched", "patchedrule"}
  /\ data' = [filter |-> Filter(Entries[idx]),
              saved |-> Len(buf),
              ret |-> IF Len(buf) < SkbMax THEN 0 ELSE EMSGSIZE]
  /\ buf' = IF Len(buf) < SkbMax THEN Append(buf, Entries[idx]) ELSE buf
  /\ pc' = "ret"
  /\ UNCHANGED <<envVars, op, style, idx, got, seqVars, ifcVars, bpfVars, ops>>

\* The same in-tree: by the device, and for rules by its name.
vpnhide_should_hide_dev(e) == IsActiveVpn(e)
vpnhide_should_hide_ifname(e) == IsActiveVpn(e)

RulePatched(e) == vpnhide_should_hide_ifname(e) \/ e = SplitRule

\* A patched function returns success before it adds the message of a VPN.
FillPatched ==
  /\ op = "dump" /\ pc = "fill" /\ style \in {"patched", "patchedrule"}
  /\ LET hide == IF style = "patched" THEN vpnhide_should_hide_dev(Entries[idx])
                 ELSE RulePatched(Entries[idx])
         room == Len(buf) < SkbMax
     IN /\ data' = [NoData EXCEPT !.ret = IF hide \/ room THEN 0 ELSE EMSGSIZE]
        /\ buf' = IF ~hide /\ room THEN Append(buf, Entries[idx]) ELSE buf
  /\ pc' = "dump"
  /\ UNCHANGED <<envVars, op, style, idx, got, seqVars, ifcVars, bpfVars, ops>>

\* Wrong variant: the message of a VPN is taken for one that did not fit.
TrimRetries ==
  /\ buf' = IF data.filter THEN SubSeq(buf, 1, data.saved) ELSE buf
  /\ data' = IF data.filter THEN [data EXCEPT !.ret = EMSGSIZE] ELSE data

\* rtnl_fill_ret and its likes.
TrimLink ==
  /\ buf' = IF data.filter THEN SubSeq(buf, 1, data.saved) ELSE buf
  /\ data' = IF data.filter THEN [data EXCEPT !.ret = 0] ELSE data

\* Wrong variant: a result that the hook does not filter becomes success as well.
TrimRouteSwallows ==
  /\ buf' = IF data.filter THEN SubSeq(buf, 1, data.saved) ELSE buf
  /\ data' = [data EXCEPT !.ret = 0]

\* fib_dump_ret and its likes.
TrimRoute ==
  LET hide == data.filter /\ data.ret >= 0
  IN /\ buf' = IF hide THEN SubSeq(buf, 1, data.saved) ELSE buf
     /\ data' = IF hide THEN [data EXCEPT !.ret = 0] ELSE data

\* tc_fill_qdisc_ret: the index is read back from the message just added.
TrimQdisc ==
  LET hide == data.ret = 0 /\ IsActiveVpn(buf[data.saved + 1])
  IN /\ buf' = IF hide THEN SubSeq(buf, 1, data.saved) ELSE buf
     /\ UNCHANGED data

FillRet ==
  /\ op = "dump" /\ pc = "ret"
  /\ \/ style = "link" /\ TrimLink
     \/ style \in {"route", "rule"} /\ TrimRoute
     \/ style = "qdisc" /\ TrimQdisc
  /\ pc' = "dump"
  /\ UNCHANGED <<envVars, op, style, idx, got, seqVars, ifcVars, bpfVars, ops>>

\* The dump loop: an error ends the buffer, and the dump resumes with the same
\* entry in the next one.
Dump ==
  /\ op = "dump" /\ pc = "dump"
  /\ IF data.ret < 0
     THEN /\ got' = got \o buf /\ buf' = <<>>
          /\ pc' = "fill" /\ UNCHANGED idx
     ELSE IF idx < Len(Entries)
     THEN idx' = idx + 1 /\ pc' = "fill" /\ UNCHANGED <<buf, got>>
     ELSE /\ got' = got \o buf /\ buf' = <<>>
          /\ pc' = "done" /\ UNCHANGED idx
  /\ data' = NoData
  /\ UNCHANGED <<envVars, op, style, seqVars, ifcVars, bpfVars, ops>>
-----------------------------------------------------------------------------
(* /proc/net files.                                                        *)

StartSeq ==
  /\ \E s \in {"first", "last", "any", "patched"}, f \in Files :
       /\ s = "last" => \A k \in DOMAIN f : Len(f[k]) = 1
       /\ Start("seq", s, "show")
       /\ file' = f
  /\ size' = SeqSize /\ count' = 0
  /\ UNCHANGED <<ifcVars, bpfVars>>

Line(n) == [k \in 1..LineLen |-> <<n, k>>]

\* seq_printf of one line: a line that leaves no room for the terminating null
\* is cut, and the count is set to the size, which marks the overflow.
SeqPrint(acc, n) ==
  LET room == size - acc.count
  IN IF room = 0 THEN acc
     ELSE IF LineLen < room
     THEN [buf |-> acc.buf \o Line(n), count |-> acc.count + LineLen]
     ELSE [buf |-> Append(acc.buf \o SubSeq(Line(n), 1, room - 1), Junk),
           count |-> size]

\* A seq_show function prints its record; the hook has saved the count.
SeqShow ==
  /\ op = "seq" /\ pc = "show" /\ style # "patched"
  /\ LET shown == FoldLeft(SeqPrint, [buf |-> buf, count |-> count], file[idx])
     IN buf' = shown.buf /\ count' = shown.count
  /\ data' = [NoData EXCEPT !.saved = count]
  /\ pc' = "filter"
  /\ UNCHANGED <<envVars, op, style, idx, got, file, size, ifcVars, bpfVars, ops>>

\* A patched seq_show function leaves out the lines of a VPN.
SeqShowPatched ==
  /\ op = "seq" /\ pc = "show" /\ style = "patched"
  /\ LET names == SelectSeq(file[idx], LAMBDA n : ~vpnhide_should_hide_dev(n))
         shown == FoldLeft(SeqPrint, [buf |-> buf, count |-> count], names)
     IN buf' = shown.buf /\ count' = shown.count
  /\ data' = [NoData EXCEPT !.saved = count]
  /\ pc' = "next"
  /\ UNCHANGED <<envVars, op, style, idx, got, file, size, ifcVars, bpfVars, ops>>

\* dev_seq_ret, fib_route_ret: the line begins with the name.
FirstWordIsVpn(line) == IsActiveVpn(line[1][1])

\* if6_seq_ret, ipv6_route_ret: the line ends with the name, which a cut line
\* has lost.
LastWordIsVpn(line) == Len(line) = LineLen /\ IsActiveVpn(line[LineLen][1])

\* fib_trie_ret: any word of the line.
AnyWordIsVpn(line) == \E k \in DOMAIN line : IsActiveVpn(line[k][1])

\* The pieces of the lines that do not name a VPN.
KeepLines(pieces) ==
  LET first(p) == ((p - 1) \div LineLen) * LineLen + 1
      line(p) == SubSeq(pieces, first(p), Least(first(p) + LineLen - 1, Len(pieces)))
      named(p) == \/ style = "first" /\ FirstWordIsVpn(line(p))
                  \/ style = "last" /\ LastWordIsVpn(line(p))
                  \/ style = "any" /\ AnyWordIsVpn(line(p))
      kept == SelectSeq([p \in 1..Len(pieces) |-> p], LAMBDA p : ~named(p))
  IN [n \in 1..Len(kept) |-> pieces[kept[n]]]

\* fib_route_ret, ipv6_route_ret, dev_seq_ret, if6_seq_ret, fib_trie_ret: they
\* compact the lines shown since entry and set the count to what is left.
SeqFilter ==
  /\ op = "seq" /\ pc = "filter"
  /\ LET kept == KeepLines(SubSeq(buf, data.saved + 1, count))
     IN /\ buf' = SubSeq(buf, 1, data.saved) \o kept
        /\ count' = data.saved + Len(kept)
  /\ pc' = "next"
  /\ UNCHANGED <<envVars, op, style, idx, got, data, file, size, ifcVars, bpfVars, ops>>

\* seq_read: a record that overflowed is shown again, into a larger buffer if
\* it was the first one and else after the records before it are delivered.
SeqNext ==
  /\ op = "seq" /\ pc = "next"
  /\ IF count = size /\ data.saved = 0
     THEN /\ size' = 2 * size /\ count' = 0 /\ buf' = <<>>
          /\ pc' = "show" /\ UNCHANGED <<idx, got>>
     ELSE IF count = size
     THEN /\ got' = got \o SubSeq(buf, 1, data.saved)
          /\ count' = 0 /\ buf' = <<>>
          /\ pc' = "show" /\ UNCHANGED <<idx, size>>
     ELSE IF idx < Len(file)
     THEN idx' = idx + 1 /\ pc' = "show" /\ UNCHANGED <<got, size, count, buf>>
     ELSE /\ got' = got \o buf /\ buf' = <<>> /\ count' = 0
          /\ pc' = "done" /\ UNCHANGED <<idx, size>>
  /\ data' = NoData
  /\ UNCHANGED <<envVars, op, style, file, ifcVars, bpfVars, ops>>
-----------------------------------------------------------------------------
(* SIOCGIFCONF.                                                            *)

\* sock_ioctl_entry captures the array and its capacity; the ioctl writes the
\* entries that fit and leaves the rest of the array as it was.  The last
\* interface may have no address, and is then not listed.
StartIfconf ==
  /\ Start("ifconf", "array", "filter")
  /\ \E cap \in 1..IfconfMax, listed \in {Len(Links) - 1, Len(Links)} :
       LET n == Least(cap, listed)
       IN /\ ubuf' = [k \in 1..IfconfMax |-> IF k <= n THEN Links[k] ELSE ubuf[k]]
          /\ ulen' = n /\ count' = n
          /\ size' = cap
  /\ dst' = 0 /\ fault' = "none"
  /\ UNCHANGED <<file, bpfVars>>

\* filter_ifconf_buf, one entry: either copy may fault.
IfconfFilter ==
  /\ op = "ifconf" /\ pc = "filter"
  /\ IF idx > ulen
     THEN pc' = "tail" /\ UNCHANGED <<idx, ubuf, dst, fault>>
     ELSE \/ /\ fault' = "copy" /\ pc' = "done"
             /\ UNCHANGED <<idx, ubuf, dst>>
          \/ /\ idx' = idx + 1
             /\ IF IsActiveVpn(ubuf[idx])
                THEN UNCHANGED <<ubuf, dst>>
                ELSE /\ ubuf' = [ubuf EXCEPT ![dst + 1] = ubuf[idx]]
                     /\ dst' = dst + 1
             /\ UNCHANGED <<pc, fault>>
  /\ UNCHANGED <<envVars, op, style, buf, got, data, seqVars, ulen, bpfVars, ops>>

\* Wrong variant: only the entries filtered out are cleared.
ClearedFiltered(k) == k > dst /\ k <= ulen

\* clear_ifconf_tail clears up to the capacity captured at entry.
Cleared(k) == k > dst /\ k <= size

IfconfTail ==
  /\ op = "ifconf" /\ pc = "tail"
  /\ \/ /\ fault' = "clear" /\ pc' = "done"
        /\ UNCHANGED ubuf
     \/ /\ ubuf' = [k \in 1..IfconfMax |-> IF Cleared(k) THEN Blank ELSE ubuf[k]]
        /\ pc' = "length"
        /\ UNCHANGED fault
  /\ UNCHANGED <<envVars, op, style, idx, buf, got, data, seqVars, ulen, dst, bpfVars,
                 ops>>

\* The end of sock_ioctl_ret: the length is corrected if an entry was dropped.
IfconfLength ==
  /\ op = "ifconf" /\ pc = "length"
  /\ \/ /\ dst # ulen /\ fault' = "put"
        /\ UNCHANGED ulen
     \/ /\ ulen' = dst
        /\ UNCHANGED fault
  /\ got' = SubSeq(ubuf, 1, ulen')
  /\ pc' = "done"
  /\ UNCHANGED <<envVars, op, style, idx, buf, data, seqVars, ubuf, dst, bpfVars,
                 ops>>
-----------------------------------------------------------------------------
(* An ioctl per name: dev_ioctl_ret, inet_ioctl_ret.                       *)

StartIoctl ==
  /\ Start("ioctl", "name", "ioctl")
  /\ UNCHANGED <<seqVars, ifcVars, bpfVars>>

\* The call succeeds for every interface; the hook makes that -ENODEV for a
\* VPN.
Ioctl ==
  /\ op = "ioctl" /\ pc = "ioctl"
  /\ got' = IF IsActiveVpn(Links[idx]) THEN got ELSE Append(got, Links[idx])
  /\ IF idx < Len(Links)
     THEN idx' = idx + 1 /\ UNCHANGED pc
     ELSE pc' = "done" /\ UNCHANGED idx
  /\ UNCHANGED <<envVars, op, style, buf, data, seqVars, ifcVars, bpfVars, ops>>
-----------------------------------------------------------------------------
(* Traffic counters.  "iface": rows per interface, one lookup each;        *)
(* "batch": the same rows, size at a time; "uid": rows per UID and         *)
(* interface, one of which (TargetRow) belongs to a target.  In-tree these *)
(* are "elem", "page" and "wide", and "widepage" has the latter in pages.  *)

TargetRow == "target"
Rows == IF style \in {"uid", "wide", "widepage"} THEN Append(Links, TargetRow) ELSE Links
Counter(e) == IF e = TargetRow THEN 1 ELSE Traffic[e]

StartBpf ==
  /\ \/ \E s \in {"iface", "uid"} : Start("bpf", s, "lookup") /\ size' = 1
     \/ \E s \in {"elem", "wide"} : Start("bpf", s, "elem") /\ size' = 1
     \/ \E n \in {SkbMax, Len(Links)} :
          /\ \/ Start("bpf", "batch", "row")
             \/ \E s \in {"page", "widepage"} : Start("bpf", s, "page")
          /\ size' = n
  /\ vsum' = 0 /\ cpos' = 0 /\ cidx' = cover
  /\ UNCHANGED <<file, count, ifcVars>>

\* is_key_vpn_or_target_uid
KeyIsHidden(e) == IsActiveVpn(e) \/ e = TargetRow

\* Wrong variant: only the first VPN's counter is collected.
CollectFirst(S) == IF S = {} THEN 0 ELSE Traffic[CHOOSE v \in S : TRUE]

collect_vpn_traffic_sum(S) == MapThenSumSet(LAMBDA v : Traffic[v], S)

\* The reader has the value of its row and goes on.
NextRow(step, value) ==
  /\ got' = Append(got, <<Rows[idx], value>>)
  /\ IF idx < Len(Rows)
     THEN idx' = idx + 1 /\ pc' = step
     ELSE pc' = "done" /\ UNCHANGED idx

\* bpf_single_lookup_zero: any copy may fault and leaves the value as it is.
bpf_single_lookup_zero ==
  /\ op = "bpf" /\ pc = "lookup"
  /\ LET e == Rows[idx]
     IN IF style = "iface" /\ ~KeyIsHidden(e) /\ cover = e
        THEN pc' = "cover" /\ UNCHANGED <<got, idx, fault>>
        ELSE \/ NextRow("lookup", IF KeyIsHidden(e) THEN 0 ELSE Counter(e)) /\ UNCHANGED fault
             \/ KeyIsHidden(e) /\ NextRow("lookup", Counter(e)) /\ fault' = "copy"
  /\ UNCHANGED <<envVars, op, style, buf, data, seqVars, ubuf, ulen, dst,
                 bpfVars, ops>>

\* bpf_single_cover_update, with the list of VPNs as it is now.
bpf_single_cover_update ==
  /\ op = "bpf" /\ pc = "cover"
  /\ LET sum == collect_vpn_traffic_sum(vpns)
     IN \/ NextRow("lookup", Counter(Rows[idx]) + sum) /\ UNCHANGED fault
        \/ sum > 0 /\ NextRow("lookup", Counter(Rows[idx])) /\ fault' = "copy"
  /\ UNCHANGED <<envVars, op, style, buf, data, seqVars, ubuf, ulen, dst,
                 bpfVars, ops>>

\* bpf_batch_lookup_zero, one row of the batch: a VPN's value is added up and
\* zeroed, either copy of which may fault; the cover's position is noted.
BatchRow ==
  /\ op = "bpf" /\ pc = "row"
  /\ LET e == Links[idx]
     IN IF IsActiveVpn(e)
        THEN /\ \/ /\ buf' = Append(buf, <<e, 0>>)
                   /\ vsum' = vsum + Traffic[e] /\ UNCHANGED fault
                \/ /\ buf' = Append(buf, <<e, Traffic[e]>>) /\ fault' = "copy"
                   /\ vsum' \in {vsum, vsum + Traffic[e]}
             /\ UNCHANGED cpos
        ELSE /\ buf' = Append(buf, <<e, Traffic[e]>>)
             /\ cpos' = IF cidx = e THEN Len(buf) + 1 ELSE cpos
             /\ UNCHANGED <<vsum, fault>>
  /\ IF Len(buf) + 1 < size /\ idx < Len(Links)
     THEN idx' = idx + 1 /\ UNCHANGED pc
     ELSE pc' = "patch" /\ UNCHANGED idx
  /\ UNCHANGED <<envVars, op, style, got, data, seqVars, ubuf, ulen, dst, cidx,
                 ops>>

\* Its end: the cover's row of this batch gains the sum.  The next batch
\* begins.
BatchCover ==
  /\ op = "bpf" /\ pc = "patch"
  /\ \/ /\ got' = got \o (IF cpos # 0 THEN [buf EXCEPT ![cpos][2] = @ + vsum]
                                     ELSE buf)
        /\ UNCHANGED fault
     \/ /\ cpos # 0 /\ vsum > 0
        /\ got' = got \o buf /\ fault' = "copy"
  /\ buf' = <<>> /\ vsum' = 0 /\ cpos' = 0 /\ cidx' = cover
  /\ IF idx < Len(Links)
     THEN idx' = idx + 1 /\ pc' = "row"
     ELSE pc' = "done" /\ UNCHANGED idx
  /\ UNCHANGED <<envVars, op, style, data, seqVars, ubuf, ulen, dst, ops>>
\* The true values of the rows of the batch that begins with row idx.
Unchanged(n) == [k \in 1..n |-> <<Rows[idx + k - 1], Counter(Rows[idx + k - 1])>>]

\* The early returns of bpf_batch_lookup_zero and vpnhide_bpf_lookup_batch: more
\* than 4096 rows, no memory, or a fault in reading the keys.
BatchLeft ==
  LET n == Least(size, Len(Rows) - idx + 1)
  IN /\ op = "bpf" /\ pc \in {"row", "page"} /\ buf = <<>>
     /\ got' = got \o Unchanged(n)
     /\ fault' = "copy"
     /\ IF idx + n <= Len(Rows)
        THEN idx' = idx + n /\ UNCHANGED pc
        ELSE pc' = "done" /\ UNCHANGED idx
     /\ cidx' = cover
     /\ UNCHANGED <<envVars, op, style, buf, data, seqVars, ubuf, ulen, dst, vsum, cpos, ops>>

\* vpnhide_bpf_lookup_elem changes the value before it is copied to the reader.
vpnhide_bpf_lookup_elem ==
  /\ op = "bpf" /\ pc = "elem"
  /\ LET e == Rows[idx]
     IN IF style = "elem" /\ ~KeyIsHidden(e) /\ cover = e
        THEN pc' = "sum" /\ UNCHANGED <<got, idx>>
        ELSE NextRow("elem", IF KeyIsHidden(e) THEN 0 ELSE Counter(e))
  /\ UNCHANGED <<envVars, op, style, buf, data, seqVars, ifcVars, bpfVars, ops>>

\* vh_collect_vpn_traffic_sum, with the list of VPNs as it is now.
vh_collect_vpn_traffic_sum ==
  /\ op = "bpf" /\ pc = "sum"
  /\ NextRow("elem", Counter(Rows[idx]) + collect_vpn_traffic_sum(vpns))
  /\ UNCHANGED <<envVars, op, style, buf, data, seqVars, ifcVars, bpfVars, ops>>

\* vpnhide_bpf_lookup_batch, one row of its copy of the page; after the last one
\* it looks up the cover.
PageRow ==
  /\ op = "bpf" /\ pc = "page"
  /\ LET e == Rows[idx]
     IN buf' = Append(buf, <<e, IF KeyIsHidden(e) THEN 0 ELSE Counter(e)>>)
  /\ IF Len(buf) + 1 < size /\ idx < Len(Rows)
     THEN idx' = idx + 1 /\ UNCHANGED <<pc, cidx>>
     ELSE pc' = "pagecover" /\ cidx' = cover /\ UNCHANGED idx
  /\ UNCHANGED <<envVars, op, style, got, data, seqVars, ifcVars, vsum, cpos, ops>>

\* The sum is that of the map, so that a cover in any page gains all of it.  Then
\* the page is copied to the reader, which may fault.
PageCover ==
  /\ op = "bpf" /\ pc = "pagecover"
  /\ LET n == Len(buf)
         sum == IF style = "page" THEN collect_vpn_traffic_sum(vpns) ELSE 0
         Gains(k) == IF buf[k][1] = cidx THEN sum ELSE 0
     IN \/ /\ got' = got \o [k \in 1..n |-> <<buf[k][1], buf[k][2] + Gains(k)>>]
           /\ UNCHANGED fault
        \/ /\ got' = got \o [k \in 1..n |-> <<buf[k][1], Counter(buf[k][1])>>]
           /\ fault' = "copy"
  /\ buf' = <<>>
  /\ IF idx < Len(Rows)
     THEN idx' = idx + 1 /\ pc' = "page"
     ELSE pc' = "done" /\ UNCHANGED idx
  /\ UNCHANGED <<envVars, op, style, data, seqVars, ubuf, ulen, dst, bpfVars, ops>>
-----------------------------------------------------------------------------
Init ==
  /\ vpns \in SUBSET Tunnels
  /\ cover \in Covers /\ calm = TRUE
  /\ always = vpns /\ ever = vpns
  /\ vsum = 0 /\ cpos = 0 /\ cidx = NoCover
  /\ op = "idle" /\ style = "none" /\ pc = "idle" /\ idx = 1
  /\ buf = <<>> /\ got = <<>> /\ data = NoData
  /\ file = <<>> /\ size = SeqSize /\ count = 0
  /\ ubuf = [k \in 1..IfconfMax |-> Blank] /\ ulen = 0 /\ dst = 0
  /\ fault = "none"
  /\ ops = 0 /\ flips = 0

Reading ==
  \/ Fill \/ FillPatched \/ FillRet \/ Dump
  \/ SeqShow \/ SeqShowPatched \/ SeqFilter \/ SeqNext
  \/ IfconfFilter \/ IfconfTail \/ IfconfLength
  \/ Ioctl
  \/ bpf_single_lookup_zero \/ bpf_single_cover_update
  \/ BatchRow \/ BatchCover \/ BatchLeft
  \/ vpnhide_bpf_lookup_elem \/ vh_collect_vpn_traffic_sum \/ PageRow \/ PageCover

Next ==
  \/ StartDump \/ StartSeq \/ StartIfconf \/ StartIoctl \/ StartBpf
  \/ Reading \/ Finish \/ SetVpns \/ SetCover

Spec == Init /\ [][Next]_vars /\ WF_vars(Reading)
-----------------------------------------------------------------------------
\* Buffers stay within their sizes and the counts agree with what they hold.
TypeOK ==
  /\ vpns \subseteq Tunnels /\ always \subseteq ever
  /\ op \in {"idle", "dump", "seq", "ifconf", "ioctl", "bpf"}
  /\ idx \in 1..(Len(Links) + Len(file) + 1)
  /\ op = "dump" => Len(buf) <= SkbMax
  /\ op = "seq" => Len(buf) = count /\ count <= size
  /\ ulen \in 0..IfconfMax /\ dst \in 0..IfconfMax
  /\ \A k \in 1..IfconfMax : ubuf[k] \in Names \cup {Blank}
  /\ fault \in {"none", "copy", "clear", "put"}

\* The interfaces a finished enumeration showed the application: for
\* SIOCGIFCONF all of the array it passed, the part beyond ifc_len included.
Shown ==
  CASE op \in {"dump", "ioctl"} -> ToSet(got)
    [] op = "seq" -> {got[k][1] : k \in DOMAIN got}
    [] op = "bpf" -> {got[k][1] : k \in {j \in DOMAIN got : got[j][2] # 0}}
    [] op = "ifconf" -> {ubuf[k] : k \in 1..size}

\* An interface that was listed as a VPN all through an enumeration shows up
\* nowhere in it: in no message whatever the buffer boundaries, in no whole or
\* cut line, in no entry and no leftover of the caller's array; nor does the
\* rule of its UID ranges, nor a counter other than zero.  (A fault while the
\* array is being filtered or cleared leaves it as it is, and so does one while
\* counters are copied, or a batch that is too large.)
HiddenNeverShown ==
  (pc = "done" /\ fault \in {"none", "put"}) =>
    Shown \cap (always \cup {SplitRule, TargetRow}) = {}

\* The part of a sequence about interfaces that were never listed meanwhile.
Untouched(s) == SelectSeq(s, LAMBDA n : n \notin ever)
UntouchedPieces(s) == SelectSeq(s, LAMBDA p : p[1] \notin ever)

\* All of a file.
AllPieces ==
  LET lines == FlattenSeq(file)
  IN [p \in 1..(Len(lines) * LineLen) |->
        <<lines[((p - 1) \div LineLen) + 1], ((p - 1) % LineLen) + 1>>]

OneLineRecords == \A k \in DOMAIN file : Len(file[k]) = 1

\* An interface that was never listed during an enumeration is in it exactly
\* once, in its place and whole: hiding the others neither drops nor repeats nor
\* cuts it, wherever a buffer ends.  For the files the module filters this is
\* about records of one line; see the README for records of several.  Types are
\* included: no buffer is overrun.
VisibleIntact ==
  /\ TypeOK
  /\ pc = "done" =>
    /\ op \in {"dump", "ioctl"} => Untouched(got) = Untouched(Links)
    /\ (op = "seq" /\ (OneLineRecords \/ style = "patched")) =>
         UntouchedPieces(got) = UntouchedPieces(AllPieces)
    /\ (op = "ifconf" /\ fault = "none") =>
         Untouched(got) = Untouched(SubSeq(Links, 1, count))
    /\ op = "bpf" =>
         \A k \in DOMAIN got :
           got[k][1] \notin ever \cup Covers \cup {TargetRow} =>
             got[k][2] = Traffic[got[k][1]]

\* Reading all of the interface counters adds up to the traffic there was: what
\* the VPNs' rows lose the cover's row gains, once, provided that there is a
\* cover that is no VPN, that nothing is published meanwhile and, for batches of
\* the module, that one batch holds all the rows.
TrafficConserved ==
  (/\ op = "bpf" /\ pc = "done" /\ calm /\ fault = "none"
   /\ \/ style \in {"iface", "elem", "page"}
      \/ style = "batch" /\ size >= Len(Links)
   /\ cover \in Names \ vpns)
  => FoldLeft(LAMBDA sum, row : sum + row[2], 0, got)
       = collect_vpn_traffic_sum(Names)

\* Every enumeration ends: no hook makes the kernel's loop retry for ever.
ReadEnds == (op # "idle") ~> (pc = "done")
=============================================================================
