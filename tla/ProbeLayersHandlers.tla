------------------------ MODULE ProbeLayersHandlers -------------------------
(***************************************************************************)
(* What the handlers of the probes and the in-tree hooks do to a call.     *)
(* ProbeLayers computes the next state of a call; the lemmas here say, for *)
(* every step, which of its fields change and how.                         *)
(***************************************************************************)
EXTENDS ProbeLayers, TLAPS

CallType ==
  [kind : Kinds \cup {"none"}, at : Nat, way : {"idle", "in", "out", "done"},
   ret : {"ok", "failed", "EFAULT", "ECONNREFUSED", "ENODEV"},
   value : {"none", "plain", "vpn", "cover"},
   short : BOOLEAN, elsewhere : BOOLEAN, kept : SUBSET Functions, deny : BOOLEAN,
   misread : SUBSET Functions, owned : Nat, counted : Nat,
   under : SUBSET {"none", "open", "block"}, covered : SUBSET BOOLEAN,
   whole : BOOLEAN, missed : BOOLEAN]

\* Does the probe end up registered?
Attached(p) == p.f \notin refused /\ (p.primary \in {"none", p.f} \/ p.primary \in refused)

\* The probes the loop has come to.
Seen(i) == \/ phase = "loading" /\ i < next
           \/ phase \in {"flags", "device", "loaded"}

Attachment ==
  /\ registered \subseteq Functions /\ next \in Nat \ {0}
  /\ build = "intree" \/ phase = "new" => registered = {}
  /\ build = "module" /\ phase \notin {"unloading", "gone"} =>
       \A i \in 1..Len(Probes) :
         Probes[i].f \in registered <=> Seen(i) /\ Attached(Probes[i])

\* The module's own state.
ModuleInv ==
  /\ build \in {"module", "intree"} /\ refused \subseteq Functions
  /\ build = "intree" => phase \in {"new", "loaded", "gone"} /\ refused = {}
  /\ phase \in {"new", "loading", "flags", "device", "loaded", "unloading", "gone"}
  /\ wrapper \in [connect : BOOLEAN, bind : BOOLEAN]
  /\ phase \in {"device", "loaded"} \/ build = "intree" =>
       /\ wrapper.connect <=> "sys_connect" \in registered
       /\ wrapper.bind <=> "sys_bind" \in registered
  /\ phase = "unloading" => ("sys_connect" \in registered => wrapper.connect)
  /\ policy \in {"none", "open", "block"} /\ cover \in BOOLEAN
  /\ device \in BOOLEAN /\ table \in BOOLEAN /\ (device => table)
  /\ policy # "none" => device /\ phase \in {"loaded", "unloading"}

\* Handlers that wait for the return whatever the policy is.
Always == {"sys_bind", "inet_bind", "inet_listen", "inet6_bind"}
-----------------------------------------------------------------------------
(* The tables.                                                             *)

\* probes[] has sixteen entries here.
LEMMA ProbesLength == Len(Probes) = 16 /\ 1..Len(Probes) = 1..16
  BY DEF Probes

\* No function is probed twice.
LEMMA ProbesDiffer ==
  ASSUME NEW i \in 1..Len(Probes), NEW j \in 1..Len(Probes), Probes[i].f = Probes[j].f
  PROVE  i = j
  BY ProbesLength DEF Probes

\* The probe another one stands by for comes before it, and stands by for none.
LEMMA PrimariesFirst ==
  ASSUME NEW i \in 1..Len(Probes), Probes[i].primary \notin {"none", Probes[i].f}
  PROVE  \E j \in 1..Len(Probes) :
           /\ j < i /\ Probes[j].f = Probes[i].primary
           /\ Probes[j].primary \in {"none", Probes[j].f}
  BY ProbesLength DEF Probes

\* The names of the functions.
LEMMA FunctionsList ==
  Functions = {"sys_getsockopt", "sk_getsockopt", "sock_getsockopt", "sock_common_getsockopt",
               "ip_cmsg_recv_offset", "ip6_datagram_recv_common_ctl", "ip6_datagram_recv_ctl",
               "sys_connect", "sys_bind", "security_socket_connect", "inet_bind", "inet_listen",
               "inet6_bind", "sys_getsockname", "inet_getname", "inet6_getname"}
  BY ProbesLength DEF Functions, Probes

\* The path of each call.
LEMMA LayersTable ==
  /\ /\ Len(Layers("connect")) = 2
     /\ Layers("connect")[1] = "sys_connect"
     /\ Layers("connect")[2] = "security_socket_connect"
  /\ /\ Len(Layers("listen")) = 1
     /\ Layers("listen")[1] = "inet_listen"
  /\ /\ Len(Layers("bind4")) = 2
     /\ Layers("bind4")[1] = "sys_bind"
     /\ Layers("bind4")[2] = "inet_bind"
  /\ /\ Len(Layers("bind6")) = 2
     /\ Layers("bind6")[1] = "sys_bind"
     /\ Layers("bind6")[2] = "inet6_bind"
  /\ /\ Len(Layers("bindll")) = 2
     /\ Layers("bindll")[1] = "sys_bind"
     /\ Layers("bindll")[2] = "inet6_bind"
  /\ /\ Len(Layers("name4")) = 2
     /\ Layers("name4")[1] = "sys_getsockname"
     /\ Layers("name4")[2] = "inet_getname"
  /\ /\ Len(Layers("name6")) = 2
     /\ Layers("name6")[1] = "sys_getsockname"
     /\ Layers("name6")[2] = "inet6_getname"
  /\ /\ Len(Layers("recv4")) = 1
     /\ Layers("recv4")[1] = "ip_cmsg_recv_offset"
  /\ /\ Len(Layers("recv6")) = 2
     /\ Layers("recv6")[1] = "ip6_datagram_recv_ctl"
     /\ Layers("recv6")[2] = "ip6_datagram_recv_common_ctl"
  /\ /\ Len(Layers("device")) = 3
     /\ Layers("device")[1] = "sys_getsockopt"
     /\ Layers("device")[2] = "sock_getsockopt"
     /\ Layers("device")[3] = "sk_getsockopt"
  /\ /\ Len(Layers("mtu")) = 2
     /\ Layers("mtu")[1] = "sys_getsockopt"
     /\ Layers("mtu")[2] = "sock_common_getsockopt"
  BY DEF Layers

\* The kinds of calls.
LEMMA KindsList ==
  Kinds = {"connect", "listen", "bind4", "bind6", "bindll", "name4", "name6", "recv4", "recv6",
           "device", "mtu"}
  BY DEF Kinds, Binds, Reports, Names, Receives, Options

\* A call passes each function once.
LEMMA LayersDiffer ==
  ASSUME NEW kind \in Kinds
  PROVE  /\ Len(Layers(kind)) \in 1..3
         /\ \A i \in 1..Len(Layers(kind)) : Layers(kind)[i] \in Functions
         /\ \A i, j \in 1..Len(Layers(kind)) : Layers(kind)[i] = Layers(kind)[j] => i = j
<1>1. CASE kind = "connect" BY <1>1, LayersTable, FunctionsList
<1>2. CASE kind = "listen" BY <1>2, LayersTable, FunctionsList
<1>3. CASE kind = "bind4" BY <1>3, LayersTable, FunctionsList
<1>4. CASE kind = "bind6" BY <1>4, LayersTable, FunctionsList
<1>5. CASE kind = "bindll" BY <1>5, LayersTable, FunctionsList
<1>6. CASE kind = "name4" BY <1>6, LayersTable, FunctionsList
<1>7. CASE kind = "name6" BY <1>7, LayersTable, FunctionsList
<1>8. CASE kind = "recv4" BY <1>8, LayersTable, FunctionsList
<1>9. CASE kind = "recv6" BY <1>9, LayersTable, FunctionsList
<1>10. CASE kind = "device" BY <1>10, LayersTable, FunctionsList
<1>11. CASE kind = "mtu" BY <1>11, LayersTable, FunctionsList
<1> QED BY <1>1, <1>2, <1>3, <1>4, <1>5, <1>6, <1>7, <1>8, <1>9, <1>10, <1>11, KindsList

\* Which probes are there once the module is loaded.
LEMMA LoadedProbes ==
  ASSUME Attachment, build = "module", phase = "loaded"
  PROVE  /\ \A f \in {"sys_getsockopt", "sk_getsockopt", "ip_cmsg_recv_offset",
                      "ip6_datagram_recv_common_ctl", "sys_connect", "sys_bind", "inet_listen",
                      "inet6_bind", "sys_getsockname"} : f \in registered <=> f \notin refused
         /\ "sock_getsockopt" \in registered <=>
              "sock_getsockopt" \notin refused /\ "sk_getsockopt" \in refused
         /\ "ip6_datagram_recv_ctl" \in registered <=>
              "ip6_datagram_recv_ctl" \notin refused /\ "ip6_datagram_recv_common_ctl" \in refused
         /\ "security_socket_connect" \in registered <=>
              "security_socket_connect" \notin refused /\ "sys_connect" \in refused
         /\ "inet_bind" \in registered <=> "inet_bind" \notin refused /\ "sys_bind" \in refused
         /\ "inet_getname" \in registered <=>
              "inet_getname" \notin refused /\ "sys_getsockname" \in refused
         /\ "inet6_getname" \in registered <=>
              "inet6_getname" \notin refused /\ "sys_getsockname" \in refused
<1>1. \A i \in 1..16 : Probes[i].f \in registered <=> Attached(Probes[i])
  BY ProbesLength DEF Attachment, Seen
<1>2. \A i \in 1..16 : Probes[i].f \in registered <=>
        Probes[i].f \notin refused
        /\ (Probes[i].primary \in {"none", Probes[i].f} \/ Probes[i].primary \in refused)
  BY <1>1 DEF Attached
<1> QED BY <1>2 DEF Probes
-----------------------------------------------------------------------------
(* What the handlers change of a call.                                     *)

\* No entry handler touches these.
SameCall(c, d) ==
  /\ d.kind = c.kind /\ d.short = c.short /\ d.elsewhere = c.elsewhere
  /\ d.under = c.under /\ d.covered = c.covered /\ d.whole = c.whole

EntryEffect(c, f, d) ==
  /\ d \in CallType /\ SameCall(c, d)
  /\ d.missed = c.missed /\ d.value = c.value /\ d.owned = c.owned /\ d.counted = c.counted
  /\ d.kept = c.kept \cup (IF f \in Always \/ Active THEN {f} ELSE {})
  /\ IF f = "sys_connect" /\ Active /\ wrapper.connect
     THEN d.way = "out" /\ d.at = c.at /\ d.ret = "EFAULT"
     ELSE d.way = "in" /\ d.at = c.at + 1 /\ d.ret = c.ret
  /\ d.deny = IF f = "inet6_bind" THEN c.kind = "bindll" /\ Active ELSE c.deny
  /\ d.misread = c.misread \cup
       (IF \/ f = "sys_connect" /\ Active /\ ~wrapper.connect
           \/ f = "sys_bind" /\ ~wrapper.bind
           \/ f = "sock_common_getsockopt" /\ Active
        THEN {f} ELSE {})

\* Keep, Misread and Turn leave a call.
LEMMA CallSteps ==
  ASSUME NEW c \in CallType, NEW f \in Functions
  PROVE  /\ Keep(c, f) \in CallType /\ Misread(c, f) \in CallType
         /\ Records(c) \in CallType /\ Counts(c) \in CallType
         /\ \A r \in {"ok", "failed", "EFAULT", "ECONNREFUSED", "ENODEV"} : Turn(c, r) \in CallType
         /\ \A v \in {"none", "plain", "vpn", "cover"} : Shows(c, v) \in CallType
<1>1. Keep(c, f) \in CallType BY DEF CallType, Keep
<1>2. Misread(c, f) \in CallType BY DEF CallType, Misread
<1>3. Records(c) \in CallType BY DEF CallType, Records
<1>4. Counts(c) \in CallType BY DEF CallType, Counts
<1>5. \A r \in {"ok", "failed", "EFAULT", "ECONNREFUSED", "ENODEV"} : Turn(c, r) \in CallType
  BY Zenon DEF CallType, Turn
<1>6. \A v \in {"none", "plain", "vpn", "cover"} : Shows(c, v) \in CallType
  BY <1>4 DEF CallType, Shows
<1> QED BY <1>1, <1>2, <1>3, <1>4, <1>5, <1>6

\* On to the next function.
LEMMA OnwardType ==
  ASSUME NEW c \in CallType
  PROVE  Onward(c) \in CallType
  BY DEF CallType, Onward

\* Every entry handler does no more than this.
LEMMA EntryEffects ==
  ASSUME NEW c \in CallType, NEW f \in Functions, c.way = "in",
         Active \in BOOLEAN, wrapper.connect \in BOOLEAN, wrapper.bind \in BOOLEAN
  PROVE  EntryEffect(c, f, Onward(AfterEntry(c, f)))
<1> DEFINE e == AfterEntry(c, f)
           d == Onward(e)
<1>1. CASE f = "sys_connect"
  <2>1. e = socket_connect_entry(c) BY <1>1, Zenon DEF AfterEntry
  <2>2. e \in CallType BY <2>1, <1>1, CallSteps DEF socket_connect_entry
  <2>3. d \in CallType BY <2>2, OnwardType
  <2> QED BY <2>1, <2>3, <1>1 DEF EntryEffect, SameCall, Always, Onward, CallType, socket_connect_entry, Keep, Misread, Turn
<1>2. CASE f = "security_socket_connect"
  <2>1. e = security_socket_connect_entry(c) BY <1>2, Zenon DEF AfterEntry
  <2>2. e \in CallType BY <2>1, <1>2, CallSteps DEF security_socket_connect_entry
  <2>3. d \in CallType BY <2>2, OnwardType
  <2> QED BY <2>1, <2>3, <1>2 DEF EntryEffect, SameCall, Always, Onward, CallType, security_socket_connect_entry, Keep
<1>3. CASE f = "sys_bind"
  <2>1. e = socket_bind_entry(c) BY <1>3, Zenon DEF AfterEntry
  <2>k. Keep(c, "sys_bind") \in CallType BY <1>3, CallSteps
  <2>m. Misread(Keep(c, "sys_bind"), "sys_bind") \in CallType BY <2>k, <1>3, CallSteps
  <2>2. e \in CallType BY <2>1, <2>k, <2>m DEF socket_bind_entry
  <2>3. d \in CallType BY <2>2, OnwardType
  <2> QED BY <2>1, <2>3, <1>3 DEF EntryEffect, SameCall, Always, Onward, CallType, socket_bind_entry, Keep, Misread
<1>4. CASE f = "inet_bind"
  <2>1. e = inet_bind_owner_entry(c) BY <1>4, Zenon DEF AfterEntry
  <2>2. e \in CallType BY <2>1, <1>4, CallSteps DEF inet_bind_owner_entry
  <2>3. d \in CallType BY <2>2, OnwardType
  <2> QED BY <2>1, <2>3, <1>4 DEF EntryEffect, SameCall, Always, Onward, CallType, inet_bind_owner_entry, Keep
<1>5. CASE f = "inet_listen"
  <2>1. e = inet_listen_owner_entry(c) BY <1>5, Zenon DEF AfterEntry
  <2>2. e \in CallType BY <2>1, <1>5, CallSteps DEF inet_listen_owner_entry
  <2>3. d \in CallType BY <2>2, OnwardType
  <2> QED BY <2>1, <2>3, <1>5 DEF EntryEffect, SameCall, Always, Onward, CallType, inet_listen_owner_entry, Keep
<1>6. CASE f = "inet6_bind"
  <2>1. e = inet6_bind_ll_entry(c) BY <1>6, Zenon DEF AfterEntry
  <2>k. Keep(c, "inet6_bind") \in CallType BY <1>6, CallSteps
  <2>b. (c.kind = "bindll" /\ Active) \in BOOLEAN OBVIOUS
  <2>m. \A b \in BOOLEAN : [Keep(c, "inet6_bind") EXCEPT !.deny = b] \in CallType
    BY <2>k DEF CallType
  <2>2. e \in CallType BY <2>1, <2>b, <2>m, Zenon DEF inet6_bind_ll_entry
  <2>3. d \in CallType BY <2>2, OnwardType
  <2> QED BY <2>1, <2>3, <1>6 DEF EntryEffect, SameCall, Always, Onward, CallType, inet6_bind_ll_entry, Keep
<1>7. CASE f = "sys_getsockname"
  <2>1. e = sys_getsockname_entry(c) BY <1>7, Zenon DEF AfterEntry
  <2>2. e \in CallType BY <2>1, <1>7, CallSteps DEF sys_getsockname_entry
  <2>3. d \in CallType BY <2>2, OnwardType
  <2> QED BY <2>1, <2>3, <1>7 DEF EntryEffect, SameCall, Always, Onward, CallType, sys_getsockname_entry, Keep
<1>8. CASE f = "inet_getname"
  <2>1. e = inet_getname_entry(c) BY <1>8, Zenon DEF AfterEntry
  <2>2. e \in CallType BY <2>1, <1>8, CallSteps DEF inet_getname_entry
  <2>3. d \in CallType BY <2>2, OnwardType
  <2> QED BY <2>1, <2>3, <1>8 DEF EntryEffect, SameCall, Always, Onward, CallType, inet_getname_entry, Keep
<1>9. CASE f = "inet6_getname"
  <2>1. e = inet6_getname_entry(c) BY <1>9, Zenon DEF AfterEntry
  <2>2. e \in CallType BY <2>1, <1>9, CallSteps, Zenon DEF inet6_getname_entry
  <2>3. d \in CallType BY <2>2, OnwardType
  <2> QED BY <2>1, <2>3, <1>9 DEF EntryEffect, SameCall, Always, Onward, CallType, inet6_getname_entry, Keep
<1>10. CASE f = "sys_getsockopt"
  <2>1. e = sys_getsockopt_entry(c) BY <1>10, Zenon DEF AfterEntry
  <2>2. e \in CallType BY <2>1, <1>10, CallSteps DEF sys_getsockopt_entry
  <2>3. d \in CallType BY <2>2, OnwardType
  <2> QED BY <2>1, <2>3, <1>10 DEF EntryEffect, SameCall, Always, Onward, CallType, sys_getsockopt_entry, Keep
<1>11. CASE f = "sock_getsockopt"
  <2>1. e = sock_getsockopt_entry(c) BY <1>11, Zenon DEF AfterEntry
  <2>2. e \in CallType BY <2>1, <1>11, CallSteps DEF sock_getsockopt_entry
  <2>3. d \in CallType BY <2>2, OnwardType
  <2> QED BY <2>1, <2>3, <1>11 DEF EntryEffect, SameCall, Always, Onward, CallType, sock_getsockopt_entry, Keep
<1>12. CASE f = "sk_getsockopt"
  <2>1. e = sk_getsockopt_entry(c, f) BY <1>12, Zenon DEF AfterEntry
  <2>2. e \in CallType BY <2>1, <1>12, CallSteps DEF sk_getsockopt_entry
  <2>3. d \in CallType BY <2>2, OnwardType
  <2> QED BY <2>1, <2>3, <1>12 DEF EntryEffect, SameCall, Always, Onward, CallType, sk_getsockopt_entry, Keep
<1>13. CASE f = "sock_common_getsockopt"
  <2>1. e = sk_getsockopt_entry(c, f) BY <1>13, Zenon DEF AfterEntry
  <2>2. e \in CallType BY <2>1, <1>13, CallSteps DEF sk_getsockopt_entry
  <2>3. d \in CallType BY <2>2, OnwardType
  <2> QED BY <2>1, <2>3, <1>13 DEF EntryEffect, SameCall, Always, Onward, CallType, sk_getsockopt_entry, Keep, Misread
<1>14. CASE f \in {"ip_cmsg_recv_offset", "ip6_datagram_recv_common_ctl", "ip6_datagram_recv_ctl"}
  <2>1. e = vh_pktinfo_recv_entry(c, f) BY <1>14 DEF AfterEntry
  <2>2. e \in CallType BY <2>1, <1>14, CallSteps DEF vh_pktinfo_recv_entry
  <2>3. d \in CallType BY <2>2, OnwardType
  <2> QED BY <2>1, <2>3, <1>14 DEF EntryEffect, SameCall, Always, Onward, CallType, vh_pktinfo_recv_entry, Keep
<1> QED BY FunctionsList, <1>1, <1>2, <1>3, <1>4, <1>5, <1>6, <1>7, <1>8, <1>9, <1>10, <1>11, <1>12, <1>13, <1>14

\* What a return handler may change: the result, the value and the history.
ReturnFrame(c, d) ==
  /\ d \in CallType /\ SameCall(c, d)
  /\ d.missed = c.missed /\ d.way = c.way /\ d.at = c.at /\ d.kept = c.kept
  /\ d.deny = c.deny /\ d.misread = c.misread

SameResult(c, d) ==
  d.ret = c.ret /\ d.value = c.value /\ d.owned = c.owned /\ d.counted = c.counted

Recorded(c, d) ==
  d.ret = c.ret /\ d.value = c.value /\ d.owned = c.owned + 1 /\ d.counted = c.counted

Refused(c, d, r) ==
  d.ret = r /\ d.value = c.value /\ d.owned = c.owned /\ d.counted = c.counted + 1

Shown(c, d, v) ==
  d.ret = c.ret /\ d.value = v /\ d.owned = c.owned /\ d.counted = c.counted + 1

ReturnEffect(c, f, d) ==
  /\ f = "sys_connect" =>
       Refused(c, d, IF wrapper.connect /\ c.ret # "EFAULT" THEN c.ret ELSE "ECONNREFUSED")
  /\ f = "security_socket_connect" => Refused(c, d, "ECONNREFUSED")
  /\ f = "sys_bind" =>
       \/ SameResult(c, d) /\ (c.ret # "ok" \/ "sys_bind" \in c.misread)
       \/ Recorded(c, d) /\ c.ret = "ok"
  /\ f \in {"inet_bind", "inet_listen"} =>
       IF c.ret = "ok" THEN Recorded(c, d) ELSE SameResult(c, d)
  /\ f = "inet6_bind" =>
       IF c.deny THEN Refused(c, d, "ENODEV")
       ELSE IF ~wrapper.bind /\ c.ret = "ok" THEN Recorded(c, d) ELSE SameResult(c, d)
  /\ c.kind \in Names =>
       IF c.ret # "ok" \/ c.value = "none" \/ (f = "sys_getsockname" /\ c.short)
       THEN SameResult(c, d) ELSE Shown(c, d, "cover")
  /\ c.kind \in Options =>
       IF c.ret # "ok" THEN SameResult(c, d)
       ELSE IF c.kind = "device"
       THEN Shown(c, d, IF c.value = "vpn" THEN "none" ELSE c.value)
       ELSE Shown(c, d, "cover") \/ (f \in c.misread /\ Shown(c, d, c.value))
  /\ c.kind \in Receives =>
       IF c.value = "vpn" /\ Active /\ cover THEN Shown(c, d, "cover") ELSE SameResult(c, d)

Refuses(c, r) == [Counts(c) EXCEPT !.ret = r]

\* The steps of a return handler, field by field.
LEMMA ReturnSteps ==
  ASSUME NEW c \in CallType
  PROVE  /\ ReturnFrame(c, c) /\ SameResult(c, c)
         /\ ReturnFrame(c, Records(c)) /\ Recorded(c, Records(c))
         /\ ReturnFrame(c, Counts(c)) /\ Shown(c, Counts(c), c.value)
         /\ \A v \in {"none", "plain", "vpn", "cover"} :
              ReturnFrame(c, Shows(c, v)) /\ Shown(c, Shows(c, v), v)
         /\ \A r \in {"ok", "failed", "EFAULT", "ECONNREFUSED", "ENODEV"} :
              ReturnFrame(c, Refuses(c, r)) /\ Refused(c, Refuses(c, r), r)
<1>1. ReturnFrame(c, c) /\ SameResult(c, c) BY DEF ReturnFrame, SameCall, SameResult
<1>2. ReturnFrame(c, Records(c)) /\ Recorded(c, Records(c))
  <2>1. Records(c) \in CallType BY DEF CallType, Records
  <2> QED BY <2>1 DEF ReturnFrame, SameCall, Recorded, Records, CallType
<1>3. ReturnFrame(c, Counts(c)) /\ Shown(c, Counts(c), c.value)
  <2>1. Counts(c) \in CallType BY DEF CallType, Counts
  <2> QED BY <2>1 DEF ReturnFrame, SameCall, Shown, Counts, CallType
<1>4. ASSUME NEW v \in {"none", "plain", "vpn", "cover"}
      PROVE  ReturnFrame(c, Shows(c, v)) /\ Shown(c, Shows(c, v), v)
  <2>1. Counts(c) \in CallType BY DEF CallType, Counts
  <2>2. Shows(c, v) \in CallType BY <2>1 DEF CallType, Shows
  <2> QED BY <2>2 DEF ReturnFrame, SameCall, Shown, Shows, Counts, CallType
<1>5. ASSUME NEW r \in {"ok", "failed", "EFAULT", "ECONNREFUSED", "ENODEV"}
      PROVE  ReturnFrame(c, Refuses(c, r)) /\ Refused(c, Refuses(c, r), r)
  <2>1. Counts(c) \in CallType BY DEF CallType, Counts
  <2>2. Refuses(c, r) \in CallType BY <2>1 DEF CallType, Refuses
  <2> QED BY <2>2 DEF ReturnFrame, SameCall, Refused, Refuses, Counts, CallType
<1> QED BY <1>1, <1>2, <1>3, <1>4, <1>5, Zenon

\* Which calls pass a function, and where.
LEMMA LayerOf ==
  ASSUME NEW kind \in Kinds, NEW i \in 1..Len(Layers(kind))
  PROVE  LET f == Layers(kind)[i] IN
         /\ kind = "connect" => (i = 1 /\ f = "sys_connect") \/ (i = 2 /\ f = "security_socket_connect")
         /\ kind = "listen" => (i = 1 /\ f = "inet_listen")
         /\ kind = "bind4" => (i = 1 /\ f = "sys_bind") \/ (i = 2 /\ f = "inet_bind")
         /\ kind = "bind6" => (i = 1 /\ f = "sys_bind") \/ (i = 2 /\ f = "inet6_bind")
         /\ kind = "bindll" => (i = 1 /\ f = "sys_bind") \/ (i = 2 /\ f = "inet6_bind")
         /\ kind = "name4" => (i = 1 /\ f = "sys_getsockname") \/ (i = 2 /\ f = "inet_getname")
         /\ kind = "name6" => (i = 1 /\ f = "sys_getsockname") \/ (i = 2 /\ f = "inet6_getname")
         /\ kind = "recv4" => (i = 1 /\ f = "ip_cmsg_recv_offset")
         /\ kind = "recv6" => (i = 1 /\ f = "ip6_datagram_recv_ctl") \/ (i = 2 /\ f = "ip6_datagram_recv_common_ctl")
         /\ kind = "device" => (i = 1 /\ f = "sys_getsockopt") \/ (i = 2 /\ f = "sock_getsockopt") \/ (i = 3 /\ f = "sk_getsockopt")
         /\ kind = "mtu" => (i = 1 /\ f = "sys_getsockopt") \/ (i = 2 /\ f = "sock_common_getsockopt")
<1>1. ASSUME kind = "connect"
      PROVE  (i = 1 /\ Layers(kind)[i] = "sys_connect") \/ (i = 2 /\ Layers(kind)[i] = "security_socket_connect")
  <2>0. Len(Layers(kind)) = 2 BY <1>1, LayersTable
  <2>1. i \in {1, 2} BY <2>0
  <2> QED BY <2>1, <1>1, LayersTable
<1>2. ASSUME kind = "listen"
      PROVE  (i = 1 /\ Layers(kind)[i] = "inet_listen")
  <2>0. Len(Layers(kind)) = 1 BY <1>2, LayersTable
  <2>1. i \in {1} BY <2>0
  <2> QED BY <2>1, <1>2, LayersTable
<1>3. ASSUME kind = "bind4"
      PROVE  (i = 1 /\ Layers(kind)[i] = "sys_bind") \/ (i = 2 /\ Layers(kind)[i] = "inet_bind")
  <2>0. Len(Layers(kind)) = 2 BY <1>3, LayersTable
  <2>1. i \in {1, 2} BY <2>0
  <2> QED BY <2>1, <1>3, LayersTable
<1>4. ASSUME kind = "bind6"
      PROVE  (i = 1 /\ Layers(kind)[i] = "sys_bind") \/ (i = 2 /\ Layers(kind)[i] = "inet6_bind")
  <2>0. Len(Layers(kind)) = 2 BY <1>4, LayersTable
  <2>1. i \in {1, 2} BY <2>0
  <2> QED BY <2>1, <1>4, LayersTable
<1>5. ASSUME kind = "bindll"
      PROVE  (i = 1 /\ Layers(kind)[i] = "sys_bind") \/ (i = 2 /\ Layers(kind)[i] = "inet6_bind")
  <2>0. Len(Layers(kind)) = 2 BY <1>5, LayersTable
  <2>1. i \in {1, 2} BY <2>0
  <2> QED BY <2>1, <1>5, LayersTable
<1>6. ASSUME kind = "name4"
      PROVE  (i = 1 /\ Layers(kind)[i] = "sys_getsockname") \/ (i = 2 /\ Layers(kind)[i] = "inet_getname")
  <2>0. Len(Layers(kind)) = 2 BY <1>6, LayersTable
  <2>1. i \in {1, 2} BY <2>0
  <2> QED BY <2>1, <1>6, LayersTable
<1>7. ASSUME kind = "name6"
      PROVE  (i = 1 /\ Layers(kind)[i] = "sys_getsockname") \/ (i = 2 /\ Layers(kind)[i] = "inet6_getname")
  <2>0. Len(Layers(kind)) = 2 BY <1>7, LayersTable
  <2>1. i \in {1, 2} BY <2>0
  <2> QED BY <2>1, <1>7, LayersTable
<1>8. ASSUME kind = "recv4"
      PROVE  (i = 1 /\ Layers(kind)[i] = "ip_cmsg_recv_offset")
  <2>0. Len(Layers(kind)) = 1 BY <1>8, LayersTable
  <2>1. i \in {1} BY <2>0
  <2> QED BY <2>1, <1>8, LayersTable
<1>9. ASSUME kind = "recv6"
      PROVE  (i = 1 /\ Layers(kind)[i] = "ip6_datagram_recv_ctl") \/ (i = 2 /\ Layers(kind)[i] = "ip6_datagram_recv_common_ctl")
  <2>0. Len(Layers(kind)) = 2 BY <1>9, LayersTable
  <2>1. i \in {1, 2} BY <2>0
  <2> QED BY <2>1, <1>9, LayersTable
<1>10. ASSUME kind = "device"
      PROVE  (i = 1 /\ Layers(kind)[i] = "sys_getsockopt") \/ (i = 2 /\ Layers(kind)[i] = "sock_getsockopt") \/ (i = 3 /\ Layers(kind)[i] = "sk_getsockopt")
  <2>0. Len(Layers(kind)) = 3 BY <1>10, LayersTable
  <2>1. i \in {1, 2, 3} BY <2>0
  <2> QED BY <2>1, <1>10, LayersTable
<1>11. ASSUME kind = "mtu"
      PROVE  (i = 1 /\ Layers(kind)[i] = "sys_getsockopt") \/ (i = 2 /\ Layers(kind)[i] = "sock_common_getsockopt")
  <2>0. Len(Layers(kind)) = 2 BY <1>11, LayersTable
  <2>1. i \in {1, 2} BY <2>0
  <2> QED BY <2>1, <1>11, LayersTable
<1> QED BY <1>1, <1>2, <1>3, <1>4, <1>5, <1>6, <1>7, <1>8, <1>9, <1>10, <1>11

\* Only a connection passes sys_connect.
LEMMA SysConnectOf ==
  ASSUME NEW kind \in Kinds, NEW i \in 1..Len(Layers(kind)), Layers(kind)[i] = "sys_connect"
  PROVE  kind = "connect" /\ i = 1
<1> DEFINE f == Layers(kind)[i]
<1>1. kind = "listen" => f = "inet_listen" BY LayerOf
<1>2. kind = "bind4" => f \in {"sys_bind", "inet_bind"} BY LayerOf
<1>3. kind \in {"bind6", "bindll"} => f \in {"sys_bind", "inet6_bind"} BY LayerOf
<1>4. kind \in {"name4", "name6"} => f \in {"sys_getsockname", "inet_getname", "inet6_getname"}
  BY LayerOf
<1>5. kind = "recv4" => f = "ip_cmsg_recv_offset" BY LayerOf
<1>6. kind = "recv6" => f \in {"ip6_datagram_recv_ctl", "ip6_datagram_recv_common_ctl"} BY LayerOf
<1>7. kind \in {"device", "mtu"} =>
        f \in {"sys_getsockopt", "sock_getsockopt", "sk_getsockopt", "sock_common_getsockopt"}
  BY LayerOf
<1>8. kind = "connect" => i = 1 BY LayerOf
<1> QED BY <1>1, <1>2, <1>3, <1>4, <1>5, <1>6, <1>7, <1>8, KindsList

\* sys_bind is the first function of a bind.
LEMMA SysBindOf ==
  ASSUME NEW kind \in Kinds, NEW i \in 1..Len(Layers(kind)), Layers(kind)[i] = "sys_bind"
  PROVE  kind \in Binds /\ i = 1
<1> DEFINE f == Layers(kind)[i]
<1>1. kind = "listen" => f = "inet_listen" BY LayerOf
<1>2. kind = "connect" => f \in {"sys_connect", "security_socket_connect"} BY LayerOf
<1>4. kind \in {"name4", "name6"} => f \in {"sys_getsockname", "inet_getname", "inet6_getname"}
  BY LayerOf
<1>5. kind = "recv4" => f = "ip_cmsg_recv_offset" BY LayerOf
<1>6. kind = "recv6" => f \in {"ip6_datagram_recv_ctl", "ip6_datagram_recv_common_ctl"} BY LayerOf
<1>7. kind \in {"device", "mtu"} =>
        f \in {"sys_getsockopt", "sock_getsockopt", "sk_getsockopt", "sock_common_getsockopt"}
  BY LayerOf
<1>8. kind \in {"bind4", "bind6", "bindll"} => i = 1 BY LayerOf
<1> QED BY <1>1, <1>2, <1>4, <1>5, <1>6, <1>7, <1>8, KindsList DEF Binds

\* Every return handler does just this.
LEMMA ReturnEffects ==
  ASSUME NEW c \in CallType, c.kind \in Kinds, c.at \in 1..Len(Layers(c.kind)),
         NEW d \in AfterReturn(c, Layers(c.kind)[c.at])
  PROVE  ReturnFrame(c, d) /\ ReturnEffect(c, Layers(c.kind)[c.at], d)
<1> DEFINE f == Layers(c.kind)[c.at]
<1>1. CASE c.kind = "connect" /\ f = "sys_connect"
  <2>1. AfterReturn(c, f) = {socket_connect_ret(c)} BY <1>1 DEF AfterReturn, Options, Receives
  <2> HIDE DEF f
  <2>2. d \in {socket_connect_ret(c)} BY <2>1 DEF f
  <2> DEFINE r == IF wrapper.connect /\ c.ret # "EFAULT" THEN c.ret ELSE "ECONNREFUSED"
  <2>r. r \in {"ok", "failed", "EFAULT", "ECONNREFUSED", "ENODEV"} BY DEF CallType
  <2>c. Counts(c).ret = c.ret BY DEF CallType, Counts
  <2>3. d = Refuses(c, r)
    BY <2>2, <2>c, Zenon DEF socket_connect_ret, Refuses
  <2>4. ReturnFrame(c, d) /\ (Refused(c, d, r))
    BY <2>3, <2>r, ReturnSteps, Zenon
  <2>5. ReturnEffect(c, f, d) BY <1>1, <2>4 DEF ReturnEffect, Names, Options, Receives
  <2> QED BY <2>4, <2>5 DEF f
<1>2. CASE c.kind = "connect" /\ f = "security_socket_connect"
  <2>1. AfterReturn(c, f) = {security_socket_connect_ret(c)} BY <1>2 DEF AfterReturn, Options, Receives
  <2> HIDE DEF f
  <2>2. d \in {security_socket_connect_ret(c)} BY <2>1 DEF f
  <2>3. d = Refuses(c, "ECONNREFUSED")
    BY <2>2, Zenon DEF security_socket_connect_ret, Refuses
  <2>4. ReturnFrame(c, d) /\ (Refused(c, d, "ECONNREFUSED"))
    BY <2>3, ReturnSteps, Zenon
  <2>5. ReturnEffect(c, f, d) BY <1>2, <2>4 DEF ReturnEffect, Names, Options, Receives
  <2> QED BY <2>4, <2>5 DEF f
<1>3. CASE c.kind \in {"bind4", "bind6", "bindll"} /\ f = "sys_bind"
  <2>1. AfterReturn(c, f) = socket_bind_ret(c) BY <1>3 DEF AfterReturn, Options, Receives
  <2> HIDE DEF f
  <2>2. d \in socket_bind_ret(c) BY <2>1 DEF f
  <2>3. \/ d = c /\ (c.ret # "ok" \/ "sys_bind" \in c.misread)
        \/ d = Records(c) /\ c.ret = "ok"
    BY <2>2, Zenon DEF socket_bind_ret
  <2>4. ReturnFrame(c, d) /\ (\/ SameResult(c, d) /\ (c.ret # "ok" \/ "sys_bind" \in c.misread)
                              \/ Recorded(c, d) /\ c.ret = "ok")
    BY <2>3, ReturnSteps, Zenon
  <2>5. ReturnEffect(c, f, d) BY <1>3, <2>4 DEF ReturnEffect, Names, Options, Receives
  <2> QED BY <2>4, <2>5 DEF f
<1>4. CASE c.kind = "bind4" /\ f = "inet_bind"
  <2>1. AfterReturn(c, f) = {inet_bind_owner_ret(c)} BY <1>4 DEF AfterReturn, Options, Receives
  <2> HIDE DEF f
  <2>2. d \in {inet_bind_owner_ret(c)} BY <2>1 DEF f
  <2>3. \/ d = Records(c) /\ c.ret = "ok"
        \/ d = c /\ c.ret # "ok"
    BY <2>2, Zenon DEF inet_bind_owner_ret
  <2>4. ReturnFrame(c, d) /\ (\/ Recorded(c, d) /\ c.ret = "ok"
                              \/ SameResult(c, d) /\ c.ret # "ok")
    BY <2>3, ReturnSteps, Zenon
  <2>5. ReturnEffect(c, f, d) BY <1>4, <2>4 DEF ReturnEffect, Names, Options, Receives
  <2> QED BY <2>4, <2>5 DEF f
<1>5. CASE c.kind = "listen" /\ f = "inet_listen"
  <2>1. AfterReturn(c, f) = {inet_listen_owner_ret(c)} BY <1>5 DEF AfterReturn, Options, Receives
  <2> HIDE DEF f
  <2>2. d \in {inet_listen_owner_ret(c)} BY <2>1 DEF f
  <2>3. \/ d = Records(c) /\ c.ret = "ok"
        \/ d = c /\ c.ret # "ok"
    BY <2>2, Zenon DEF inet_listen_owner_ret
  <2>4. ReturnFrame(c, d) /\ (\/ Recorded(c, d) /\ c.ret = "ok"
                              \/ SameResult(c, d) /\ c.ret # "ok")
    BY <2>3, ReturnSteps, Zenon
  <2>5. ReturnEffect(c, f, d) BY <1>5, <2>4 DEF ReturnEffect, Names, Options, Receives
  <2> QED BY <2>4, <2>5 DEF f
<1>6. CASE c.kind \in {"bind6", "bindll"} /\ f = "inet6_bind"
  <2>1. AfterReturn(c, f) = {inet6_bind_ll_ret(c)} BY <1>6 DEF AfterReturn, Options, Receives
  <2> HIDE DEF f
  <2>2. d \in {inet6_bind_ll_ret(c)} BY <2>1 DEF f
  <2>3. \/ d = Refuses(c, "ENODEV") /\ c.deny
        \/ d = Records(c) /\ ~c.deny /\ ~wrapper.bind /\ c.ret = "ok"
        \/ d = c /\ ~c.deny /\ ~(~wrapper.bind /\ c.ret = "ok")
    BY <2>2, Zenon DEF inet6_bind_ll_ret, Refuses
  <2>4. ReturnFrame(c, d) /\ (\/ Refused(c, d, "ENODEV") /\ c.deny
                              \/ Recorded(c, d) /\ ~c.deny /\ ~wrapper.bind /\ c.ret = "ok"
                              \/ SameResult(c, d) /\ ~c.deny /\ ~(~wrapper.bind /\ c.ret = "ok"))
    BY <2>3, ReturnSteps, Zenon
  <2>5. ReturnEffect(c, f, d) BY <1>6, <2>4 DEF ReturnEffect, Names, Options, Receives
  <2> QED BY <2>4, <2>5 DEF f
<1>7. CASE c.kind \in {"name4", "name6"} /\ f = "sys_getsockname"
  <2>1. AfterReturn(c, f) = {sys_getsockname_ret(c)} BY <1>7 DEF AfterReturn, Options, Receives
  <2> HIDE DEF f
  <2>2. d \in {sys_getsockname_ret(c)} BY <2>1 DEF f
  <2>3. \/ d = c /\ (c.ret # "ok" \/ c.value = "none" \/ c.short)
        \/ d = Shows(c, "cover") /\ ~(c.ret # "ok" \/ c.value = "none" \/ c.short)
    BY <2>2, Zenon DEF sys_getsockname_ret
  <2>4. ReturnFrame(c, d) /\ (\/ SameResult(c, d) /\ (c.ret # "ok" \/ c.value = "none" \/ c.short)
                              \/ Shown(c, d, "cover") /\ ~(c.ret # "ok" \/ c.value = "none" \/ c.short))
    BY <2>3, ReturnSteps, Zenon
  <2>5. ReturnEffect(c, f, d) BY <1>7, <2>4 DEF ReturnEffect, Names, Options, Receives
  <2> QED BY <2>4, <2>5 DEF f
<1>8. CASE c.kind = "name4" /\ f = "inet_getname"
  <2>1. AfterReturn(c, f) = {inet_getname_ret(c)} BY <1>8 DEF AfterReturn, Options, Receives
  <2> HIDE DEF f
  <2>2. d \in {inet_getname_ret(c)} BY <2>1 DEF f
  <2>3. \/ d = c /\ (c.ret # "ok" \/ c.value = "none")
        \/ d = Shows(c, "cover") /\ ~(c.ret # "ok" \/ c.value = "none")
    BY <2>2, Zenon DEF inet_getname_ret
  <2>4. ReturnFrame(c, d) /\ (\/ SameResult(c, d) /\ (c.ret # "ok" \/ c.value = "none")
                              \/ Shown(c, d, "cover") /\ ~(c.ret # "ok" \/ c.value = "none"))
    BY <2>3, ReturnSteps, Zenon
  <2>5. ReturnEffect(c, f, d) BY <1>8, <2>4 DEF ReturnEffect, Names, Options, Receives
  <2> QED BY <2>4, <2>5 DEF f
<1>9. CASE c.kind = "name6" /\ f = "inet6_getname"
  <2>1. AfterReturn(c, f) = {inet6_getname_ret(c)} BY <1>9 DEF AfterReturn, Options, Receives
  <2> HIDE DEF f
  <2>2. d \in {inet6_getname_ret(c)} BY <2>1 DEF f
  <2>3. \/ d = c /\ (c.ret # "ok" \/ c.value = "none")
        \/ d = Shows(c, "cover") /\ ~(c.ret # "ok" \/ c.value = "none")
    BY <2>2, Zenon DEF inet6_getname_ret
  <2>4. ReturnFrame(c, d) /\ (\/ SameResult(c, d) /\ (c.ret # "ok" \/ c.value = "none")
                              \/ Shown(c, d, "cover") /\ ~(c.ret # "ok" \/ c.value = "none"))
    BY <2>3, ReturnSteps, Zenon
  <2>5. ReturnEffect(c, f, d) BY <1>9, <2>4 DEF ReturnEffect, Names, Options, Receives
  <2> QED BY <2>4, <2>5 DEF f
<1>10. CASE c.kind \in {"device", "mtu"} /\ f \in {"sys_getsockopt", "sock_getsockopt", "sk_getsockopt", "sock_common_getsockopt"}
  <2>1. AfterReturn(c, f) = sock_getsockopt_ret(c, f) BY <1>10 DEF AfterReturn, Options, Receives
  <2> HIDE DEF f
  <2>2. d \in sock_getsockopt_ret(c, f) BY <2>1 DEF f
  <2> DEFINE v == IF c.value = "vpn" THEN "none" ELSE c.value
  <2>v. v \in {"none", "plain", "vpn", "cover"} BY DEF CallType
  <2>3. \/ d = c /\ c.ret # "ok"
        \/ d = Shows(c, v) /\ c.ret = "ok" /\ c.kind = "device"
        \/ d = Shows(c, "cover") /\ c.ret = "ok" /\ c.kind # "device"
        \/ d = Counts(c) /\ c.ret = "ok" /\ c.kind # "device" /\ f \in c.misread
    BY <2>2, Zenon DEF sock_getsockopt_ret
  <2>4. ReturnFrame(c, d) /\ (\/ SameResult(c, d) /\ c.ret # "ok"
                              \/ Shown(c, d, v) /\ c.ret = "ok" /\ c.kind = "device"
                              \/ Shown(c, d, "cover") /\ c.ret = "ok" /\ c.kind # "device"
                              \/ Shown(c, d, c.value) /\ c.ret = "ok" /\ c.kind # "device" /\ f \in c.misread)
    BY <2>3, <2>v, ReturnSteps, Zenon
  <2>5. ReturnEffect(c, f, d) BY <1>10, <2>4 DEF ReturnEffect, Names, Options, Receives
  <2> QED BY <2>4, <2>5 DEF f
<1>11. CASE c.kind \in {"recv4", "recv6"} /\ f \in {"ip_cmsg_recv_offset", "ip6_datagram_recv_ctl", "ip6_datagram_recv_common_ctl"}
  <2>1. AfterReturn(c, f) = {vh_pktinfo_recv_ret(c)} BY <1>11 DEF AfterReturn, Options, Receives
  <2> HIDE DEF f
  <2>2. d \in {vh_pktinfo_recv_ret(c)} BY <2>1 DEF f
  <2>3. \/ d = Shows(c, "cover") /\ (c.value = "vpn" /\ Active /\ cover)
        \/ d = c /\ ~(c.value = "vpn" /\ Active /\ cover)
    BY <2>2, Zenon DEF vh_pktinfo_recv_ret
  <2>4. ReturnFrame(c, d) /\ (\/ Shown(c, d, "cover") /\ (c.value = "vpn" /\ Active /\ cover)
                              \/ SameResult(c, d) /\ ~(c.value = "vpn" /\ Active /\ cover))
    BY <2>3, ReturnSteps, Zenon
  <2>5. ReturnEffect(c, f, d) BY <1>11, <2>4 DEF ReturnEffect, Names, Options, Receives
  <2> QED BY <2>4, <2>5 DEF f
<1> QED BY LayerOf, KindsList, <1>1, <1>2, <1>3, <1>4, <1>5, <1>6, <1>7, <1>8, <1>9, <1>10, <1>11

\* The call has gone one function further in, without a handler.
Moved(c, d) ==
  /\ d \in CallType /\ SameCall(c, d)
  /\ d.way = "in" /\ d.at = c.at + 1
  /\ d.ret = c.ret /\ d.value = c.value /\ d.owned = c.owned /\ d.counted = c.counted
  /\ d.kept = c.kept /\ d.misread = c.misread /\ d.deny = c.deny

\* The outcomes of entering a function: it has no probe, all instances of its
\* probe are taken, or the handler runs.
EnterEffect(c, f, d) ==
  \/ Moved(c, d) /\ d.missed = c.missed /\ f \notin registered
  \/ Moved(c, d) /\ d.missed
  \/ EntryEffect(c, f, d) /\ f \in registered

KernelEffect(c, d) ==
  /\ d \in CallType /\ SameCall(c, d)
  /\ d.missed = c.missed /\ d.kept = c.kept /\ d.misread = c.misread /\ d.deny = c.deny
  /\ d.way = "out" /\ d.at = c.at - 1 /\ d.owned = c.owned /\ d.counted = c.counted
  /\ \/ d.ret = "ok" /\ d.value \in Found(c)
     \/ d.ret = "failed" /\ d.value = c.value

LeaveEffect(c, f, d) ==
  /\ d \in CallType /\ SameCall(c, d)
  /\ d.missed = c.missed /\ d.misread = c.misread /\ d.deny = c.deny
  /\ d.way = "out" /\ d.at = c.at - 1 /\ d.kept = c.kept \ {f}
  /\ IF f \in c.kept THEN ReturnEffect(c, f, d) ELSE SameResult(c, d)

FinishEffect(c, d) ==
  /\ d \in CallType /\ SameCall(c, d) /\ SameResult(c, d)
  /\ d.missed = c.missed /\ d.misread = c.misread /\ d.deny = c.deny
  /\ d.way = "done" /\ d.at = c.at /\ d.kept = c.kept

PatchedIn(c, d) ==
  /\ d \in CallType /\ SameCall(c, d)
  /\ d.missed = c.missed /\ d.kept = c.kept /\ d.misread = c.misread /\ d.deny = c.deny
  /\ d.value = c.value /\ d.owned = c.owned
  /\ IF Active /\ c.kind \in {"connect", "bindll"}
     THEN /\ d.way = "out" /\ d.at = 1 /\ d.counted = c.counted + 1
          /\ d.ret = IF c.kind = "connect" THEN "ECONNREFUSED" ELSE "ENODEV"
     ELSE d.way = "in" /\ d.at = 2 /\ d.counted = c.counted /\ d.ret = c.ret

PatchedOut(c, d) ==
  /\ d \in CallType /\ SameCall(c, d)
  /\ d.missed = c.missed /\ d.kept = c.kept /\ d.misread = c.misread /\ d.deny = c.deny
  /\ d.way = "out" /\ d.at = 0
  /\ c.kind \in Binds \cup {"listen"} =>
       IF c.ret = "ok" THEN Recorded(c, d) ELSE SameResult(c, d)
  /\ c.kind \in Names =>
       IF c.ret = "ok" /\ Active /\ ~c.elsewhere /\ c.value # "none"
       THEN Shown(c, d, "none") \/ Shown(c, d, "cover") ELSE SameResult(c, d)
  /\ c.kind \in Receives =>
       IF c.ret = "ok" /\ c.value = "vpn" /\ Active /\ cover
       THEN Shown(c, d, "cover") ELSE SameResult(c, d)
  /\ c.kind \in Options =>
       IF Active THEN Shown(c, d, "none") \/ Shown(c, d, "cover") ELSE SameResult(c, d)
  /\ c.kind = "connect" => SameResult(c, d)

StartEffect(kind, d) ==
  /\ d \in CallType /\ d.kind = kind /\ d.at = 1 /\ d.way = "in"
  /\ d.ret = "ok" /\ d.value = "none" /\ d.kept = {} /\ ~d.deny /\ d.misread = {}
  /\ d.owned = 0 /\ d.counted = 0 /\ d.under = {policy} /\ d.covered = {cover}
  /\ d.whole = (phase = "loaded") /\ ~d.missed
  /\ d.elsewhere => kind \in Names
-----------------------------------------------------------------------------
(* The actions do what the effects above say.                              *)

\* A call that passes a function without a handler.
LEMMA MovedOn ==
  ASSUME NEW c \in CallType, c.way = "in"
  PROVE  /\ Moved(c, Onward(c)) /\ Onward(c).missed = c.missed
         /\ Moved(c, [Onward(c) EXCEPT !.missed = TRUE]) /\ [Onward(c) EXCEPT !.missed = TRUE].missed
<1>1. Onward(c) \in CallType BY OnwardType
<1>2. Moved(c, Onward(c)) /\ Onward(c).missed = c.missed
  BY <1>1 DEF Moved, SameCall, Onward, CallType
<1> DEFINE d == [Onward(c) EXCEPT !.missed = TRUE]
<1>3. d \in CallType BY <1>1, Zenon DEF CallType
<1>4. Moved(c, d) /\ d.missed
  BY <1>3 DEF Moved, SameCall, Onward, CallType
<1> QED BY <1>2, <1>4

\* The kernel's work.
LEMMA KernelEffects ==
  ASSUME NEW c \in CallType, c.at > 0
  PROVE  /\ \A v \in Found(c) : KernelEffect(c, [Turn(c, "ok") EXCEPT !.at = @ - 1, !.value = v])
         /\ KernelEffect(c, [Turn(c, "failed") EXCEPT !.at = @ - 1])
<1>1. ASSUME NEW v \in Found(c)
      PROVE  KernelEffect(c, [Turn(c, "ok") EXCEPT !.at = @ - 1, !.value = v])
  <2>1. v \in {"none", "plain", "vpn", "cover"} BY DEF Found, Names, Receives
  <2> DEFINE d == [Turn(c, "ok") EXCEPT !.at = @ - 1, !.value = v]
  <2>2. Turn(c, "ok") \in CallType /\ Turn(c, "ok").at = c.at BY Zenon DEF Turn, CallType
  <2>4. c.at - 1 \in Nat BY DEF CallType
  <2>5. \A e \in CallType, n \in Nat : [e EXCEPT !.at = n, !.value = v] \in CallType
    BY <2>1, Zenon DEF CallType
  <2>3. d \in CallType BY <2>2, <2>4, <2>5, Zenon
  <2> QED BY <2>3 DEF KernelEffect, SameCall, Turn, CallType
<1>2. KernelEffect(c, [Turn(c, "failed") EXCEPT !.at = @ - 1])
  <2> DEFINE d == [Turn(c, "failed") EXCEPT !.at = @ - 1]
  <2>2. Turn(c, "failed") \in CallType /\ Turn(c, "failed").at = c.at BY Zenon DEF Turn, CallType
  <2>3. d \in CallType BY <2>2 DEF CallType
  <2> QED BY <2>3 DEF KernelEffect, SameCall, Turn, CallType
<1> QED BY <1>1, <1>2, Zenon

\* Leaving a function.
LEMMA LeaveEffects ==
  ASSUME NEW c \in CallType, c.kind \in Kinds, c.at \in 1..Len(Layers(c.kind)), c.way = "out",
         NEW f, f = Layers(c.kind)[c.at],
         NEW d \in (IF f \in c.kept THEN AfterReturn(c, f) ELSE {c})
  PROVE  LeaveEffect(c, f, [d EXCEPT !.at = @ - 1, !.kept = @ \ {f}])
<1> DEFINE e == [d EXCEPT !.at = @ - 1, !.kept = @ \ {f}]
<1>1. ReturnFrame(c, d) /\ IF f \in c.kept THEN ReturnEffect(c, f, d) ELSE SameResult(c, d)
  BY ReturnEffects, ReturnSteps
<1>2. d \in CallType /\ d.at > 0 BY <1>1, LayersDiffer DEF ReturnFrame
<1>3. e \in CallType
  <2>1. d.at - 1 \in Nat /\ d.kept \ {f} \in SUBSET Functions BY <1>2 DEF CallType
  <2>2. \A n \in Nat, K \in SUBSET Functions : [d EXCEPT !.at = n, !.kept = K] \in CallType
    BY <1>2, Zenon DEF CallType
  <2> QED BY <2>1, <2>2, Zenon
<1>4. e.at = d.at - 1 /\ e.kept = d.kept \ {f} BY <1>2 DEF CallType
<1>5. /\ SameCall(d, e) /\ SameResult(d, e)
      /\ e.missed = d.missed /\ e.misread = d.misread /\ e.deny = d.deny /\ e.way = d.way
  BY <1>2 DEF CallType, SameCall, SameResult
<1> HIDE DEF e
<1>6. IF f \in c.kept THEN ReturnEffect(c, f, e) ELSE SameResult(c, e)
  <2>1. e.ret = d.ret /\ e.value = d.value /\ e.owned = d.owned /\ e.counted = d.counted
    BY <1>5 DEF SameResult
  <2>2. SameResult(c, d) => SameResult(c, e) BY <2>1 DEF SameResult
  <2>3. Recorded(c, d) => Recorded(c, e) BY <2>1 DEF Recorded
  <2>4. \A r : Refused(c, d, r) => Refused(c, e, r) BY <2>1 DEF Refused
  <2>5. ASSUME NEW v, Shown(c, d, v) PROVE Shown(c, e, v) BY <2>1, <2>5 DEF Shown
  <2> QED BY <1>1, <2>2, <2>3, <2>4, <2>5 DEF ReturnEffect
<1> QED BY <1>1, <1>3, <1>4, <1>5, <1>6 DEF LeaveEffect, ReturnFrame, SameCall, e

\* The end of a call.
LEMMA FinishEffects ==
  ASSUME NEW c \in CallType
  PROVE  FinishEffect(c, [c EXCEPT !.way = "done"])
<1> DEFINE d == [c EXCEPT !.way = "done"]
<1>1. d \in CallType BY DEF CallType
<1> QED BY <1>1 DEF FinishEffect, SameCall, SameResult, CallType

\* The start of one.
LEMMA StartEffects ==
  ASSUME NEW kind \in Kinds, NEW short \in BOOLEAN, NEW elsewhere \in BOOLEAN,
         elsewhere => kind \in Names, ModuleInv
  PROVE  StartEffect(kind, [NoCall EXCEPT !.kind = kind, !.at = 1, !.way = "in",
                  !.short = short, !.elsewhere = elsewhere, !.under = {policy},
                  !.covered = {cover}, !.whole = (phase = "loaded")])
<1> DEFINE w == phase = "loaded"
           p == {policy}
           v == {cover}
           d == [NoCall EXCEPT !.kind = kind, !.at = 1, !.way = "in",
                  !.short = short, !.elsewhere = elsewhere, !.under = p,
                  !.covered = v, !.whole = w]
<1>1. w \in BOOLEAN /\ p \in SUBSET {"none", "open", "block"} /\ v \in SUBSET BOOLEAN
  BY DEF ModuleInv
<1>2. NoCall \in CallType BY DEF NoCall, CallType
<1> HIDE DEF w, p, v
<1>3. d \in CallType BY <1>1, <1>2, Zenon DEF CallType
<1>5. /\ d.kind = kind /\ d.at = 1 /\ d.way = "in" /\ d.elsewhere = elsewhere
      /\ d.under = p /\ d.covered = v /\ d.whole = w
  BY <1>2 DEF CallType
<1>6. /\ d.ret = "ok" /\ d.value = "none" /\ d.kept = {} /\ ~d.deny /\ d.misread = {}
      /\ d.owned = 0 /\ d.counted = 0 /\ ~d.missed
  BY DEF NoCall
<1> HIDE DEF d
<1>4. StartEffect(kind, d) BY <1>3, <1>5, <1>6 DEF StartEffect, w, p, v
<1> QED BY <1>4 DEF d, w, p, v

\* The hook before the kernel's work.
LEMMA PatchedInEffects ==
  ASSUME NEW c \in CallType, c.way = "in", c.at = 1, c.kind \in Kinds
  PROVE  PatchedIn(c, Onward(Before(c)))
<1>1. CASE Active /\ c.kind \in {"connect", "bindll"}
  <2> DEFINE r == IF c.kind = "connect" THEN "ECONNREFUSED" ELSE "ENODEV"
             e == Turn(c, r)
             d == Counts(e)
  <2>1. r \in {"ok", "failed", "EFAULT", "ECONNREFUSED", "ENODEV"} OBVIOUS
  <2>2. Before(c) = d
    BY <1>1 DEF Before, connect_pre, vpnhide_inet6_bind_ll
  <2> HIDE DEF r
  <2>3. e \in CallType BY <2>1, Zenon DEF Turn, CallType
  <2>4. /\ SameCall(c, e) /\ e.way = "out" /\ e.at = 1 /\ e.ret = r /\ e.value = c.value
        /\ e.owned = c.owned /\ e.counted = c.counted /\ e.missed = c.missed
        /\ e.kept = c.kept /\ e.misread = c.misread /\ e.deny = c.deny
    BY DEF Turn, CallType, SameCall
  <2> HIDE DEF e
  <2>5. ReturnFrame(e, d) /\ Shown(e, d, e.value) BY <2>3, ReturnSteps
  <2> HIDE DEF d
  <2>6. Onward(d) = d BY <2>4, <2>5 DEF Onward, ReturnFrame
  <2>7. PatchedIn(c, d)
    BY <1>1, <2>4, <2>5 DEF PatchedIn, ReturnFrame, Shown, SameCall, r
  <2> QED BY <2>2, <2>6, <2>7
<1>2. CASE ~(Active /\ c.kind \in {"connect", "bindll"})
  <2>1. Before(c) = c BY <1>2 DEF Before, connect_pre, vpnhide_inet6_bind_ll
  <2>2. Moved(c, Onward(c)) /\ Onward(c).missed = c.missed BY MovedOn, Zenon
  <2>3. PatchedIn(c, Onward(c)) BY <1>2, <2>2 DEF PatchedIn, Moved
  <2> QED BY <2>1, <2>3
<1> QED BY <1>1, <1>2

\* The hook behind it.
LEMMA PatchedOutEffects ==
  ASSUME NEW c \in CallType, c.way = "out", c.kind \in Kinds
  PROVE  PatchedOut(c, [After(c) EXCEPT !.at = 0])
<1> DEFINE e == After(c)
           d == [e EXCEPT !.at = 0]
<1>0. /\ c.kind \in Binds \cup {"listen"} => c.kind \notin Names \cup Receives \cup Options \cup {"connect"}
      /\ c.kind \in Names => c.kind \notin Receives \cup Options \cup {"connect"}
      /\ c.kind \in Receives => c.kind \notin Options \cup {"connect"}
      /\ c.kind \in Options => c.kind # "connect"
      /\ c.kind \in Binds \cup {"listen"} \cup Names \cup Receives \cup Options \cup {"connect"}
  BY DEF Kinds, Reports, Binds, Names, Receives, Options
<1>1. /\ ReturnFrame(c, e)
      /\ c.kind \in Binds \cup {"listen"} =>
           IF c.ret = "ok" THEN Recorded(c, e) ELSE SameResult(c, e)
      /\ c.kind \in Names =>
           IF c.ret = "ok" /\ Active /\ ~c.elsewhere /\ c.value # "none"
           THEN Shown(c, e, "none") \/ Shown(c, e, "cover") ELSE SameResult(c, e)
      /\ c.kind \in Receives =>
           IF c.ret = "ok" /\ c.value = "vpn" /\ Active /\ cover
           THEN Shown(c, e, "cover") ELSE SameResult(c, e)
      /\ c.kind \in Options =>
           IF Active THEN Shown(c, e, "none") \/ Shown(c, e, "cover") ELSE SameResult(c, e)
      /\ c.kind = "connect" => SameResult(c, e)
  <2>1. CASE c.kind \in Binds \cup {"listen"}
    <3>1. e = bind_post(c) BY <1>0, <2>1 DEF After
    <3> QED BY <3>1, <1>0, <2>1, ReturnSteps, Zenon DEF bind_post
  <2>2. CASE c.kind \in Names
    <3>1. e = IF c.ret = "ok" THEN getname_post(c) ELSE c BY <1>0, <2>2 DEF After
    <3> QED BY <3>1, <1>0, <2>2, ReturnSteps DEF getname_post
  <2>3. CASE c.kind \in Receives
    <3>1. e = IF c.ret = "ok" THEN pktinfo_post(c) ELSE c BY <1>0, <2>3 DEF After
    <3> QED BY <3>1, <1>0, <2>3, ReturnSteps DEF pktinfo_post
  <2>4. CASE c.kind \in Options
    <3>1. e = getsockopt_post(c) BY <1>0, <2>4 DEF After
    <3> QED BY <3>1, <1>0, <2>4, ReturnSteps DEF getsockopt_post
  <2>5. CASE c.kind = "connect"
    <3>1. e = c BY <1>0, <2>5 DEF After
    <3> QED BY <3>1, <1>0, <2>5, ReturnSteps
  <2> QED BY <1>0, <2>1, <2>2, <2>3, <2>4, <2>5, Zenon
<1> HIDE DEF e
<1>2. e \in CallType BY <1>1 DEF ReturnFrame
<1>3. d \in CallType BY <1>2 DEF CallType
<1>4. /\ SameCall(e, d) /\ d.at = 0 /\ d.way = e.way /\ d.missed = e.missed /\ d.kept = e.kept
      /\ d.misread = e.misread /\ d.deny = e.deny
      /\ d.ret = e.ret /\ d.value = e.value /\ d.owned = e.owned /\ d.counted = e.counted
  BY <1>2 DEF CallType, SameCall
<1> HIDE DEF d
<1>5. /\ SameResult(c, e) => SameResult(c, d)
      /\ Recorded(c, e) => Recorded(c, d)
      /\ \A v : Shown(c, e, v) => Shown(c, d, v)
  BY <1>4 DEF SameResult, Recorded, Shown
<1>6. PatchedOut(c, d)
  BY <1>1, <1>3, <1>4, <1>5 DEF PatchedOut, ReturnFrame, SameCall
<1> QED BY <1>6 DEF d, e
-----------------------------------------------------------------------------
\* The call is inside the i-th function of its path, or has left it.
Inside(c, i) == \/ c.way = "in" /\ c.at > i
                \/ c.way = "out" /\ c.at >= i
Left(c, i) == c.way = "done" \/ (c.way = "out" /\ c.at < i)

\* Where a call can be, and which handlers wait for its return.
Shape(c) ==
  /\ c.way # "idle" => c.kind \in Kinds
  /\ c.way \in {"idle", "done"} => c.kept = {}
  /\ c.way = "in" => c.at \in 1 .. Len(Path(c.kind)) + 1
  /\ c.way = "out" => c.at \in 0 .. Len(Path(c.kind))
  /\ c.kept \subseteq registered
  /\ \A f \in c.kept : \E i \in 1..Len(Path(c.kind)) : f = Path(c.kind)[i] /\ Inside(c, i)
  /\ c.way = "in" /\ c.at = 1 => c.misread = {} /\ c.kept = {}
  /\ c.way = "in" => c.ret = "ok" /\ c.value = "none" /\ c.owned = 0 /\ c.counted = 0
  /\ c.misread \subseteq {"sock_common_getsockopt"} \cup IF c.whole THEN {} ELSE {"sys_bind"}
  /\ c.whole => phase = "loaded"
  /\ c.whole /\ c.way \in {"in", "out"} => policy \in c.under /\ cover \in c.covered

Whole(c) == c.whole /\ ~c.missed

\* The handlers that wait for a whole call are the registered ones, or those of
\* them that need no policy.
Watched(c) ==
  Whole(c) /\ build = "module" =>
    /\ \A i \in 1..Len(Layers(c.kind)) :
         LET f == Layers(c.kind)[i] IN
         Inside(c, i) /\ f \in registered /\ (f \in Always \/ c.under = {"block"}) => f \in c.kept
    /\ "block" \notin c.under => c.kept \subseteq Always

(* The steps of a call keep its shape.                                     *)

\* Entering a function keeps the shape of a call.
LEMMA EnterShape ==
  ASSUME ModuleInv, NEW c \in CallType, Shape(c), build = "module",
         c.way = "in", c.at <= Len(Layers(c.kind)),
         NEW d, EnterEffect(c, Layers(c.kind)[c.at], d)
  PROVE  Shape(d)
<1> DEFINE f == Layers(c.kind)[c.at]
<1>1. d \in CallType /\ SameCall(c, d) BY DEF EnterEffect, Moved, EntryEffect
<1>2. c.kind \in Kinds /\ Path(c.kind) = Layers(c.kind) /\ Path(d.kind) = Layers(c.kind)
  BY <1>1 DEF Shape, Path, SameCall
<1>3. Len(Layers(c.kind)) \in 1..3 /\ c.at \in 1..Len(Layers(c.kind))
  BY <1>2, LayersDiffer DEF Shape
<1>4. \/ d.way = "in" /\ d.at = c.at + 1 /\ d.ret = c.ret
      \/ d.way = "out" /\ d.at = c.at
  BY DEF EnterEffect, Moved, EntryEffect
<1>5. d.value = c.value /\ d.owned = c.owned /\ d.counted = c.counted
  BY DEF EnterEffect, Moved, EntryEffect
<1>6. \/ d.kept = c.kept
      \/ d.kept = c.kept \cup {f} /\ f \in registered
  BY Zenon DEF EnterEffect, Moved, EntryEffect
<1>7. /\ d.kept \subseteq registered
      /\ \A g \in d.kept : \E i \in 1..Len(Layers(c.kind)) : g = Layers(c.kind)[i] /\ Inside(d, i)
  <2>1. \A i \in 1..Len(Layers(c.kind)) : Inside(c, i) => Inside(d, i)
    BY <1>3, <1>4 DEF Inside
  <2>2. Inside(d, c.at) BY <1>3, <1>4 DEF Inside
  <2> HIDE DEF f
  <2>3. \A g \in c.kept : \E i \in 1..Len(Layers(c.kind)) : g = Layers(c.kind)[i] /\ Inside(c, i)
    BY <1>2 DEF Shape
  <2>4. \A g \in c.kept : \E i \in 1..Len(Layers(c.kind)) : g = Layers(c.kind)[i] /\ Inside(d, i)
    BY <2>1, <2>3
  <2>5. \A g \in {f} : \E i \in 1..Len(Layers(c.kind)) : g = Layers(c.kind)[i] /\ Inside(d, i)
    BY <2>2, <1>3 DEF f
  <2> QED BY <2>4, <2>5, <1>6 DEF Shape
<1>8. d.misread \subseteq {"sock_common_getsockopt"} \cup IF d.whole THEN {} ELSE {"sys_bind"}
  <2>1. c.misread \subseteq {"sock_common_getsockopt"} \cup IF d.whole THEN {} ELSE {"sys_bind"}
    BY <1>1 DEF Shape, SameCall
  <2>2. "sys_connect" \in registered /\ Active => wrapper.connect
    BY DEF ModuleInv, Active
  <2>3. "sys_bind" \in registered /\ d.whole => wrapper.bind
    BY <1>1 DEF ModuleInv, Shape, SameCall
  <2>4. d.misread = c.misread \/ (f \in registered /\ EntryEffect(c, f, d))
    BY DEF EnterEffect, Moved
  <2>5. d.misread = c.misread \/ d.misread = c.misread \cup {"sock_common_getsockopt"}
        \/ (d.misread = c.misread \cup {"sys_bind"} /\ ~d.whole)
    BY <2>4, <2>2, <2>3, Zenon DEF EntryEffect
  <2> QED BY <2>5, <2>1
<1>9. /\ d.whole => phase = "loaded"
      /\ d.whole /\ d.way \in {"in", "out"} => policy \in d.under /\ cover \in d.covered
  BY <1>1 DEF Shape, SameCall
<1> QED BY <1>1, <1>2, <1>3, <1>4, <1>5, <1>7, <1>8, <1>9 DEF Shape, SameCall

\* A step outwards keeps the shape of a call.
LEMMA OutwardShape ==
  ASSUME NEW c \in CallType, Shape(c), c.way \in {"in", "out"}, NEW d \in CallType, SameCall(c, d),
         d.misread = c.misread, d.kept \subseteq c.kept,
         \/ d.way = "out" /\ d.at \in 0..Len(Path(c.kind))
         \/ d.way = "done" /\ d.kept = {},
         \A i \in 1..Len(Path(c.kind)) : Inside(c, i) /\ Path(c.kind)[i] \in d.kept => Inside(d, i)
  PROVE  Shape(d)
<1>1. d.kind = c.kind /\ Path(d.kind) = Path(c.kind) BY DEF SameCall
<1>2. \A g \in d.kept : \E i \in 1..Len(Path(d.kind)) : g = Path(d.kind)[i] /\ Inside(d, i)
  BY <1>1 DEF Shape
<1>3. d.misread \subseteq {"sock_common_getsockopt"} \cup IF d.whole THEN {} ELSE {"sys_bind"}
  BY DEF Shape, SameCall
<1> QED BY <1>1, <1>2, <1>3 DEF Shape, SameCall

\* The kernel's work, leaving a function and finishing keep the shape.
LEMMA OutShape ==
  ASSUME NEW c \in CallType, Shape(c), NEW d,
         \/ c.way = "in" /\ c.at > Len(Path(c.kind)) /\ KernelEffect(c, d)
         \/ c.way = "out" /\ c.at > 0 /\ build = "module"
            /\ LeaveEffect(c, Layers(c.kind)[c.at], d)
         \/ c.way = "out" /\ c.at = 0 /\ FinishEffect(c, d)
  PROVE  Shape(d)
<1>0. c.kind \in Kinds /\ Len(Path(c.kind)) \in Nat /\ c.at \in Nat
  BY LayersDiffer DEF Shape, Path, CallType
<1>1. CASE c.way = "in" /\ c.at > Len(Path(c.kind)) /\ KernelEffect(c, d)
  <2>1. c.at = Len(Path(c.kind)) + 1 BY <1>0, <1>1 DEF Shape
  <2>2. d.way = "out" /\ d.at = Len(Path(c.kind)) BY <1>0, <1>1, <2>1 DEF KernelEffect
  <2>3. \A i \in 1..Len(Path(c.kind)) : Inside(d, i) BY <1>0, <2>2 DEF Inside
  <2>4. d \in CallType /\ SameCall(c, d) /\ d.misread = c.misread /\ d.kept \subseteq c.kept
    BY <1>1 DEF KernelEffect
  <2> QED BY <2>2, <2>3, <2>4, <1>0, <1>1, OutwardShape
<1>2. CASE /\ c.way = "out" /\ c.at > 0 /\ build = "module"
           /\ LeaveEffect(c, Layers(c.kind)[c.at], d)
  <2>1. d.way = "out" /\ d.at \in 0..Len(Path(c.kind)) /\ d.at = c.at - 1
    BY <1>0, <1>2 DEF LeaveEffect, Shape
  <2>2. \A i \in 1..Len(Path(c.kind)) : Inside(c, i) /\ Path(c.kind)[i] \in d.kept => Inside(d, i)
    <3>1. d.kept = c.kept \ {Path(c.kind)[c.at]} BY <1>2 DEF LeaveEffect, Path
    <3>2. \A i \in 1..Len(Path(c.kind)) : Path(c.kind)[i] \in d.kept => i # c.at BY <3>1
    <3> QED BY <3>2, <2>1, <1>0, <1>2 DEF Inside
  <2>4. d \in CallType /\ SameCall(c, d) /\ d.misread = c.misread /\ d.kept \subseteq c.kept
    BY <1>2 DEF LeaveEffect
  <2> QED BY <2>1, <2>2, <2>4, <1>0, <1>2, OutwardShape
<1>3. CASE c.way = "out" /\ c.at = 0 /\ FinishEffect(c, d)
  <2>1. \A i \in 1..Len(Path(c.kind)) : ~Inside(c, i) BY <1>0, <1>3 DEF Inside
  <2>2. c.kept = {} BY <2>1 DEF Shape
  <2>4. /\ d \in CallType /\ SameCall(c, d) /\ d.misread = c.misread /\ d.kept = {}
        /\ d.way = "done"
    BY <1>3, <2>2 DEF FinishEffect
  <2> QED BY <2>1, <2>2, <2>4, <1>3, OutwardShape
<1> QED BY <1>1, <1>2, <1>3

\* The in-tree hooks keep the shape.
LEMMA PatchedShape ==
  ASSUME NEW c \in CallType, Shape(c), build = "intree", registered = {}, NEW d,
         \/ c.way = "in" /\ c.at = 1 /\ PatchedIn(c, d)
         \/ c.way = "out" /\ c.at > 0 /\ PatchedOut(c, d)
  PROVE  Shape(d)
<1>0. Len(Path(c.kind)) = 1 /\ c.kept = {} BY DEF Path, Shape
<1>1. CASE c.way = "out" /\ PatchedOut(c, d)
  <2>1. /\ d \in CallType /\ SameCall(c, d) /\ d.misread = c.misread /\ d.kept = {}
        /\ d.way = "out" /\ d.at = 0
    BY <1>0, <1>1 DEF PatchedOut
  <2> QED BY <1>0, <1>1, <2>1, OutwardShape
<1>2. CASE c.way = "in" /\ c.at = 1 /\ PatchedIn(c, d) /\ d.way = "out"
  <2>1. /\ d \in CallType /\ SameCall(c, d) /\ d.misread = c.misread /\ d.kept = {}
        /\ d.way = "out" /\ d.at = 1
    BY <1>0, <1>2 DEF PatchedIn
  <2>2. d.at \in 0..Len(Path(c.kind)) BY <2>1, <1>0
  <2>3. \A i \in 1..Len(Path(c.kind)) : Path(c.kind)[i] \notin d.kept BY <2>1
  <2> QED BY <1>2, <2>1, <2>2, <2>3, OutwardShape
<1>3. CASE c.way = "in" /\ c.at = 1 /\ PatchedIn(c, d) /\ d.way = "in"
  <2>1. /\ d \in CallType /\ SameCall(c, d) /\ d.misread = {} /\ d.kept = {}
        /\ d.at = 2 /\ d.ret = c.ret /\ d.value = c.value /\ d.owned = c.owned
        /\ d.counted = c.counted
    BY <1>0, <1>3 DEF PatchedIn, Shape
  <2>2. Len(Path(d.kind)) = 1 BY DEF Path
  <2> QED BY <2>1, <2>2, <1>3 DEF Shape, SameCall
<1> QED BY <1>1, <1>2, <1>3 DEF PatchedIn

\* A new call is in shape.
LEMMA StartShape ==
  ASSUME NEW kind \in Kinds, NEW d, StartEffect(kind, d)
  PROVE  Shape(d)
<1>1. Len(Path(kind)) \in 1..3 BY LayersDiffer DEF Path
<1>2. d.kind = kind /\ d.at = 1 /\ d.at \in 1 .. Len(Path(d.kind)) + 1
  BY <1>1 DEF StartEffect
<1>3. d.way = "in" /\ d.kept = {} /\ d.misread = {} BY DEF StartEffect
<1>4. d.ret = "ok" /\ d.value = "none" /\ d.owned = 0 /\ d.counted = 0 BY DEF StartEffect
<1>5. /\ d.whole => phase = "loaded"
      /\ policy \in d.under /\ cover \in d.covered
  BY Zenon DEF StartEffect
<1> QED BY <1>2, <1>3, <1>4, <1>5 DEF Shape
-----------------------------------------------------------------------------
(* The handlers that wait for a whole call are the registered ones.        *)

\* Entering a function.
LEMMA EnterWatched ==
  ASSUME NEW c \in CallType, Shape(c), Watched(c), build = "module",
         c.way = "in", c.at <= Len(Layers(c.kind)),
         NEW d, EnterEffect(c, Layers(c.kind)[c.at], d)
  PROVE  Watched(d)
<1> SUFFICES ASSUME Whole(d) PROVE Watched(d) BY DEF Watched
<1> DEFINE f == Layers(c.kind)[c.at]
<1>1. d.kind = c.kind /\ d.under = c.under /\ d.whole = c.whole /\ d.at \in Nat
  BY DEF EnterEffect, Moved, EntryEffect, SameCall, CallType
<1>2. Whole(c)
  BY <1>1 DEF Whole, EnterEffect, Moved, EntryEffect, CallType
<1>3. c.kind \in Kinds /\ c.at \in 1..Len(Layers(c.kind)) /\ Len(Layers(c.kind)) \in 1..3
  BY LayersDiffer DEF Shape, Path
<1>4. policy \in c.under BY <1>2 DEF Shape, Whole
<1>5. \A i \in 1..Len(Layers(c.kind)) : Inside(d, i) => Inside(c, i) \/ i = c.at
  <2>1. \/ d.way = "in" /\ d.at = c.at + 1
        \/ d.way = "out" /\ d.at = c.at
    BY DEF EnterEffect, Moved, EntryEffect
  <2> QED BY <2>1, <1>3 DEF Inside
<1>6. c.kept \subseteq d.kept BY DEF EnterEffect, Moved, EntryEffect
<1>7. f \in registered /\ (f \in Always \/ Active) => f \in d.kept
  BY DEF EnterEffect, Moved, EntryEffect, Whole
<1>8. d.kept \subseteq c.kept \cup (IF f \in Always \/ Active THEN {f} ELSE {})
  BY DEF EnterEffect, Moved, EntryEffect
<1> HIDE DEF f
<1>9. c.under = {"block"} => Active BY <1>4 DEF Active
<1>10. "block" \notin c.under => ~Active BY <1>4 DEF Active
<1>11. ASSUME NEW i \in 1..Len(Layers(c.kind)), Inside(d, i), Layers(c.kind)[i] \in registered,
              Layers(c.kind)[i] \in Always \/ c.under = {"block"}
       PROVE  Layers(c.kind)[i] \in d.kept
  <2>1. CASE i = c.at BY <2>1, <1>11, <1>7, <1>9 DEF f
  <2>2. CASE Inside(c, i)
    <3>1. Layers(c.kind)[i] \in c.kept BY <2>2, <1>11, <1>2 DEF Watched
    <3> QED BY <3>1, <1>6
  <2> QED BY <2>1, <2>2, <1>5, <1>11
<1>12. "block" \notin c.under => d.kept \subseteq Always
  <2>1. "block" \notin c.under => c.kept \subseteq Always BY <1>2 DEF Watched
  <2> QED BY <2>1, <1>8, <1>10
<1> QED BY <1>1, <1>11, <1>12 DEF Watched

\* A step outwards: the handlers of the functions the call is still inside wait.
LEMMA OutWatched ==
  ASSUME NEW c \in CallType, Shape(c), Watched(c), NEW d,
         \/ c.way = "in" /\ c.at > Len(Path(c.kind)) /\ KernelEffect(c, d)
         \/ c.way = "out" /\ c.at > 0 /\ build = "module"
            /\ LeaveEffect(c, Layers(c.kind)[c.at], d)
         \/ c.way = "out" /\ c.at = 0 /\ FinishEffect(c, d)
  PROVE  Watched(d)
<1> SUFFICES ASSUME Whole(d), build = "module" PROVE Watched(d) BY DEF Watched
<1>1. d.kind = c.kind /\ d.under = c.under /\ Whole(c)
  BY Zenon DEF KernelEffect, LeaveEffect, FinishEffect, SameCall, Whole
<1>2. c.kind \in Kinds /\ Len(Layers(c.kind)) \in 1..3 /\ c.at \in Nat /\ Path(c.kind) = Layers(c.kind)
  BY LayersDiffer DEF Shape, Path, CallType
<1>3. d.kept \subseteq c.kept BY DEF KernelEffect, LeaveEffect, FinishEffect
<1>4. ASSUME NEW i \in 1..Len(Layers(c.kind)), Inside(d, i), Layers(c.kind)[i] \in c.kept
      PROVE  Inside(c, i) /\ Layers(c.kind)[i] \in d.kept
  <2>1. CASE c.way = "in" /\ c.at > Len(Path(c.kind)) /\ KernelEffect(c, d)
    BY <2>1, <1>2, <1>4 DEF KernelEffect, Inside
  <2>2. CASE c.way = "out" /\ c.at > 0 /\ LeaveEffect(c, Layers(c.kind)[c.at], d)
    <3>1. i <= c.at - 1 BY <2>2, <1>2, <1>4 DEF LeaveEffect, Inside
    <3>2. c.at \in 1..Len(Layers(c.kind)) BY <2>2, <1>2 DEF Shape
    <3>3. Layers(c.kind)[i] # Layers(c.kind)[c.at]
      <4>1. i # c.at BY <3>1, <1>2
      <4> QED BY <4>1, <3>2, <1>2, LayersDiffer
    <3>4. d.kept = c.kept \ {Layers(c.kind)[c.at]} BY <2>2 DEF LeaveEffect
    <3> QED BY <3>1, <3>3, <3>4, <2>2, <1>2, <1>4 DEF Inside
  <2>3. CASE FinishEffect(c, d)
    BY <2>3, <1>4 DEF FinishEffect, Inside
  <2> QED BY <2>1, <2>2, <2>3
<1>5. ASSUME NEW i \in 1..Len(Layers(c.kind)), Inside(d, i)
      PROVE  Inside(c, i)
  <2>1. CASE c.way = "in" /\ c.at > Len(Path(c.kind)) /\ KernelEffect(c, d)
    BY <2>1, <1>2, <1>5 DEF KernelEffect, Inside
  <2>2. CASE c.way = "out" /\ c.at > 0 /\ LeaveEffect(c, Layers(c.kind)[c.at], d)
    BY <2>2, <1>2, <1>5 DEF LeaveEffect, Inside
  <2>3. CASE FinishEffect(c, d)
    BY <2>3, <1>5 DEF FinishEffect, Inside
  <2> QED BY <2>1, <2>2, <2>3
<1>6. ASSUME NEW i \in 1..Len(Layers(c.kind)), Inside(d, i), Layers(c.kind)[i] \in registered,
             Layers(c.kind)[i] \in Always \/ c.under = {"block"}
      PROVE  Layers(c.kind)[i] \in d.kept
  <2>1. Inside(c, i) BY <1>5, <1>6
  <2>2. Layers(c.kind)[i] \in c.kept BY <2>1, <1>6, <1>1 DEF Watched
  <2> QED BY <2>2, <1>4, <1>6
<1>7. "block" \notin c.under => d.kept \subseteq Always
  BY <1>1, <1>3 DEF Watched
<1> QED BY <1>1, <1>6, <1>7 DEF Watched

\* A new call has no handlers waiting.
LEMMA StartWatched ==
  ASSUME NEW kind \in Kinds, NEW d, StartEffect(kind, d)
  PROVE  Watched(d)
<1>1. Len(Layers(kind)) \in 1..3 BY LayersDiffer
<1>2. \A i \in 1..Len(Layers(kind)) : ~Inside(d, i) BY <1>1 DEF Inside, StartEffect
<1> QED BY <1>2 DEF Watched, StartEffect
=============================================================================
