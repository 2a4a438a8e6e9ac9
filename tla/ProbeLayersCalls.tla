-------------------------- MODULE ProbeLayersCalls ---------------------------
(***************************************************************************)
(* Calls under loading, changing policies and unloading, for every number  *)
(* of threads, every set of probes the kernel refuses and every number of  *)
(* instances.  A call is whole if it is made and finished while the module *)
(* is loaded and no handler was missed: then the probes that see it are    *)
(* exactly the registered ones among its functions, from the moment it     *)
(* enters each to the moment it leaves it.                                 *)
(***************************************************************************)
EXTENDS ProbeLayersHandlers

\* Handlers that settle the call, of those registered: inet6_bind stands by for
\* sys_bind unless it refuses the bind, and of an MTU only sys_getsockopt is sure.
Settles(kind, f) ==
  /\ f \in registered
  /\ kind = "bind6" /\ f = "inet6_bind" => "sys_bind" \notin registered
  /\ kind = "bindll" => f = "inet6_bind"
  /\ kind = "mtu" => f = "sys_getsockopt"

\* Such a handler, or the hook, has seen the call return.
Settled(c) ==
  IF build = "module"
  THEN \E i \in 1..Len(Layers(c.kind)) : Left(c, i) /\ Settles(c.kind, Layers(c.kind)[i])
  ELSE Left(c, 1)

\* Binds and listens are recorded when they are settled.
Bound(c) ==
  /\ c.deny => c.kind = "bindll"
  /\ c.kind \in {"bind4", "bind6", "listen"} /\ c.way \in {"out", "done"} =>
       c.owned = IF c.ret = "ok" /\ Settled(c) THEN 1 ELSE 0

\* A blocked connection that is not settled either has not reached its probe or
\* was turned back there.
Blocked(c) ==
  c.kind = "connect" /\ c.under = {"block"} =>
    IF build = "module"
    THEN /\ Settled(c) => c.ret = "ECONNREFUSED" /\ c.counted = 1
         /\ ~Settled(c) => c.counted = 0
         /\ "sys_connect" \in registered =>
              /\ c.way = "in" => c.at = 1
              /\ c.way = "out" /\ c.at >= 1 => c.ret = "EFAULT"
    ELSE /\ c.way = "in" => c.at = 1
         /\ c.way # "in" => c.ret = "ECONNREFUSED" /\ c.counted = 1

Spared(c) ==
  c.kind = "connect" /\ "block" \notin c.under => c.ret \in {"ok", "failed"} /\ c.counted = 0

LinkLocal(c) ==
  c.kind = "bindll" /\ c.under = {"block"} =>
    IF build = "module"
    THEN "inet6_bind" \in registered =>
           /\ c.owned = 0
           /\ Inside(c, 2) => c.deny
           /\ Settled(c) => c.ret = "ENODEV" /\ c.counted = 1
           /\ ~Settled(c) => c.counted = 0
    ELSE /\ c.way = "in" => c.at = 1
         /\ c.way # "in" => c.ret = "ENODEV" /\ c.counted = 1 /\ c.owned = 0

Named(c) ==
  c.kind \in Names =>
    /\ c.counted <= 1
    /\ c.kept # {} \/ (build = "intree" /\ Inside(c, 1)) => c.counted = 0

\* What is reported once the call is settled.
Reported(c) ==
  /\ c.kind \in Reports /\ c.ret # "ok" => c.value # "vpn"
  /\ c.elsewhere => c.kind \in Names /\ c.value # "vpn"
  /\ (/\ c.kind \in Reports /\ c.under = {"block"} /\ Settled(c)
      /\ c.kind \in Receives => c.covered = {TRUE}
      /\ c.short => "sys_getsockname" \notin registered) => c.value # "vpn"

Outcome(c) ==
  Whole(c) /\ c.way # "idle" =>
    Bound(c) /\ Blocked(c) /\ Spared(c) /\ LinkLocal(c) /\ Named(c) /\ Reported(c)

Good(c) == Shape(c) /\ Watched(c) /\ Outcome(c)
-----------------------------------------------------------------------------
(* When a call is settled.                                                 *)

\* On the way in, and right after the kernel's work, it is not.
LEMMA NotYetSettled ==
  ASSUME NEW c \in CallType, Shape(c),
         c.way = "in" \/ (c.way = "out" /\ c.at = Len(Path(c.kind)))
  PROVE  ~Settled(c)
<1>1. c.kind \in Kinds /\ Len(Layers(c.kind)) \in 1..3 BY LayersDiffer DEF Shape
<1>2. CASE build = "module"
  <2>1. \A i \in 1..Len(Layers(c.kind)) : ~Left(c, i) BY <1>1, <1>2 DEF Left, Path
  <2> QED BY <2>1, <1>2 DEF Settled
<1>3. CASE build # "module"
  <2>1. ~Left(c, 1) BY <1>3 DEF Left, Path
  <2> QED BY <2>1, <1>3 DEF Settled
<1> QED BY <1>2, <1>3

\* Leaving a function settles the call if its handler does.
LEMMA LeaveSettles ==
  ASSUME NEW c \in CallType, Shape(c), build = "module", c.way = "out", c.at > 0,
         NEW d \in CallType, d.kind = c.kind, d.way = "out", d.at = c.at - 1
  PROVE  /\ c.at \in 1..Len(Layers(c.kind))
         /\ Settled(d) <=> Settled(c) \/ Settles(c.kind, Layers(c.kind)[c.at])
<1>1. c.kind \in Kinds /\ Len(Layers(c.kind)) \in 1..3 BY LayersDiffer DEF Shape
<1>2. c.at \in 1..Len(Layers(c.kind)) BY <1>1 DEF Shape, Path
<1>3. \A i \in 1..Len(Layers(c.kind)) : Left(d, i) <=> Left(c, i) \/ i = c.at
  BY <1>1, <1>2 DEF Left
<1>4. Settled(d) <=>
        \E i \in 1..Len(Layers(c.kind)) : Left(d, i) /\ Settles(c.kind, Layers(c.kind)[i])
  BY DEF Settled
<1>5. Settled(c) <=>
        \E i \in 1..Len(Layers(c.kind)) : Left(c, i) /\ Settles(c.kind, Layers(c.kind)[i])
  BY DEF Settled
<1> QED BY <1>2, <1>3, <1>4, <1>5

\* Of the functions that stand by for each other only one settles a call.
LEMMA OneSettles ==
  ASSUME NEW c \in CallType, Shape(c), Attachment, build = "module", phase = "loaded",
         c.way = "out", c.at > 0, c.kind \in {"connect", "bind4", "bind6", "bindll", "listen"},
         Settles(c.kind, Layers(c.kind)[c.at])
  PROVE  ~Settled(c)
<1>1. c.at \in 1..Len(Layers(c.kind)) /\ c.kind \in Kinds /\ Len(Layers(c.kind)) \in 1..3
  BY LayersDiffer DEF Shape, Path
<1>2. SUFFICES ASSUME NEW i \in 1..Len(Layers(c.kind)), c.at < i,
                      Settles(c.kind, Layers(c.kind)[i])
               PROVE  FALSE
  <2>1. \A i \in 1..Len(Layers(c.kind)) : Left(c, i) => c.at < i BY DEF Left
  <2> QED BY <2>1 DEF Settled
<1>3. c.at = 1 /\ i = 2 /\ c.kind \in {"connect", "bind4", "bind6", "bindll"}
  BY <1>1, <1>2, LayersTable
<1>4. CASE c.kind = "connect"
  <2>1. "sys_connect" \in registered /\ "security_socket_connect" \in registered
    BY <1>2, <1>3, <1>4, LayersTable DEF Settles
  <2> QED BY <2>1, LoadedProbes
<1>5. CASE c.kind = "bind4"
  <2>1. "sys_bind" \in registered /\ "inet_bind" \in registered
    BY <1>2, <1>3, <1>5, LayersTable DEF Settles
  <2> QED BY <2>1, LoadedProbes
<1>6. CASE c.kind = "bind6"
  <2>1. "sys_bind" \in registered /\ "sys_bind" \notin registered
    BY <1>2, <1>3, <1>6, LayersTable DEF Settles
  <2> QED BY <2>1
<1>7. CASE c.kind = "bindll"
  <2>1. "sys_bind" = "inet6_bind" BY <1>3, <1>7, LayersTable DEF Settles
  <2> QED BY <2>1
<1> QED BY <1>3, <1>4, <1>5, <1>6, <1>7
-----------------------------------------------------------------------------
(* The steps of a whole call lead to the outcome it should have.           *)

\* Leaving a function.  In a whole call the handler of a registered function runs
\* if it waits whatever the policy is, or if the policy blocked all along.
LEMMA LeaveOutcome ==
  ASSUME ModuleInv, Attachment, NEW c \in CallType, Good(c), build = "module",
         c.way = "out", c.at > 0, NEW d, LeaveEffect(c, Layers(c.kind)[c.at], d)
  PROVE  Outcome(d)
<1> SUFFICES ASSUME Whole(d) PROVE Outcome(d) BY DEF Outcome
<1> DEFINE f == Layers(c.kind)[c.at]
<1>1. d \in CallType /\ SameCall(c, d) /\ d.way = "out" /\ d.deny = c.deny /\ d.at = c.at - 1
      /\ d.kept = c.kept \ {f}
  BY DEF LeaveEffect
<1>2. /\ Shape(c) /\ Watched(c) /\ Whole(c)
      /\ Bound(c) /\ Blocked(c) /\ Spared(c) /\ LinkLocal(c) /\ Named(c) /\ Reported(c)
  BY DEF Good, Outcome, Whole, LeaveEffect, SameCall
<1>3. d.kind = c.kind /\ d.under = c.under /\ d.elsewhere = c.elsewhere /\ d.covered = c.covered
      /\ d.short = c.short
  BY <1>1 DEF SameCall
<1>4. c.kind \in Kinds /\ c.at \in 1..Len(Layers(c.kind))
  BY <1>1, <1>2, <1>3, LeaveSettles DEF Shape
<1>5. Settled(d) <=> Settled(c) \/ Settles(c.kind, f)
  BY <1>1, <1>2, <1>3, LeaveSettles
<1>6. phase = "loaded" BY <1>2 DEF Shape, Whole
<1>7. f \in c.kept => f \in registered BY <1>2 DEF Shape
<1>8. f \in registered /\ (f \in Always \/ c.under = {"block"}) => f \in c.kept
  <2>1. Inside(c, c.at) BY <1>4 DEF Inside
  <2> QED BY <2>1, <1>2, <1>4 DEF Watched
<1>9. IF f \in c.kept THEN ReturnEffect(c, f, d) ELSE SameResult(c, d) BY DEF LeaveEffect
<1>10. policy \in c.under /\ cover \in c.covered BY <1>2 DEF Shape, Whole
<1>11. c.misread \subseteq {"sock_common_getsockopt"} BY <1>2 DEF Shape, Whole
<1>12. wrapper.bind <=> "sys_bind" \in registered BY <1>6 DEF ModuleInv
<1>13. c.owned \in Nat /\ c.counted \in Nat BY DEF CallType
<1> HIDE DEF f
<1>b. Bound(d)
  <2>1. d.deny => d.kind = "bindll" BY <1>1, <1>2, <1>3 DEF Bound
  <2> SUFFICES ASSUME c.kind \in {"bind4", "bind6", "listen"}
               PROVE  d.owned = IF d.ret = "ok" /\ Settled(d) THEN 1 ELSE 0
    BY <2>1, <1>3 DEF Bound
  <2>2. ~c.deny /\ c.owned = IF c.ret = "ok" /\ Settled(c) THEN 1 ELSE 0 BY <1>2 DEF Bound
  <2>3. f \in {"sys_bind", "inet_bind", "inet6_bind", "inet_listen"} BY <1>4, LayerOf DEF f
  <2>4. f \in c.kept <=> f \in registered BY <1>7, <1>8, <2>3 DEF Always
  <2>5. c.kind # "bind6" => f # "inet6_bind" BY <1>4, LayerOf DEF f
  <2>6. CASE f \notin registered
    <3>1. SameResult(c, d) BY <2>4, <2>6, <1>9
    <3>2. Settled(d) <=> Settled(c) BY <2>6, <1>5 DEF Settles
    <3> QED BY <3>1, <3>2, <2>2 DEF SameResult
  <2>7. CASE f \in registered /\ ~Settles(c.kind, f)
    <3>1. f = "inet6_bind" /\ wrapper.bind BY <2>7, <1>12 DEF Settles
    <3>2. SameResult(c, d) BY <3>1, <2>2, <2>4, <2>7, <1>9 DEF ReturnEffect
    <3> QED BY <3>2, <2>2, <2>7, <1>5 DEF SameResult
  <2>8. CASE f \in registered /\ Settles(c.kind, f)
    <3>1. ~Settled(c) BY <2>8, <1>2, <1>6, OneSettles DEF f
    <3>2. c.owned = 0 BY <3>1, <2>2
    <3>3. f = "inet6_bind" => ~wrapper.bind BY <2>5, <2>8, <1>12 DEF Settles
    <3>4. ReturnEffect(c, f, d) BY <2>4, <2>8, <1>9
    <3>5. IF c.ret = "ok" THEN Recorded(c, d) ELSE SameResult(c, d)
      BY <3>3, <3>4, <2>2, <2>3, <1>11 DEF ReturnEffect
    <3>6. Settled(d) BY <2>8, <1>5
    <3> QED BY <3>2, <3>5, <3>6 DEF Recorded, SameResult
  <2> QED BY <2>6, <2>7, <2>8
<1>c. Blocked(d)
  <2> SUFFICES ASSUME c.kind = "connect", c.under = {"block"} PROVE Blocked(d)
    BY <1>3 DEF Blocked
  <2>1. (c.at = 1 /\ f = "sys_connect") \/ (c.at = 2 /\ f = "security_socket_connect")
    BY <1>4, LayerOf DEF f
  <2>2. f \in c.kept <=> f \in registered BY <1>7, <1>8
  <2>3. Settles(c.kind, f) <=> f \in registered BY DEF Settles
  <2>4. CASE f \notin registered
    <3>1. SameResult(c, d) BY <2>2, <2>4, <1>9
    <3>2. Settled(d) <=> Settled(c) BY <2>3, <2>4, <1>5
    <3>3. d.at >= 1 => c.at >= 1 BY <1>1, <1>4
    <3> QED BY <3>1, <3>2, <3>3, <1>1, <1>2, <1>3 DEF Blocked, SameResult
  <2>5. CASE f \in registered
    <3>1. ~Settled(c) /\ Settled(d) BY <2>3, <2>5, <1>2, <1>5, <1>6, OneSettles DEF f
    <3>2. c.counted = 0 BY <3>1, <1>2 DEF Blocked
    <3>3. f = "sys_connect" => c.ret = "EFAULT" BY <2>1, <2>5, <1>2 DEF Blocked
    <3>4. Refused(c, d, "ECONNREFUSED")
      BY <3>3, <2>1, <2>2, <2>5, <1>9 DEF ReturnEffect
    <3>5. "sys_connect" \in registered => d.at = 0
      BY <2>1, <2>5, <1>1, <1>6, LoadedProbes
    <3> QED BY <3>1, <3>2, <3>4, <3>5, <1>1 DEF Blocked, Refused
  <2> QED BY <2>4, <2>5
<1>d. Spared(d)
  <2> SUFFICES ASSUME c.kind = "connect", "block" \notin c.under PROVE Spared(d)
    BY <1>3 DEF Spared
  <2>1. f \in {"sys_connect", "security_socket_connect"} BY <1>4, LayerOf DEF f
  <2>2. f \notin c.kept BY <2>1, <1>2 DEF Watched, Always
  <2> QED BY <2>2, <1>2, <1>9 DEF Spared, SameResult
<1>e. LinkLocal(d)
  <2> SUFFICES ASSUME c.kind = "bindll", c.under = {"block"}, "inet6_bind" \in registered
               PROVE  LinkLocal(d)
    BY <1>3 DEF LinkLocal
  <2>1. (c.at = 1 /\ f = "sys_bind") \/ (c.at = 2 /\ f = "inet6_bind") BY <1>4, LayerOf DEF f
  <2>2. ~Inside(d, 2) BY <2>1, <1>1 DEF Inside
  <2>3. Settles(c.kind, f) <=> f = "inet6_bind" BY DEF Settles
  <2>4. CASE f = "inet6_bind"
    <3>1. c.deny BY <2>1, <2>4, <1>2 DEF LinkLocal, Inside
    <3>2. ~Settled(c) /\ Settled(d) BY <2>3, <2>4, <1>2, <1>5, <1>6, OneSettles DEF f
    <3>3. c.counted = 0 /\ c.owned = 0 BY <3>2, <1>2 DEF LinkLocal
    <3>4. Refused(c, d, "ENODEV") BY <3>1, <2>4, <1>8, <1>9 DEF ReturnEffect
    <3> QED BY <3>2, <3>3, <3>4, <2>2 DEF LinkLocal, Refused
  <2>5. CASE f = "sys_bind"
    <3>1. Settled(c)
      <4>1. c.at = 1 BY <2>1, <2>5
      <4>2. Left(c, 2) BY <4>1 DEF Left
      <4>3. Settles(c.kind, Layers(c.kind)[2]) BY LayersTable DEF Settles
      <4> QED BY <4>2, <4>3, LayersTable DEF Settled
    <3>2. c.ret = "ENODEV" BY <3>1, <1>2 DEF LinkLocal
    <3>3. SameResult(c, d) BY <3>2, <2>5, <1>9 DEF ReturnEffect
    <3>4. Settled(d) BY <3>1, <1>5
    <3> QED BY <3>1, <3>3, <3>4, <2>2, <1>2 DEF LinkLocal, SameResult
  <2> QED BY <2>1, <2>4, <2>5
<1>f. Named(d)
  <2> SUFFICES ASSUME c.kind \in Names PROVE Named(d) BY <1>3 DEF Named
  <2>1. CASE f \notin c.kept
    <3>1. SameResult(c, d) /\ d.kept = c.kept BY <2>1, <1>1, <1>9
    <3> QED BY <3>1, <1>2, <1>3 DEF Named, SameResult
  <2>2. CASE f \in c.kept
    <3>1. c.counted = 0 BY <2>2, <1>2 DEF Named
    <3>2. d.counted <= 1
      BY <3>1, <2>2, <1>9 DEF ReturnEffect, SameResult, Shown
    <3>3. d.kept = {}
      <4>1. ASSUME NEW g \in c.kept PROVE g = f
        <5>1. PICK i \in 1..Len(Layers(c.kind)) : g = Layers(c.kind)[i] BY <1>2 DEF Shape, Path
        <5>2. g \in registered /\ f \in registered BY <1>2, <2>2 DEF Shape
        <5>3. CASE c.kind = "name4"
          <6>1. {f, g} \subseteq {"sys_getsockname", "inet_getname"}
            BY <5>1, <5>3, <1>4, LayerOf DEF f
          <6> QED BY <6>1, <5>2, <1>6, LoadedProbes
        <5>4. CASE c.kind = "name6"
          <6>1. {f, g} \subseteq {"sys_getsockname", "inet6_getname"}
            BY <5>1, <5>4, <1>4, LayerOf DEF f
          <6> QED BY <6>1, <5>2, <1>6, LoadedProbes
        <5> QED BY <5>3, <5>4 DEF Names
      <4> QED BY <4>1, <1>1
    <3> QED BY <3>2, <3>3 DEF Named
  <2> QED BY <2>1, <2>2
<1>g. Reported(d)
  <2>1. c.elsewhere => c.kind \in Names /\ c.value # "vpn" BY <1>2 DEF Reported
  <2>2. c.kind \in Reports => d.ret = c.ret /\ (d.value = c.value \/ d.value # "vpn")
    BY <1>9 DEF ReturnEffect, SameResult, Shown, Reports
  <2>3. d.kind \in Reports /\ d.ret # "ok" => d.value # "vpn" BY <2>2, <1>2, <1>3 DEF Reported
  <2>4. Names \subseteq Reports BY DEF Reports
  <2>5. d.elsewhere => d.kind \in Names /\ d.value # "vpn" BY <2>1, <2>2, <2>4, <1>3
  <2>6. ASSUME c.kind \in Reports, c.under = {"block"}, Settled(d),
               c.kind \in Receives => c.covered = {TRUE},
               c.short => "sys_getsockname" \notin registered
        PROVE  d.value # "vpn"
    <3>1. CASE Settled(c) BY <3>1, <2>2, <2>6, <1>2, Zenon DEF Reported
    <3>2. CASE c.ret # "ok" BY <3>2, <2>2, <2>6, <1>2 DEF Reported
    <3>3. CASE Settles(c.kind, f) /\ c.ret = "ok"
      <4>1. f \in registered /\ f \in c.kept BY <3>3, <2>6, <1>8 DEF Settles
      <4>2. ReturnEffect(c, f, d) BY <4>1, <1>9
      <4>3. CASE c.kind \in Names
        <5>1. ~(f = "sys_getsockname" /\ c.short) BY <4>1, <2>6
        <5> QED BY <5>1, <4>2, <4>3, <3>3 DEF ReturnEffect, SameResult, Shown
      <4>4. CASE c.kind \in Receives
        <5>2. Active BY <2>6, <1>10 DEF Active
        <5>3. cover = TRUE BY <4>4, <2>6, <1>10, Zenon
        <5>1. Active /\ cover BY <5>2, <5>3
        <5> QED BY <5>1, <4>2, <4>4 DEF ReturnEffect, SameResult, Shown
      <4>5. CASE c.kind = "device"
        BY <4>2, <4>5, <3>3 DEF ReturnEffect, Shown, Options
      <4>6. CASE c.kind = "mtu"
        <5>1. f = "sys_getsockopt" BY <4>6, <3>3 DEF Settles
        <5>2. f \notin c.misread BY <5>1, <1>11
        <5> QED BY <5>2, <4>2, <4>6, <3>3 DEF ReturnEffect, Shown, Options
      <4> QED BY <4>3, <4>4, <4>5, <4>6, <2>6 DEF Reports, Options
    <3> QED BY <3>1, <3>2, <3>3, <2>6, <1>5
  <2> QED BY <2>3, <2>5, <2>6, <1>3, Zenon DEF Reported
<1> QED BY <1>b, <1>c, <1>d, <1>e, <1>f, <1>g DEF Outcome

\* Facts about entering a function in a whole call.
LEMMA EnterOutcome ==
  ASSUME ModuleInv, Attachment, NEW c \in CallType, Good(c), build = "module",
         c.way = "in", c.at <= Len(Layers(c.kind)),
         NEW d, EnterEffect(c, Layers(c.kind)[c.at], d), Shape(d)
  PROVE  Outcome(d)
<1> SUFFICES ASSUME Whole(d) PROVE Outcome(d) BY DEF Outcome
<1> DEFINE f == Layers(c.kind)[c.at]
<1>1. d \in CallType /\ SameCall(c, d)
  BY DEF EnterEffect, Moved, EntryEffect
<1>2. Whole(c) /\ Shape(c) /\ Outcome(c)
  BY <1>1, Zenon DEF Good, Whole, EnterEffect, Moved, EntryEffect, SameCall, CallType
<1>3. c.kind \in Kinds /\ c.at \in 1..Len(Layers(c.kind)) /\ Len(Layers(c.kind)) \in 1..3
  <2>1. Path(c.kind) = Layers(c.kind) BY DEF Path
  <2>2. c.kind \in Kinds /\ c.at \in 1 .. Len(Path(c.kind)) + 1 BY <1>2 DEF Shape
  <2>3. Len(Layers(c.kind)) \in 1..3 BY <2>2, LayersDiffer
  <2> QED BY <2>1, <2>2, <2>3
<1>4. phase = "loaded" /\ policy \in c.under BY <1>2 DEF Shape, Whole
<1>5. d.ret = c.ret \/ f = "sys_connect"
  BY DEF EnterEffect, Moved, EntryEffect
<1>6. c.ret = "ok" /\ c.value = "none" /\ c.owned = 0 /\ c.counted = 0 BY <1>2 DEF Shape
<1>7. d.value = "none" /\ d.owned = 0 /\ d.counted = 0
  BY <1>6 DEF EnterEffect, Moved, EntryEffect
<1>8. \/ d.way = "in" /\ d.at = c.at + 1 /\ d.ret = "ok"
         /\ (f = "sys_connect" /\ Active => f \notin registered)
      \/ d.way = "out" /\ d.at = c.at /\ d.ret = "EFAULT"
         /\ f = "sys_connect" /\ Active /\ f \in registered
  <2>1. "sys_connect" \in registered /\ Active => wrapper.connect BY DEF ModuleInv, Active
  <2> QED BY <2>1, <1>6 DEF EnterEffect, Moved, EntryEffect, Whole
<1>9. f = "sys_connect" => c.kind = "connect" /\ c.at = 1 BY <1>3, SysConnectOf
<1>10. c.kind = "connect" => (c.at = 1 /\ f = "sys_connect") \/ (c.at = 2 /\ f = "security_socket_connect")
  BY <1>3, LayerOf
<1>11. d.kind = c.kind /\ d.under = c.under /\ d.elsewhere = c.elsewhere BY <1>1 DEF SameCall
<1>12. Settled(d) => d.way = "out" BY <1>1, <1>8, NotYetSettled
<1> HIDE DEF f
<1>b. Bound(d)
  <2>1. d.deny => c.kind = "bindll"
    BY <1>2, Zenon DEF EnterEffect, Moved, EntryEffect, Outcome, Bound, f
  <2>2. d.way = "out" => d.kind = "connect" BY <1>8, <1>9, <1>11
  <2>3. d.way # "done" BY <1>8
  <2> QED BY <2>1, <2>2, <2>3, <1>11 DEF Bound
<1>c. Blocked(d)
  <2> SUFFICES ASSUME c.kind = "connect", c.under = {"block"} PROVE Blocked(d)
    BY <1>11 DEF Blocked
  <2>1. Active BY <1>4 DEF Active
  <2>2. ~Settled(d)
    <3>1. CASE d.way = "in" BY <3>1, <1>12
    <3>2. CASE d.way = "out"
      <4>1. d.at = 1 /\ "sys_connect" \in registered BY <3>2, <1>8, <1>9
      <4>2. "security_socket_connect" \notin registered BY <4>1, <1>4, LoadedProbes
      <4>3. \A i \in 1..Len(Layers("connect")) : Left(d, i) => i = 2
        BY <4>1, <3>2, LayersTable DEF Left
      <4> QED BY <4>2, <4>3, <1>11, LayersTable DEF Settled, Settles
    <3> QED BY <3>1, <3>2, <1>8
  <2>3. "sys_connect" \in registered => c.at = 1 /\ f = "sys_connect"
    BY <1>2, <1>10 DEF Outcome, Blocked
  <2>4. "sys_connect" \in registered => d.way = "out" /\ d.ret = "EFAULT"
    BY <2>1, <2>3, <1>8
  <2> QED BY <2>2, <2>4, <1>7, <1>11 DEF Blocked
<1>d. Spared(d)
  <2>1. "block" \notin c.under => ~Active BY <1>4 DEF Active
  <2> QED BY <2>1, <1>7, <1>8, <1>11 DEF Spared
<1>e. LinkLocal(d)
  <2> SUFFICES ASSUME c.kind = "bindll", c.under = {"block"}, "inet6_bind" \in registered
               PROVE  LinkLocal(d)
    BY <1>11 DEF LinkLocal
  <2>1. Active BY <1>4 DEF Active
  <2>2. d.way = "in" /\ d.at = c.at + 1 BY <1>8, <1>9
  <2>3. Inside(d, 2) => d.deny
    <3>1. Inside(d, 2) => c.at = 2 /\ f = "inet6_bind" BY <2>2, <1>3, LayersTable DEF Inside, f
    <3>2. f = "inet6_bind" => d.deny
      BY <2>1, Zenon DEF EnterEffect, Moved, EntryEffect, Whole, f
    <3> QED BY <3>1, <3>2
  <2>4. ~Settled(d) BY <2>2, <1>12
  <2> QED BY <2>3, <2>4, <1>7 DEF LinkLocal
<1>f. Named(d) BY <1>7 DEF Named
<1>g. Reported(d)
  <2>1. c.elsewhere => c.kind \in Names BY <1>2 DEF Outcome, Reported
  <2> QED BY <2>1, <1>7, <1>11 DEF Reported
<1> QED BY <1>b, <1>c, <1>d, <1>e, <1>f, <1>g DEF Outcome

\* The kernel's work.
LEMMA KernelOutcome ==
  ASSUME build \in {"module", "intree"}, NEW c \in CallType, Good(c),
         c.way = "in", c.at > Len(Path(c.kind)), NEW d, KernelEffect(c, d), Shape(d)
  PROVE  Outcome(d)
<1> SUFFICES ASSUME Whole(d) PROVE Outcome(d) BY DEF Outcome
<1>1. d \in CallType /\ SameCall(c, d) /\ d.way = "out" /\ d.deny = c.deny
  BY DEF KernelEffect
<1>2. Shape(c) /\ Bound(c) /\ Blocked(c) /\ Spared(c) /\ LinkLocal(c) /\ Named(c) /\ Reported(c)
  BY DEF Good, Outcome, Whole, KernelEffect, SameCall
<1>3. c.kind \in Kinds /\ Len(Path(c.kind)) \in 1..3 BY <1>2, LayersDiffer DEF Shape, Path
<1>4. c.at = Len(Path(c.kind)) + 1 /\ d.at = Len(Path(c.kind))
  BY <1>2, <1>3 DEF Shape, KernelEffect
<1> DEFINE n == Len(Path(c.kind))
<1>n. c.at # 1
  <2>1. n \in 1..3 /\ c.at = n + 1 BY <1>3, <1>4
  <2> HIDE DEF n
  <2> QED BY <2>1
<1>5. d.kind = c.kind /\ d.under = c.under /\ d.elsewhere = c.elsewhere BY <1>1 DEF SameCall
<1>6. ~Settled(d) BY <1>1, <1>4, <1>5, NotYetSettled
<1>7. d.owned = 0 /\ d.counted = 0 /\ d.ret \in {"ok", "failed"} BY <1>2 DEF Shape, KernelEffect
<1>8. (d.ret = "ok" /\ d.value \in Found(c)) \/ (d.ret = "failed" /\ d.value = "none")
  BY <1>2 DEF Shape, KernelEffect
<1>b. Bound(d)
  <2>1. d.deny => d.kind = "bindll" BY <1>1, <1>2, <1>5 DEF Bound
  <2> QED BY <2>1, <1>6, <1>7 DEF Bound
<1>c. Blocked(d)
  <2> SUFFICES ASSUME c.kind = "connect", c.under = {"block"} PROVE Blocked(d)
    BY <1>5 DEF Blocked
  <2>2. build = "module" /\ "sys_connect" \notin registered BY <1>2, <1>n DEF Blocked
  <2> QED BY <2>2, <1>6, <1>7 DEF Blocked
<1>d. Spared(d) BY <1>7 DEF Spared
<1>e. LinkLocal(d)
  <2> SUFFICES ASSUME c.kind = "bindll", c.under = {"block"} PROVE LinkLocal(d)
    BY <1>5 DEF LinkLocal
  <2>2. build = "module" BY <1>2, <1>n DEF LinkLocal
  <2>3. Inside(c, 2) BY <2>2, <1>4, LayersTable DEF Inside, Path
  <2>4. "inet6_bind" \in registered => d.deny BY <2>2, <2>3, <1>1, <1>2 DEF LinkLocal
  <2> QED BY <2>2, <2>4, <1>6, <1>7 DEF LinkLocal
<1>f. Named(d) BY <1>7 DEF Named
<1>g. Reported(d)
  <2>1. c.elsewhere => c.kind \in Names BY <1>2 DEF Reported
  <2>4. c.elsewhere => Found(c) = {"none", "plain"} BY <2>1 DEF Found, Names, Receives
  <2>2. c.elsewhere => d.value # "vpn" BY <2>4, <1>8
  <2>3. d.ret # "ok" => d.value # "vpn" BY <1>8
  <2> QED BY <2>1, <2>2, <2>3, <1>5, <1>6, Zenon DEF Reported
<1> QED BY <1>b, <1>c, <1>d, <1>e, <1>f, <1>g DEF Outcome

\* The result reaches the application.
LEMMA FinishOutcome ==
  ASSUME NEW c \in CallType, Good(c), c.way = "out", c.at = 0, NEW d, FinishEffect(c, d)
  PROVE  Outcome(d)
<1> SUFFICES ASSUME Whole(d) PROVE Outcome(d) BY DEF Outcome
<1>1. d \in CallType /\ SameCall(c, d) /\ SameResult(c, d)
      /\ d.way = "done" /\ d.deny = c.deny /\ d.kept = c.kept
  BY DEF FinishEffect
<1>2. Shape(c) /\ Bound(c) /\ Blocked(c) /\ Spared(c) /\ LinkLocal(c) /\ Named(c) /\ Reported(c)
  BY DEF Good, Outcome, Whole, FinishEffect, SameCall
<1>3. d.kind = c.kind /\ d.under = c.under /\ d.elsewhere = c.elsewhere /\ d.covered = c.covered
      /\ d.short = c.short
  BY <1>1 DEF SameCall
<1>4. d.ret = c.ret /\ d.value = c.value /\ d.owned = c.owned /\ d.counted = c.counted
  BY <1>1 DEF SameResult
<1>5. Settled(d) <=> Settled(c)
  <2>1. c.kind \in Kinds /\ Len(Layers(c.kind)) \in 1..3 BY <1>2, LayersDiffer DEF Shape
  <2>2. \A i \in 1..Len(Layers(c.kind)) : Left(c, i) /\ Left(d, i) BY <2>1, <1>1 DEF Left
  <2>3. Left(c, 1) /\ Left(d, 1) BY <1>1 DEF Left
  <2> QED BY <2>2, <2>3, <1>3 DEF Settled
<1>b. Bound(d) BY <1>1, <1>2, <1>3, <1>4, <1>5 DEF Bound
<1>c. Blocked(d) BY <1>1, <1>2, <1>3, <1>4, <1>5 DEF Blocked
<1>d. Spared(d) BY <1>2, <1>3, <1>4 DEF Spared
<1>e. LinkLocal(d)
  <2>1. ~Inside(d, 2) BY <1>1 DEF Inside
  <2> QED BY <2>1, <1>1, <1>2, <1>3, <1>4, <1>5 DEF LinkLocal
<1>f. Named(d)
  <2>1. ~Inside(d, 1) BY <1>1 DEF Inside
  <2> QED BY <2>1, <1>1, <1>2, <1>3, <1>4 DEF Named
<1>g. Reported(d) BY <1>2, <1>3, <1>4, <1>5, Zenon DEF Reported
<1> QED BY <1>b, <1>c, <1>d, <1>e, <1>f, <1>g DEF Outcome

\* A new call.
LEMMA StartOutcome ==
  ASSUME NEW kind \in Kinds, NEW d, StartEffect(kind, d)
  PROVE  Outcome(d)
<1>1. ~Settled(d) BY StartShape, NotYetSettled DEF StartEffect
<1>2. /\ d.kind = kind /\ d.way = "in" /\ d.at = 1 /\ d.ret = "ok" /\ d.value = "none"
      /\ d.owned = 0 /\ d.counted = 0 /\ ~d.deny /\ (d.elsewhere => kind \in Names)
  BY DEF StartEffect
<1>3. ~Inside(d, 2) BY <1>2 DEF Inside
<1>b. Bound(d) BY <1>2 DEF Bound
<1>c. Blocked(d) BY <1>1, <1>2 DEF Blocked
<1>d. Spared(d) BY <1>2 DEF Spared
<1>e. LinkLocal(d) BY <1>1, <1>2, <1>3 DEF LinkLocal
<1>f. Named(d) BY <1>2 DEF Named
<1>g. Reported(d) BY <1>1, <1>2 DEF Reported
<1> QED BY <1>b, <1>c, <1>d, <1>e, <1>f, <1>g DEF Outcome

\* The hook before the kernel's work.
LEMMA PatchedInOutcome ==
  ASSUME NEW c \in CallType, Good(c), build = "intree", c.way = "in", c.at = 1,
         NEW d, PatchedIn(c, d), Shape(d)
  PROVE  Outcome(d)
<1> SUFFICES ASSUME Whole(d) PROVE Outcome(d) BY DEF Outcome
<1>1. d \in CallType /\ SameCall(c, d) /\ d.deny = c.deny /\ d.kept = c.kept BY DEF PatchedIn
<1>2. Shape(c) /\ Whole(c) /\ Bound(c) /\ Reported(c)
  BY DEF Good, Outcome, Whole, PatchedIn, SameCall
<1>3. d.kind = c.kind /\ d.under = c.under /\ d.elsewhere = c.elsewhere BY <1>1 DEF SameCall
<1>4. policy \in c.under BY <1>2 DEF Shape, Whole
<1>5. d.value = "none" /\ d.owned = 0 /\ c.counted = 0 /\ c.ret = "ok"
  BY <1>2, Zenon DEF PatchedIn, Shape
<1>6. IF Active /\ c.kind \in {"connect", "bindll"}
      THEN /\ d.way = "out" /\ d.counted = 1
           /\ d.ret = IF c.kind = "connect" THEN "ECONNREFUSED" ELSE "ENODEV"
      ELSE d.way = "in" /\ d.counted = 0 /\ d.ret = "ok"
  BY <1>5 DEF PatchedIn
<1>7. c.under = {"block"} => Active BY <1>4 DEF Active
<1>8. "block" \notin c.under => ~Active BY <1>4 DEF Active
<1>b. Bound(d) BY <1>1, <1>2, <1>3, <1>6 DEF Bound
<1>c. Blocked(d) BY <1>3, <1>6, <1>7 DEF Blocked
<1>d. Spared(d) BY <1>3, <1>6, <1>8 DEF Spared
<1>e. LinkLocal(d) BY <1>3, <1>5, <1>6, <1>7 DEF LinkLocal
<1>f. Named(d)
  <2>1. c.kind \in Names => c.kind \notin {"connect", "bindll"} BY DEF Names
  <2> QED BY <2>1, <1>3, <1>6 DEF Named
<1>g. Reported(d) BY <1>2, <1>3, <1>5 DEF Reported
<1> QED BY <1>b, <1>c, <1>d, <1>e, <1>f, <1>g DEF Outcome

\* The hook behind it.
LEMMA PatchedOutOutcome ==
  ASSUME NEW c \in CallType, Good(c), build = "intree", registered = {}, c.way = "out", c.at > 0,
         NEW d, PatchedOut(c, d)
  PROVE  Outcome(d)
<1> SUFFICES ASSUME Whole(d) PROVE Outcome(d) BY DEF Outcome
<1>1. /\ d \in CallType /\ SameCall(c, d) /\ d.deny = c.deny /\ d.kept = c.kept
      /\ d.way = "out" /\ d.at = 0
  BY DEF PatchedOut
<1>2. /\ Shape(c) /\ Whole(c)
      /\ Bound(c) /\ Blocked(c) /\ Spared(c) /\ LinkLocal(c) /\ Named(c) /\ Reported(c)
  BY DEF Good, Outcome, Whole, PatchedOut, SameCall
<1>3. d.kind = c.kind /\ d.under = c.under /\ d.elsewhere = c.elsewhere /\ d.covered = c.covered
  BY <1>1 DEF SameCall
<1>4. c.kind \in Kinds /\ c.at = 1 /\ c.kept = {}
  <2>1. Len(Path(c.kind)) = 1 BY DEF Path
  <2>2. c.kind \in Kinds /\ c.at \in 0 .. Len(Path(c.kind)) /\ c.kept \subseteq registered
    BY <1>2, Zenon DEF Shape
  <2>3. c.at = 1 BY <2>1, <2>2
  <2> QED BY <2>2, <2>3
<1>5. policy \in c.under /\ cover \in c.covered BY <1>2, Zenon DEF Shape, Whole
<1>6. ~Settled(c) /\ Inside(c, 1) BY <1>4 DEF Settled, Left, Inside
<1>7. Settled(d) /\ ~Inside(d, 1) BY <1>1 DEF Settled, Left, Inside
<1>8. c.under = {"block"} => Active BY <1>5 DEF Active
<1>b. Bound(d)
  <2>1. d.deny => d.kind = "bindll" BY <1>1, <1>2, <1>3 DEF Bound
  <2> SUFFICES ASSUME c.kind \in {"bind4", "bind6", "listen"}
               PROVE  d.owned = IF d.ret = "ok" THEN 1 ELSE 0
    BY <2>1, <1>3, <1>7 DEF Bound
  <2>2. c.owned = 0 BY <1>2, <1>6 DEF Bound
  <2>3. IF c.ret = "ok" THEN Recorded(c, d) ELSE SameResult(c, d) BY DEF PatchedOut, Binds
  <2> QED BY <2>2, <2>3 DEF Recorded, SameResult
<1>c. Blocked(d)
  <2>1. c.kind = "connect" => SameResult(c, d) BY DEF PatchedOut
  <2> QED BY <2>1, <1>1, <1>2, <1>3 DEF Blocked, SameResult
<1>d. Spared(d)
  <2>1. c.kind = "connect" => SameResult(c, d) BY DEF PatchedOut
  <2> QED BY <2>1, <1>2, <1>3 DEF Spared, SameResult
<1>e. LinkLocal(d)
  <2> SUFFICES ASSUME c.kind = "bindll", c.under = {"block"} PROVE LinkLocal(d)
    BY <1>3 DEF LinkLocal
  <2>1. c.ret = "ENODEV" /\ c.counted = 1 /\ c.owned = 0 BY <1>2 DEF LinkLocal
  <2>2. SameResult(c, d) BY <2>1 DEF PatchedOut, Binds
  <2> QED BY <2>1, <2>2, <1>1 DEF LinkLocal, SameResult
<1>f. Named(d)
  <2> SUFFICES ASSUME c.kind \in Names PROVE Named(d) BY <1>3 DEF Named
  <2>1. c.counted = 0 BY <1>2, <1>6 DEF Named
  <2>2. d.counted <= 1 BY <2>1 DEF PatchedOut, SameResult, Shown
  <2> QED BY <2>2, <1>1, <1>4, <1>7 DEF Named
<1>g. Reported(d)
  <2>1. c.elsewhere => c.kind \in Names /\ c.value # "vpn" BY <1>2 DEF Reported
  <2>2. c.kind \in Reports => d.ret = c.ret /\ (d.value = c.value \/ d.value # "vpn")
    BY DEF PatchedOut, SameResult, Shown, Reports
  <2>3. d.kind \in Reports /\ d.ret # "ok" => d.value # "vpn" BY <2>2, <1>2, <1>3 DEF Reported
  <2>4. Names \subseteq Reports BY DEF Reports
  <2>5. d.elsewhere => d.kind \in Names /\ d.value # "vpn" BY <2>1, <2>2, <2>4, <1>3
  <2>6. ASSUME c.kind \in Reports, c.under = {"block"}, c.kind \in Receives => c.covered = {TRUE}
        PROVE  d.value # "vpn"
    <3>1. Active BY <2>6, <1>8
    <3>2. CASE c.ret # "ok" BY <3>2, <2>2, <2>6, <1>2 DEF Reported
    <3>3. CASE c.ret = "ok" /\ c.kind \in Names
      BY <3>1, <3>3, <2>1, <2>2, <2>4 DEF PatchedOut, Shown
    <3>4. CASE c.ret = "ok" /\ c.kind \in Receives
      <4>1. cover = TRUE BY <3>4, <2>6, <1>5, Zenon
      <4>2. cover BY <4>1
      <4> QED BY <4>2, <3>1, <3>4 DEF PatchedOut, Shown, SameResult
    <3>5. CASE c.kind \in Options BY <3>1, <3>5 DEF PatchedOut, Shown
    <3> QED BY <3>2, <3>3, <3>4, <3>5, <2>6 DEF Reports
  <2> QED BY <2>3, <2>5, <2>6, <1>3, Zenon DEF Reported
<1> QED BY <1>b, <1>c, <1>d, <1>e, <1>f, <1>g DEF Outcome
-----------------------------------------------------------------------------
(* What the steps of the module and of other calls keep of a call.         *)

\* What is said about a call depends on the call, the build and the probes.
LEMMA CarryOutcome ==
  ASSUME NEW t \in Threads, NEW d, Watched(d), Outcome(d), call'[t] = d,
         UNCHANGED <<build, registered>>
  PROVE  Watched(call[t])' /\ Outcome(call[t])'
<1>2. Watched(call[t])' BY DEF Watched, Whole, Inside
<1>s. Settled(call[t])' <=> Settled(d) BY DEF Settled, Settles, Left
<1>w. Whole(call[t])' <=> Whole(d) BY DEF Whole
<1>3. Outcome(call[t])'
  <2> SUFFICES ASSUME Whole(d), d.way # "idle" PROVE Outcome(call[t])' BY <1>w DEF Outcome
  <2>0. Bound(d) /\ Blocked(d) /\ Spared(d) /\ LinkLocal(d) /\ Named(d) /\ Reported(d)
    BY DEF Outcome
  <2>1. Bound(call[t])' BY <2>0, <1>s DEF Bound
  <2>2. Blocked(call[t])' BY <2>0, <1>s DEF Blocked
  <2>3. Spared(call[t])' BY <2>0 DEF Spared
  <2>4. LinkLocal(call[t])' BY <2>0, <1>s DEF LinkLocal, Inside
  <2>5. Named(call[t])' BY <2>0 DEF Named, Inside
  <2>6. Reported(call[t])' BY <2>0, <1>s, Zenon DEF Reported
  <2> QED BY <2>1, <2>2, <2>3, <2>4, <2>5, <2>6 DEF Outcome
<1> QED BY <1>2, <1>3

\* A step of one call that leaves the module alone leads to a good call if the
\* call it leaves is good.
LEMMA Carry ==
  ASSUME NEW t \in Threads, NEW d, Good(d), call'[t] = d,
         UNCHANGED <<build, registered, phase, policy, cover>>
  PROVE  Good(call[t])'
<1>1. Shape(call[t])' BY DEF Good, Shape, Path, Inside
<1>2. Watched(call[t])' /\ Outcome(call[t])' BY CarryOutcome DEF Good
<1> QED BY <1>1, <1>2 DEF Good

\* While the module is not loaded no call is whole, and only its shape matters.
LEMMA CarryBroken ==
  ASSUME NEW t \in Threads, Shape(call[t])', ~call'[t].whole
  PROVE  Good(call[t])'
  BY DEF Good, Watched, Outcome, Whole

\* The call d is c after another policy or cover has been published.
Republished(c, d) ==
  /\ d \in CallType /\ d.kind = c.kind /\ d.at = c.at /\ d.way = c.way /\ d.ret = c.ret
  /\ d.value = c.value /\ d.short = c.short /\ d.elsewhere = c.elsewhere /\ d.kept = c.kept
  /\ d.deny = c.deny /\ d.misread = c.misread /\ d.owned = c.owned /\ d.counted = c.counted
  /\ d.whole = c.whole /\ d.missed = c.missed
  /\ c.under \subseteq d.under /\ c.covered \subseteq d.covered
  /\ c.way \notin {"in", "out"} => d.under = c.under /\ d.covered = c.covered

\* A policy that is published during a call takes the call out of those that
\* were blocked, or not blocked, all along.
LEMMA RepublishedOutcome ==
  ASSUME NEW c \in CallType, Good(c), NEW d, Republished(c, d)
  PROVE  Watched(d) /\ Outcome(d)
<1> SUFFICES ASSUME Whole(d) PROVE Watched(d) /\ Outcome(d) BY DEF Watched, Outcome
<1>1. Whole(c) /\ Shape(c) /\ Watched(c) /\ Outcome(c) BY DEF Good, Whole, Republished
<1>2. /\ d.under = {"block"} => c.under = {"block"} 
      /\ "block" \notin d.under => "block" \notin c.under
      /\ d.covered = {TRUE} => c.covered = {TRUE}
  <2>1. CASE c.way \notin {"in", "out"} BY <2>1, Zenon DEF Republished
  <2>2. CASE c.way \in {"in", "out"}
    <3>1. policy \in c.under /\ cover \in c.covered BY <2>2, <1>1 DEF Shape, Whole
    <3>2. c.under \subseteq d.under /\ c.covered \subseteq d.covered BY DEF Republished
    <3> QED BY <3>1, <3>2, Zenon
  <2> QED BY <2>1, <2>2, Zenon
<1>3. Settled(d) <=> Settled(c) BY DEF Settled, Left, Republished
<1>4. \A i : Inside(d, i) <=> Inside(c, i) BY DEF Inside, Republished
<1>5. Watched(d)
  <2>1. d.kind = c.kind /\ d.kept = c.kept BY DEF Republished
  <2> QED BY <2>1, <1>1, <1>2, <1>4 DEF Watched
<1>6. Outcome(d)
  <2>0. /\ d.kind = c.kind /\ d.at = c.at /\ d.way = c.way /\ d.ret = c.ret /\ d.value = c.value
        /\ d.short = c.short /\ d.elsewhere = c.elsewhere /\ d.kept = c.kept /\ d.deny = c.deny
        /\ d.owned = c.owned /\ d.counted = c.counted
    BY DEF Republished
  <2> SUFFICES ASSUME c.way # "idle" PROVE Outcome(d) BY <2>0 DEF Outcome
  <2>9. Bound(c) /\ Blocked(c) /\ Spared(c) /\ LinkLocal(c) /\ Named(c) /\ Reported(c)
    BY <1>1 DEF Outcome
  <2>1. Bound(d) BY <2>0, <2>9, <1>3 DEF Bound
  <2>2. Blocked(d) BY <2>0, <2>9, <1>2, <1>3 DEF Blocked
  <2>3. Spared(d) BY <2>0, <2>9, <1>2 DEF Spared
  <2>4. LinkLocal(d) BY <2>0, <2>9, <1>2, <1>3, <1>4 DEF LinkLocal
  <2>5. Named(d) BY <2>0, <2>9, <1>4 DEF Named
  <2>6. Reported(d) BY <2>0, <2>9, <1>2, <1>3, Zenon DEF Reported
  <2> QED BY <2>1, <2>2, <2>3, <2>4, <2>5, <2>6 DEF Outcome
<1> QED BY <1>5, <1>6

\* A step of vpnhide_exit: whatever a call loses of its handlers, it keeps its
\* place.
LEMMA UnloadedShape ==
  ASSUME NEW t \in Threads, Shape(call[t]), build' = build,
         call'[t].kind = call[t].kind, call'[t].at = call[t].at, call'[t].way = call[t].way,
         call'[t].ret = call[t].ret, call'[t].value = call[t].value,
         call'[t].owned = call[t].owned, call'[t].counted = call[t].counted,
         call'[t].misread = call[t].misread, call'[t].kept \subseteq call[t].kept,
         call'[t].kept \subseteq registered', ~call'[t].whole
  PROVE  Good(call[t])'
<1>1. Path(call[t].kind)' = Path(call[t].kind) BY Zenon DEF Path
<1>2. \A i : Inside(call[t], i)' <=> Inside(call[t], i) BY DEF Inside
<1>3. call'[t].misread \subseteq {"sock_common_getsockopt"} \cup {"sys_bind"} BY DEF Shape
<1>4. Shape(call[t])' BY <1>1, <1>2, <1>3 DEF Shape
<1> QED BY <1>4, CarryBroken
=============================================================================
