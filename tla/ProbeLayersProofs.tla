-------------------------- MODULE ProbeLayersProofs --------------------------
(***************************************************************************)
(* The invariant of the probe layers, and what follows from it.            *)
(***************************************************************************)
EXTENDS ProbeLayersCalls, FiniteSetTheorems

IInv ==
  /\ ModuleInv /\ Attachment
  /\ call \in [Threads -> CallType]
  /\ \A t \in Threads : Good(call[t])

\* The calls that hold a reference, and what a step does to them and to the
\* references: nothing, one is taken, one is dropped, or all of them are leaked.
Holders == {t \in Threads : Held(t)}

RefsMove ==
  leaked \in Int =>
    \/ refs' = refs /\ leaked' = leaked /\ Holders' = Holders
    \/ /\ refs' = refs + 1 /\ leaked' = leaked
       /\ \E t \in Threads \ Holders : Holders' = Holders \cup {t}
    \/ /\ refs' = refs - 1 /\ leaked' = leaked
       /\ \E t \in Holders : Holders' = Holders \ {t}
    \/ refs' = refs /\ leaked' = leaked + Cardinality(Holders) /\ Holders' = {}
-----------------------------------------------------------------------------
(* Every step keeps the invariant.                                         *)

\* Steps of calls leave the module's invariants alone.
LEMMA ModuleUnchanged ==
  ASSUME ModuleInv, Attachment, UNCHANGED <<build, refused, moduleVars, policyVars>>
  PROVE  ModuleInv' /\ Attachment'
<1>1. ModuleInv' BY DEF ModuleInv, moduleVars, policyVars
<1>2. Attachment' BY DEF Attachment, Seen, Attached, moduleVars
<1> QED BY <1>1, <1>2

HeldIn(c) == "sys_bind" \in c.kept /\ "sys_bind" \notin c.misread

\* A step of one call moves at most its own reference.
LEMMA RefsStep ==
  ASSUME call \in [Threads -> CallType],
         NEW t \in Threads, NEW d, call' = [call EXCEPT ![t] = d], leaked' = leaked,
         \/ refs' = refs /\ (HeldIn(d) <=> HeldIn(call[t]))
         \/ refs' = refs + 1 /\ HeldIn(d) /\ ~HeldIn(call[t])
         \/ refs' = refs - 1 /\ ~HeldIn(d) /\ HeldIn(call[t])
  PROVE  RefsMove
<1> DEFINE H == Holders
           G == Holders'
<1>1. call'[t] = d /\ \A u \in Threads \ {t} : call'[u] = call[u] OBVIOUS
<1>2. \A u \in Threads \ {t} : u \in G <=> u \in H BY <1>1 DEF Held, Holders
<1>3. (t \in H <=> HeldIn(call[t])) /\ (t \in G <=> HeldIn(d)) BY <1>1 DEF Held, HeldIn, Holders
<1>4. H \subseteq Threads /\ G \subseteq Threads BY DEF Holders
<1>5. HeldIn(d) <=> HeldIn(call[t]) => G = H BY <1>2, <1>3, <1>4
<1>6. HeldIn(d) /\ ~HeldIn(call[t]) => G = H \cup {t} /\ t \in Threads \ H
  BY <1>2, <1>3, <1>4
<1>7. ~HeldIn(d) /\ HeldIn(call[t]) => G = H \ {t} /\ t \in H BY <1>2, <1>3, <1>4
<1> QED BY <1>5, <1>6, <1>7 DEF RefsMove

\* A step of one call.
LEMMA CallStep ==
  ASSUME IInv, NEW t \in Threads, NEW d \in CallType, Good(d), call' = [call EXCEPT ![t] = d],
         UNCHANGED <<build, refused, moduleVars, policyVars, leaked>>,
         \/ refs' = refs /\ (HeldIn(d) <=> HeldIn(call[t]))
         \/ refs' = refs + 1 /\ HeldIn(d) /\ ~HeldIn(call[t])
         \/ refs' = refs - 1 /\ ~HeldIn(d) /\ HeldIn(call[t])
  PROVE  IInv' /\ RefsMove
<1>1. RefsMove BY RefsStep, Zenon DEF IInv
<1>2. ModuleInv' /\ Attachment' BY ModuleUnchanged DEF IInv
<1>3. call' \in [Threads -> CallType] BY DEF IInv
<1>4. ASSUME NEW u \in Threads PROVE Good(call[u])'
  <2>1. UNCHANGED <<build, registered, phase, policy, cover>> BY DEF moduleVars, policyVars
  <2>2. CASE u = t
    <3>1. call'[u] = d BY <2>2 DEF IInv
    <3> QED BY <3>1, <2>1, Carry
  <2>3. CASE u # t
    <3>1. call'[u] = call[u] BY <2>3 DEF IInv
    <3>2. Good(call[u]) BY DEF IInv
    <3> QED BY <3>1, <3>2, <2>1, Carry
  <2> QED BY <2>2, <2>3
<1> QED BY <1>1, <1>2, <1>3, <1>4 DEF IInv

\* The start of a call.
LEMMA StartStep ==
  ASSUME IInv, NEW t \in Threads, NEW kind \in Kinds, Start(t, kind)
  PROVE  IInv' /\ RefsMove
<1>1. PICK short \in (IF kind \in Names /\ build = "module" THEN BOOLEAN ELSE {FALSE}),
           elsewhere \in (IF kind \in Names /\ build = "intree" THEN BOOLEAN ELSE {FALSE}) :
        call' = [call EXCEPT ![t] = [NoCall EXCEPT !.kind = kind, !.at = 1, !.way = "in",
                   !.short = short, !.elsewhere = elsewhere, !.under = {policy},
                   !.covered = {cover}, !.whole = (phase = "loaded")]]
  BY Zenon DEF Start
<1> DEFINE d == [NoCall EXCEPT !.kind = kind, !.at = 1, !.way = "in",
                   !.short = short, !.elsewhere = elsewhere, !.under = {policy},
                   !.covered = {cover}, !.whole = (phase = "loaded")]
<1>2. short \in BOOLEAN /\ elsewhere \in BOOLEAN /\ (elsewhere => kind \in Names) BY <1>1, Zenon
<1>3. StartEffect(kind, d) BY <1>2, StartEffects, Zenon DEF IInv
<1>4. call' = [call EXCEPT ![t] = d] BY <1>1
<1> HIDE DEF d
<1>5. Good(d) BY <1>3, StartShape, StartWatched, StartOutcome DEF Good
<1>6. d \in CallType /\ ~HeldIn(d) BY <1>3 DEF StartEffect, HeldIn
<1>7. call[t].way \in {"idle", "done"} /\ UNCHANGED <<build, refused, moduleVars, policyVars, refs, leaked>>
  BY DEF Start
<1>8. Shape(call[t]) BY DEF IInv, Good
<1>9. ~HeldIn(call[t]) BY <1>7, <1>8 DEF Shape, HeldIn
<1> QED BY <1>4, <1>5, <1>6, <1>7, <1>9, CallStep, Zenon

\* Entering a function.
LEMMA EnterStep ==
  ASSUME IInv, NEW t \in Threads, Enter(t)
  PROVE  IInv' /\ RefsMove
<1> DEFINE c == call[t]
           f == Path(c.kind)[c.at]
           e == AfterEntry(c, f)
<1>1. /\ build = "module" /\ c.way = "in" /\ c.at <= Len(Path(c.kind))
      /\ UNCHANGED <<build, refused, moduleVars, policyVars, leaked>>
  BY DEF Enter
<1>2. c \in CallType /\ Good(c) /\ Shape(c) BY DEF IInv, Good
<1>3. ModuleInv /\ Attachment BY DEF IInv
<1>4. Path(c.kind) = Layers(c.kind) /\ f = Layers(c.kind)[c.at] BY <1>1 DEF Path
<1>5. c.kind \in Kinds /\ c.at \in 1..Len(Layers(c.kind)) /\ f \in Functions
  BY <1>1, <1>2, <1>4, LayersDiffer DEF Shape
<1>6. SUFFICES ASSUME NEW d, call' = [call EXCEPT ![t] = d], EnterEffect(c, f, d),
                      \/ refs' = refs /\ (HeldIn(d) <=> HeldIn(c))
                      \/ refs' = refs + 1 /\ HeldIn(d) /\ ~HeldIn(c)
               PROVE  IInv' /\ RefsMove
  <2>1. CASE f \notin registered
    <3>1. call' = [call EXCEPT ![t] = Onward(c)] /\ refs' = refs BY <2>1 DEF Enter
    <3>2. Moved(c, Onward(c)) /\ Onward(c).missed = c.missed BY <1>1, <1>2, MovedOn, Zenon
    <3>3. HeldIn(Onward(c)) <=> HeldIn(c) BY <3>2 DEF HeldIn, Moved
    <3>4. EnterEffect(c, f, Onward(c)) BY <3>2, <2>1 DEF EnterEffect
    <3> QED BY <3>1, <3>3, <3>4, <1>6, Zenon
  <2>2. CASE f \in registered /\ Cardinality(Users(f)) >= MaxActive
    <3> DEFINE d == [Onward(c) EXCEPT !.missed = TRUE]
    <3>1. call' = [call EXCEPT ![t] = d] /\ refs' = refs BY <2>2 DEF Enter
    <3>2. Moved(c, d) /\ d.missed BY <1>1, <1>2, MovedOn
    <3> HIDE DEF d
    <3>3. HeldIn(d) <=> HeldIn(c) BY <3>2 DEF HeldIn, Moved
    <3>4. EnterEffect(c, f, d) BY <3>2 DEF EnterEffect
    <3> QED BY <3>1, <3>3, <3>4, <1>6, Zenon
  <2>3. CASE f \in registered /\ ~(Cardinality(Users(f)) >= MaxActive)
    <3> DEFINE d == Onward(e)
    <3>1. /\ call' = [call EXCEPT ![t] = d]
          /\ refs' = IF f = "sys_bind" /\ f \notin e.misread THEN refs + 1 ELSE refs
      BY <2>3 DEF Enter
    <3>2. Active \in BOOLEAN /\ wrapper.connect \in BOOLEAN /\ wrapper.bind \in BOOLEAN
      BY <1>3 DEF ModuleInv, Active
    <3>3. EntryEffect(c, f, d) BY <3>2, <1>1, <1>2, <1>5, EntryEffects
    <3>4. d.misread = e.misread BY DEF Onward
    <3> HIDE DEF d, e, f
    <3>5. CASE f = "sys_bind"
      <4>1. c.at = 1 BY <3>5, <1>4, <1>5, SysBindOf
      <4>2. c.kept = {} /\ c.misread = {} BY <4>1, <1>1, <1>2 DEF Shape
      <4>3. "sys_bind" \in d.kept BY <3>3, <3>5 DEF EntryEffect, Always
      <4>4. HeldIn(d) <=> "sys_bind" \notin e.misread BY <4>3, <3>4 DEF HeldIn
      <4>5. ~HeldIn(c) BY <4>2 DEF HeldIn
      <4>6. EnterEffect(c, f, d) BY <3>3, <2>3 DEF EnterEffect
      <4> QED BY <4>4, <4>5, <4>6, <3>1, <3>5, <1>6, Zenon
    <3>6. CASE f # "sys_bind"
      <4>1. "sys_bind" \in d.kept <=> "sys_bind" \in c.kept BY <3>3, <3>6 DEF EntryEffect
      <4>2. "sys_bind" \in d.misread <=> "sys_bind" \in c.misread BY <3>3, <3>6 DEF EntryEffect
      <4>3. HeldIn(d) <=> HeldIn(c) BY <4>1, <4>2 DEF HeldIn
      <4>4. EnterEffect(c, f, d) BY <3>3, <2>3 DEF EnterEffect
      <4> QED BY <4>3, <4>4, <3>1, <3>6, <1>6, Zenon
    <3> QED BY <3>5, <3>6
  <2> QED BY <2>1, <2>2, <2>3
<1>7. d \in CallType BY <1>6 DEF EnterEffect, Moved, EntryEffect
<1>8. Shape(d) BY <1>1, <1>2, <1>3, <1>4, <1>6, EnterShape
<1>9. Watched(d) BY <1>1, <1>2, <1>4, <1>6, EnterWatched DEF Good
<1>10. Outcome(d) BY <1>1, <1>2, <1>3, <1>4, <1>6, <1>8, EnterOutcome
<1>11. Good(d) BY <1>8, <1>9, <1>10 DEF Good
<1> QED BY <1>1, <1>6, <1>7, <1>11, CallStep, Zenon

\* The kernel's work.
LEMMA KernelStep ==
  ASSUME IInv, NEW t \in Threads, Kernel(t)
  PROVE  IInv' /\ RefsMove
<1> DEFINE c == call[t]
<1>1. /\ c.way = "in" /\ c.at > Len(Path(c.kind))
      /\ UNCHANGED <<build, refused, moduleVars, policyVars, refs, leaked>>
  BY Zenon DEF Kernel
<1>2. c \in CallType /\ Good(c) /\ Shape(c) /\ Watched(c) BY DEF IInv, Good
<1>3. c.at > 0 BY <1>1, <1>2 DEF Shape
<1>4. PICK d : call' = [call EXCEPT ![t] = d] /\ KernelEffect(c, d)
  <2>1. CASE \E v \in Found(c) :
               call' = [call EXCEPT ![t] = [Turn(c, "ok") EXCEPT !.at = @ - 1, !.value = v]]
    BY <2>1, <1>2, <1>3, KernelEffects, Zenon
  <2>2. CASE call' = [call EXCEPT ![t] = [Turn(c, "failed") EXCEPT !.at = @ - 1]]
    BY <2>2, <1>2, <1>3, KernelEffects, Zenon
  <2> QED BY <2>1, <2>2, Zenon DEF Kernel
<1>5. d \in CallType BY <1>4 DEF KernelEffect
<1>6. Shape(d) BY <1>1, <1>2, <1>4, OutShape
<1>7. Watched(d) BY <1>1, <1>2, <1>4, OutWatched
<1>8. Outcome(d)
  <2>1. build \in {"module", "intree"} BY DEF IInv, ModuleInv
  <2> QED BY <2>1, <1>1, <1>2, <1>4, <1>6, KernelOutcome
<1>9. Good(d) BY <1>6, <1>7, <1>8 DEF Good
<1>10. HeldIn(d) <=> HeldIn(c) BY <1>4 DEF KernelEffect, HeldIn
<1> QED BY <1>1, <1>4, <1>5, <1>9, <1>10, CallStep, Zenon

\* Leaving a function.
LEMMA LeaveStep ==
  ASSUME IInv, NEW t \in Threads, Leave(t)
  PROVE  IInv' /\ RefsMove
<1> DEFINE c == call[t]
           f == Path(c.kind)[c.at]
<1>1. /\ build = "module" /\ c.way = "out" /\ c.at > 0
      /\ UNCHANGED <<build, refused, moduleVars, policyVars, leaked>>
      /\ refs' = IF Drops(c, f) THEN refs - 1 ELSE refs
  BY DEF Leave
<1>2. c \in CallType /\ Good(c) /\ Shape(c) /\ Watched(c) BY DEF IInv, Good
<1>3. ModuleInv /\ Attachment BY DEF IInv
<1>4. f = Layers(c.kind)[c.at] /\ c.kind \in Kinds /\ c.at \in 1..Len(Layers(c.kind))
  <2>1. Path(c.kind) = Layers(c.kind) BY <1>1 DEF Path
  <2>2. c.kind \in Kinds BY <1>1, <1>2 DEF Shape
  <2> QED BY <2>1, <2>2, <1>1, <1>2, LayersDiffer DEF Shape
<1>5. PICK e \in (IF f \in c.kept THEN AfterReturn(c, f) ELSE {c}) :
        call' = [call EXCEPT ![t] = [e EXCEPT !.at = @ - 1, !.kept = @ \ {f}]]
  BY Zenon DEF Leave
<1> DEFINE d == [e EXCEPT !.at = @ - 1, !.kept = @ \ {f}]
<1>6. call' = [call EXCEPT ![t] = d] BY <1>5
<1> HIDE DEF f
<1>7. LeaveEffect(c, f, d) BY <1>1, <1>2, <1>4, <1>5, LeaveEffects, Zenon
<1> HIDE DEF d
<1>8. d \in CallType BY <1>7 DEF LeaveEffect
<1>9. Shape(d) BY <1>1, <1>2, <1>4, <1>7, OutShape
<1>10. Watched(d) BY <1>1, <1>2, <1>4, <1>7, OutWatched
<1>11. Outcome(d) BY <1>1, <1>2, <1>3, <1>4, <1>7, LeaveOutcome
<1>12. Good(d) BY <1>9, <1>10, <1>11 DEF Good
<1>13. IF Drops(c, f) THEN HeldIn(c) /\ ~HeldIn(d) ELSE HeldIn(d) <=> HeldIn(c)
  <2>1. d.kept = c.kept \ {f} /\ d.misread = c.misread BY <1>7 DEF LeaveEffect
  <2> QED BY <2>1 DEF Drops, HeldIn
<1> QED BY <1>1, <1>6, <1>8, <1>12, <1>13, CallStep, Zenon

\* The end of a call.
LEMMA FinishStep ==
  ASSUME IInv, NEW t \in Threads, Finish(t)
  PROVE  IInv' /\ RefsMove
<1> DEFINE c == call[t]
           d == [c EXCEPT !.way = "done"]
<1>1. /\ c.way = "out" /\ c.at = 0 /\ call' = [call EXCEPT ![t] = d]
      /\ UNCHANGED <<build, refused, moduleVars, policyVars, refs, leaked>>
  BY DEF Finish
<1>2. c \in CallType /\ Good(c) /\ Shape(c) /\ Watched(c) BY DEF IInv, Good
<1>3. FinishEffect(c, d) BY <1>2, FinishEffects
<1> HIDE DEF d
<1>4. d \in CallType BY <1>3 DEF FinishEffect
<1>5. Shape(d) BY <1>1, <1>2, <1>3, OutShape
<1>6. Watched(d) BY <1>1, <1>2, <1>3, OutWatched
<1>7. Outcome(d) BY <1>1, <1>2, <1>3, FinishOutcome
<1>8. Good(d) BY <1>5, <1>6, <1>7 DEF Good
<1>9. HeldIn(d) <=> HeldIn(c) BY <1>3 DEF FinishEffect, HeldIn
<1> QED BY <1>1, <1>4, <1>8, <1>9, CallStep, Zenon

\* The hooks of the in-tree build.
LEMMA PatchedStep ==
  ASSUME IInv, NEW t \in Threads, EnterPatched(t) \/ LeavePatched(t)
  PROVE  IInv' /\ RefsMove
<1> DEFINE c == call[t]
<1>1. /\ build = "intree" /\ UNCHANGED <<build, refused, moduleVars, policyVars, refs, leaked>>
  BY DEF EnterPatched, LeavePatched
<1>2. c \in CallType /\ Good(c) /\ Shape(c) BY DEF IInv, Good
<1>3. registered = {} BY <1>1 DEF IInv, Attachment
<1>4. PICK d : /\ call' = [call EXCEPT ![t] = d]
               /\ \/ c.way = "in" /\ c.at = 1 /\ PatchedIn(c, d)
                  \/ c.way = "out" /\ c.at > 0 /\ PatchedOut(c, d)
  <2>1. CASE EnterPatched(t)
    <3>1. c.way = "in" /\ c.at = 1 /\ call' = [call EXCEPT ![t] = Onward(Before(c))]
      BY <2>1 DEF EnterPatched
    <3>2. PatchedIn(c, Onward(Before(c))) BY <3>1, <1>2, PatchedInEffects DEF Shape
    <3> QED BY <3>1, <3>2, Zenon
  <2>2. CASE LeavePatched(t)
    <3>1. c.way = "out" /\ c.at > 0 /\ call' = [call EXCEPT ![t] = [After(c) EXCEPT !.at = 0]]
      BY <2>2 DEF LeavePatched
    <3>2. PatchedOut(c, [After(c) EXCEPT !.at = 0]) BY <3>1, <1>2, PatchedOutEffects DEF Shape
    <3> QED BY <3>1, <3>2, Zenon
  <2> QED BY <2>1, <2>2
<1>5. d \in CallType BY <1>4 DEF PatchedIn, PatchedOut
<1>6. Shape(d) BY <1>1, <1>2, <1>3, <1>4, PatchedShape
<1>7. Watched(d) BY <1>1 DEF Watched
<1>8. Outcome(d) BY <1>1, <1>2, <1>3, <1>4, <1>6, PatchedInOutcome, PatchedOutOutcome
<1>9. Good(d) BY <1>6, <1>7, <1>8 DEF Good
<1>10. HeldIn(d) <=> HeldIn(c) BY <1>4 DEF PatchedIn, PatchedOut, HeldIn
<1> QED BY <1>1, <1>4, <1>5, <1>9, <1>10, CallStep, Zenon

\* A step of vpnhide_init: calls in progress are not whole.
LEMMA LoadStep ==
  ASSUME IInv, phase # "loaded", UNCHANGED <<build, call, refs, leaked>>,
         registered \subseteq registered', ModuleInv', Attachment'
  PROVE  IInv' /\ RefsMove
<1>1. ASSUME NEW t \in Threads PROVE Good(call[t])'
  <2>1. Shape(call[t]) BY DEF IInv, Good
  <2>2. ~call[t].whole BY <2>1 DEF Shape
  <2>3. Shape(call[t])' BY <2>1, <2>2 DEF Shape, Path, Inside
  <2> QED BY <2>2, <2>3, CarryBroken
<1>2. RefsMove BY DEF RefsMove, Holders, Held
<1> QED BY <1>1, <1>2 DEF IInv

\* A probe that is registered is one that should be.
LEMMA RegisterAttaches ==
  ASSUME ModuleInv, Attachment, RegisterProbe
  PROVE  Attachment' /\ registered \subseteq registered'
<1>1. /\ phase = "loading" /\ build' = build /\ refused' = refused
      /\ registered \subseteq registered'
  BY DEF RegisterProbe
<1>2. build = "module" /\ next \in Nat \ {0} /\ registered \subseteq Functions
  BY <1>1 DEF ModuleInv, Attachment
<1>3. \A i \in 1..Len(Probes) :
        Probes[i].f \in registered <=> i < next /\ Attached(Probes[i])
  BY <1>1, <1>2 DEF Attachment, Seen
<1>4. \A i \in 1..Len(Probes) : Attached(Probes[i])' <=> Attached(Probes[i])
  BY <1>1 DEF Attached, Probes
<1>5. Len(Probes) = 16 BY ProbesLength
<1>6. CASE next > Len(Probes)
  <2>1. phase' = "flags" /\ next' = next /\ registered' = registered BY <1>6 DEF RegisterProbe
  <2>2. \A i \in 1..Len(Probes) : i < next BY <1>2, <1>5, <1>6
  <2>3. \A i \in 1..Len(Probes) : Seen(i)' BY <2>1 DEF Seen
  <2>4. \A i \in 1..Len(Probes) :
          Probes[i].f \in registered' <=> Seen(i)' /\ Attached(Probes[i])'
    BY <1>3, <1>4, <2>1, <2>2, <2>3
  <2> QED BY <1>1, <1>2, <2>1, <2>4 DEF Attachment
<1>7. CASE ~(next > Len(Probes))
  <2>1. /\ phase' = phase /\ next' = next + 1
        /\ registered' = registered \cup
             IF Registers(Probes[next]) THEN {Probes[next].f} ELSE {}
    BY <1>7 DEF RegisterProbe
  <2>2. next \in 1..Len(Probes) BY <1>2, <1>5, <1>7
  <2>3. Registers(Probes[next]) <=> Attached(Probes[next])
    <3> DEFINE p == Probes[next]
    <3>1. CASE p.primary \in {"none", p.f}
      <4>1. "none" \notin registered BY <1>2, FunctionsList
      <4>2. p.f \notin registered BY <1>2, <1>3, <2>2
      <4>3. p.primary \notin registered BY <4>1, <4>2, <3>1
      <4> QED BY <4>3, <3>1 DEF Registers, Attached
    <3>2. CASE p.primary \notin {"none", p.f}
      <4>1. PICK j \in 1..Len(Probes) :
              /\ j < next /\ Probes[j].f = p.primary
              /\ Probes[j].primary \in {"none", Probes[j].f}
        BY <2>2, <3>2, PrimariesFirst
      <4>2. p.primary \in registered <=> Attached(Probes[j]) BY <4>1, <1>3
      <4>3. Attached(Probes[j]) <=> p.primary \notin refused BY <4>1 DEF Attached
      <4> HIDE DEF p
      <4> QED BY <4>2, <4>3, <3>2 DEF Registers, Attached, p
    <3> QED BY <3>1, <3>2
  <2>4. ASSUME NEW i \in 1..Len(Probes)
        PROVE  Probes[i].f \in registered' <=> Seen(i)' /\ Attached(Probes[i])'
    <3>1. Seen(i)' <=> i < next + 1 BY <1>1, <2>1 DEF Seen
    <3>2. CASE i = next
      <4>1. i < next + 1 /\ ~(i < next) BY <3>2, <1>2
      <4>2. Probes[i].f \notin registered BY <4>1, <1>3
      <4>3. Probes[i].f \in registered' <=> Registers(Probes[i]) BY <4>2, <3>2, <2>1
      <4> QED BY <4>1, <4>3, <3>1, <3>2, <2>3, <1>4
    <3>3. CASE i # next
      <4>1. Probes[i].f # Probes[next].f BY <3>3, <2>2, ProbesDiffer
      <4>2. Probes[i].f \in registered' <=> Probes[i].f \in registered BY <4>1, <2>1
      <4>3. i < next + 1 <=> i < next BY <3>3, <1>2
      <4> QED BY <4>2, <4>3, <3>1, <1>3, <1>4
    <3> QED BY <3>2, <3>3
  <2>5. registered' \subseteq Functions
    <3>1. Probes[next].f \in Functions BY <2>2 DEF Functions
    <3> QED BY <3>1, <2>1, <1>2
  <2>6. next' \in Nat \ {0} BY <2>1, <1>2
  <2> QED BY <2>1, <2>4, <2>5, <2>6, <1>1, <1>2 DEF Attachment
<1> QED BY <1>1, <1>6, <1>7

\* vpnhide_init.
LEMMA LoadSteps ==
  ASSUME IInv, Load
  PROVE  IInv' /\ RefsMove
<1>0. ModuleInv /\ Attachment BY DEF IInv
<1>1. CASE AllocateTable
  <2>1. ModuleInv' BY <1>0, <1>1, Zenon DEF AllocateTable, ModuleInv, policyVars
  <2>2. Attachment'
    <3>1. registered' = {} /\ next' = 1 /\ phase' \in {"loading", "gone"}
      BY <1>0, <1>1 DEF AllocateTable, Attachment
    <3>2. \A i \in 1..Len(Probes) : ~Seen(i)' BY <3>1, ProbesLength DEF Seen
    <3> QED BY <3>1, <3>2 DEF Attachment
  <2> QED BY <1>1, <2>1, <2>2, LoadStep DEF AllocateTable
<1>2. CASE RegisterProbe
  <2>1. Attachment' /\ registered \subseteq registered' BY <1>0, <1>2, RegisterAttaches
  <2>2. ModuleInv' BY <1>0, <1>2 DEF RegisterProbe, ModuleInv, policyVars
  <2> QED BY <1>2, <2>1, <2>2, LoadStep DEF RegisterProbe
<1>3. CASE SetFlags
  <2>w. /\ wrapper' \in [connect : BOOLEAN, bind : BOOLEAN]
        /\ wrapper'.connect <=> "sys_connect" \in registered
        /\ wrapper'.bind <=> "sys_bind" \in registered
    <3> DEFINE a == "sys_connect" \in registered
               b == "sys_bind" \in registered
    <3>1. wrapper' = [connect |-> a, bind |-> b] BY <1>3 DEF SetFlags
    <3>2. a \in BOOLEAN /\ b \in BOOLEAN OBVIOUS
    <3> HIDE DEF a, b
    <3>3. wrapper' \in [connect : BOOLEAN, bind : BOOLEAN] BY <3>1, <3>2
    <3>4. wrapper'.connect = a /\ wrapper'.bind = b BY <3>1
    <3> QED BY <3>3, <3>4 DEF a, b
  <2>1. ModuleInv'
    BY <1>0, <1>3, <2>w, Zenon DEF SetFlags, ModuleInv, policyVars
  <2>2. Attachment' BY <1>0, <1>3 DEF SetFlags, Attachment, Seen, Attached
  <2> QED BY <1>3, <2>1, <2>2, LoadStep DEF SetFlags
<1>4. CASE RegisterDevice
  <2>1. ModuleInv' BY <1>0, <1>4 DEF RegisterDevice, ModuleInv, policyVars
  <2>2. Attachment' BY <1>0, <1>4 DEF RegisterDevice, Attachment, Seen, Attached
  <2> QED BY <1>4, <2>1, <2>2, LoadStep DEF RegisterDevice
<1>5. CASE vpnhide_init
  <2>3. /\ UNCHANGED <<build, refused, registered, wrapper, policy, cover, refs, leaked>>
        /\ build = "intree" /\ phase = "new" /\ phase' \in {"loaded", "gone"}
    BY <1>5 DEF vpnhide_init, policyVars
  <2>4. device' \in BOOLEAN /\ table' \in BOOLEAN /\ (device' => table')
    <3>1. device \in BOOLEAN /\ table \in BOOLEAN /\ (device => table) BY <1>0 DEF ModuleInv
    <3>2. CASE phase' = "loaded" /\ table' = TRUE /\ device' = TRUE BY <3>2, Zenon
    <3>3. CASE phase' = "gone" /\ UNCHANGED <<table, device>> BY <3>1, <3>3
    <3> QED BY <1>5, <3>2, <3>3, Zenon DEF vpnhide_init
  <2>5. policy = "none" BY <1>0, <2>3 DEF ModuleInv
  <2>1. ModuleInv' BY <1>0, <2>3, <2>4, <2>5 DEF ModuleInv
  <2>2. Attachment' BY <1>0, <1>5 DEF vpnhide_init, Attachment, Seen, Attached
  <2> QED BY <1>5, <2>1, <2>2, LoadStep DEF vpnhide_init
<1> QED BY <1>1, <1>2, <1>3, <1>4, <1>5 DEF Load

\* A policy and a cover are published.
LEMMA PublishStep ==
  ASSUME IInv, Publish
  PROVE  IInv' /\ RefsMove
<1>1. /\ device /\ phase = "loaded" /\ policy' \in {"open", "block"} /\ cover' \in BOOLEAN
      /\ UNCHANGED <<build, refused, moduleVars, refs, leaked>>
      /\ call' = [t \in Threads |-> IF Running(t)
                THEN [call[t] EXCEPT !.under = @ \cup {policy'}, !.covered = @ \cup {cover'}]
                ELSE call[t]]
  BY Zenon DEF Publish
<1>2. UNCHANGED <<phase, next, registered, wrapper, device, table>> BY <1>1, Zenon DEF moduleVars
<1>3. ModuleInv' BY <1>1, <1>2, Zenon DEF IInv, ModuleInv
<1>4. Attachment' BY <1>1, <1>2, Zenon DEF IInv, Attachment, Seen, Attached
<1>5. ASSUME NEW t \in Threads
      PROVE  /\ Republished(call[t], call'[t])
             /\ call[t].way \in {"in", "out"} =>
                  policy' \in call'[t].under /\ cover' \in call'[t].covered
  <2>1. call[t] \in CallType BY DEF IInv
  <2>2. CASE Running(t)
    <3> DEFINE c == call[t]
               p == c.under \cup {policy'}
               v == c.covered \cup {cover'}
               d == [c EXCEPT !.under = p, !.covered = v]
    <3>1. call'[t] = d BY <1>1, <2>2, Zenon
    <3>2. p \in SUBSET {"none", "open", "block"} /\ v \in SUBSET BOOLEAN
      <4>1. c.under \subseteq {"none", "open", "block"} /\ c.covered \subseteq BOOLEAN
        BY <2>1 DEF CallType
      <4> QED BY <4>1, <1>1, Zenon
    <3>3. c.under \subseteq p /\ c.covered \subseteq v /\ policy' \in p /\ cover' \in v OBVIOUS
    <3> HIDE DEF p, v
    <3>4. d \in CallType BY <2>1, <3>2, Zenon DEF CallType
    <3>5. Republished(c, d) /\ d.under = p /\ d.covered = v
      BY <2>1, <2>2, <3>2, <3>3, <3>4 DEF Republished, CallType, Running
    <3> QED BY <3>1, <3>3, <3>5
  <2>3. CASE ~Running(t)
    <3>1. call'[t] = call[t] BY <1>1, <2>3, Zenon
    <3> QED BY <2>1, <2>3, <3>1 DEF Republished, Running
  <2> QED BY <2>2, <2>3
<1>6. call' \in [Threads -> CallType]
  <2>1. \A t \in Threads : call'[t] \in CallType BY <1>5 DEF Republished
  <2>2. call' = [t \in Threads |-> call'[t]] BY <1>1, Zenon
  <2> QED BY <2>1, <2>2
<1>7. ASSUME NEW t \in Threads PROVE Good(call[t])'
  <2>1. call[t] \in CallType /\ Good(call[t]) /\ Shape(call[t]) BY DEF IInv, Good
  <2> DEFINE d == call'[t]
  <2>2. Watched(d) /\ Outcome(d) BY <1>5, <2>1, RepublishedOutcome
  <2>3. Watched(call[t])' /\ Outcome(call[t])'
    <3>1. \A e : e = call'[t] /\ Watched(e) /\ Outcome(e) => Watched(call[t])' /\ Outcome(call[t])'
      BY <1>1, <1>2, CarryOutcome, Zenon
    <3> QED BY <3>1, <2>2
  <2>4. Shape(call[t])'
    <3> DEFINE c == call[t]
    <3>1. /\ d.kind = c.kind /\ d.at = c.at /\ d.way = c.way /\ d.ret = c.ret /\ d.value = c.value
          /\ d.kept = c.kept /\ d.misread = c.misread /\ d.owned = c.owned
          /\ d.counted = c.counted /\ d.whole = c.whole
      BY <1>5 DEF Republished
    <3>2. call'[t].kind = call[t].kind /\ build' = build BY <3>1, <1>1, Zenon
    <3>3. Path(call[t].kind)' = Path(call[t].kind) BY <3>2, Zenon DEF Path
    <3>4. \A i : Inside(call[t], i)' <=> Inside(c, i) BY <3>1 DEF Inside
    <3>5. c.way \in {"in", "out"} => policy' \in d.under /\ cover' \in d.covered BY <1>5
    <3> QED BY <3>1, <3>3, <3>4, <3>5, <2>1, <1>2 DEF Shape
  <2> QED BY <2>3, <2>4 DEF Good
<1>8. RefsMove
  <2>1. \A t \in Threads : Held(t)' <=> Held(t) BY <1>5 DEF Held, Republished
  <2>2. Holders' = Holders BY <2>1 DEF Holders
  <2> QED BY <1>1, <2>2, Zenon DEF RefsMove
<1> QED BY <1>3, <1>4, <1>6, <1>7, <1>8 DEF IInv

\* vpnhide_exit begins.
LEMMA UnloadStep ==
  ASSUME IInv, Unload
  PROVE  IInv' /\ RefsMove
<1>1. /\ build = "module" /\ phase = "loaded" /\ phase' = "unloading" /\ next' = 1
      /\ call' = [t \in Threads |-> [call[t] EXCEPT !.whole = FALSE]]
      /\ UNCHANGED <<build, refused, registered, wrapper, device, table, policy, cover, refs, leaked>>
  BY DEF Unload, policyVars
<1>2. ModuleInv' BY <1>1 DEF IInv, ModuleInv
<1>3. Attachment' BY <1>1 DEF IInv, Attachment
<1>4. ASSUME NEW t \in Threads
      PROVE  /\ call'[t] \in CallType /\ ~call'[t].whole
             /\ call'[t].kind = call[t].kind /\ call'[t].at = call[t].at
             /\ call'[t].way = call[t].way /\ call'[t].ret = call[t].ret
             /\ call'[t].value = call[t].value /\ call'[t].owned = call[t].owned
             /\ call'[t].counted = call[t].counted /\ call'[t].misread = call[t].misread
             /\ call'[t].kept = call[t].kept
  <2> DEFINE c == call[t]
             d == [c EXCEPT !.whole = FALSE]
  <2>1. c \in CallType /\ call'[t] = d BY <1>1 DEF IInv
  <2>2. d \in CallType BY <2>1, Zenon DEF CallType
  <2> HIDE DEF c
  <2>3. /\ ~d.whole /\ d.kind = c.kind /\ d.at = c.at /\ d.way = c.way /\ d.ret = c.ret
        /\ d.value = c.value /\ d.owned = c.owned /\ d.counted = c.counted
        /\ d.misread = c.misread /\ d.kept = c.kept
    BY <2>1 DEF CallType
  <2> QED BY <2>1, <2>2, <2>3 DEF c
<1>5. call' \in [Threads -> CallType]
  <2>1. call' = [t \in Threads |-> call'[t]] BY <1>1
  <2> QED BY <2>1, <1>4
<1>6. ASSUME NEW t \in Threads PROVE Good(call[t])'
  <2>1. Shape(call[t]) BY DEF IInv, Good
  <2>2. call[t].kept \subseteq registered' BY <2>1, <1>1 DEF Shape
  <2> QED BY <2>1, <2>2, <1>1, <1>4, UnloadedShape
<1>7. RefsMove
  <2>1. \A t \in Threads : Held(t)' <=> Held(t) BY <1>4 DEF Held
  <2>2. Holders' = Holders BY <2>1 DEF Holders
  <2> QED BY <1>1, <2>2 DEF RefsMove
<1> QED BY <1>2, <1>3, <1>5, <1>6, <1>7 DEF IInv

\* A probe is unregistered: the references of the binds inside are leaked.
LEMMA UnregisterStep ==
  ASSUME IInv, UnregisterProbe
  PROVE  IInv' /\ RefsMove
<1> DEFINE f == Probes[next].f
<1>1. /\ phase = "unloading" /\ next <= Len(Probes) /\ next' = next + 1
      /\ registered' = registered \ {f}
      /\ leaked' = leaked + IF f = "sys_bind" THEN Cardinality(Holders) ELSE 0
      /\ call' = [t \in Threads |-> [call[t] EXCEPT !.kept = @ \ {f}]]
      /\ UNCHANGED <<build, refused, phase, wrapper, device, table, policy, cover, refs>>
  BY DEF UnregisterProbe, policyVars, Holders
<1> HIDE DEF f
<1>4. ModuleInv' BY <1>1 DEF IInv, ModuleInv
<1>5. Attachment' BY <1>1 DEF IInv, Attachment
<1>6. ASSUME NEW t \in Threads
      PROVE  /\ call'[t] \in CallType /\ call'[t].whole = call[t].whole
             /\ call'[t].kind = call[t].kind /\ call'[t].at = call[t].at
             /\ call'[t].way = call[t].way /\ call'[t].ret = call[t].ret
             /\ call'[t].value = call[t].value /\ call'[t].owned = call[t].owned
             /\ call'[t].counted = call[t].counted /\ call'[t].misread = call[t].misread
             /\ call'[t].kept = call[t].kept \ {f}
  <2> DEFINE c == call[t]
             K == c.kept \ {f}
             d == [c EXCEPT !.kept = K]
  <2>1. c \in CallType /\ call'[t] = d BY <1>1 DEF IInv
  <2>2. K \in SUBSET Functions BY <2>1 DEF CallType
  <2> HIDE DEF c, K
  <2>3. d \in CallType BY <2>1, <2>2 DEF CallType
  <2>4. /\ d.whole = c.whole /\ d.kind = c.kind /\ d.at = c.at /\ d.way = c.way /\ d.ret = c.ret
        /\ d.value = c.value /\ d.owned = c.owned /\ d.counted = c.counted
        /\ d.misread = c.misread /\ d.kept = K
    BY <2>1, <2>2 DEF CallType
  <2> QED BY <2>1, <2>3, <2>4 DEF c, K
<1>7. call' \in [Threads -> CallType]
  <2>1. call' = [t \in Threads |-> call'[t]] BY <1>1
  <2> QED BY <2>1, <1>6
<1>8. ASSUME NEW t \in Threads PROVE Good(call[t])'
  <2>1. Shape(call[t]) BY DEF IInv, Good
  <2>2. call'[t].kept \subseteq registered' /\ call'[t].kept \subseteq call[t].kept
    BY <2>1, <1>1, <1>6 DEF Shape
  <2>3. ~call'[t].whole BY <2>1, <1>1, <1>6 DEF Shape
  <2> QED BY <2>1, <2>2, <2>3, <1>1, <1>6, UnloadedShape, Zenon
<1>9. RefsMove
  <2>1. CASE f = "sys_bind"
    <3>1. Holders' = {} BY <2>1, <1>6 DEF Held, Holders
    <3> QED BY <3>1, <2>1, <1>1 DEF RefsMove
  <2>2. CASE f # "sys_bind"
    <3>1. \A t \in Threads : Held(t)' <=> Held(t) BY <2>2, <1>6 DEF Held
    <3>2. Holders' = Holders BY <3>1 DEF Holders
    <3>3. leaked \in Int => leaked' = leaked BY <2>2, <1>1
    <3> QED BY <3>2, <3>3, <1>1 DEF RefsMove
  <2> QED BY <2>1, <2>2
<1> QED BY <1>4, <1>5, <1>7, <1>8, <1>9 DEF IInv

\* The rest of vpnhide_exit.
LEMMA TeardownStep ==
  ASSUME IInv, Teardown
  PROVE  IInv' /\ RefsMove
<1>1. /\ phase = "unloading" /\ phase' = "gone" /\ policy' = "none" /\ cover' = FALSE
      /\ table' = FALSE /\ device' = FALSE
      /\ UNCHANGED <<build, refused, next, registered, wrapper, call, refs, leaked>>
  BY DEF Teardown
<1>2. ModuleInv'
  <2>1. ModuleInv /\ build # "intree" BY <1>1 DEF IInv, ModuleInv
  <2> QED BY <1>1, <2>1, Zenon DEF ModuleInv
<1>3. Attachment' BY <1>1 DEF IInv, Attachment, ModuleInv
<1> QED BY <1>1, <1>2, <1>3, LoadStep
-----------------------------------------------------------------------------
(* The theorems.                                                           *)

\* Nothing runs before the module is loaded.
LEMMA InitInv == Init => IInv
<1> SUFFICES ASSUME Init PROVE IInv OBVIOUS
<1>1. ModuleInv
  <2>1. build \in {"module", "intree"} BY ProbeLayersAssumption DEF Init
  <2>2. refused \subseteq Functions
    <3>1. CASE build = "module"
      <4>1. refused \in Refusals BY <3>1 DEF Init
      <4> QED BY <4>1, ProbeLayersAssumption
    <3>2. CASE build = "intree" BY <3>2 DEF Init
    <3> QED BY <2>1, <3>1, <3>2
  <2>3. build = "intree" => refused = {} BY DEF Init
  <2>4. /\ phase = "new" /\ registered = {} /\ policy = "none"
        /\ ~cover /\ ~device /\ ~table /\ ~wrapper.connect /\ ~wrapper.bind
    BY DEF Init
  <2>5. cover \in BOOLEAN /\ device \in BOOLEAN /\ table \in BOOLEAN BY Zenon DEF Init
  <2>6. wrapper \in [connect : BOOLEAN, bind : BOOLEAN] BY DEF Init
  <2>7. phase \notin {"device", "loaded", "unloading"} /\ phase \in {"new", "loaded", "gone"}
    BY <2>4
  <2> QED BY <2>1, <2>2, <2>3, <2>4, <2>5, <2>6, <2>7, Zenon DEF ModuleInv
<1>2. Attachment BY ProbesLength DEF Init, Attachment, Seen
<1>3. NoCall \in CallType BY DEF NoCall, CallType
<1>4. call \in [Threads -> CallType] BY <1>3 DEF Init
<1>5. ASSUME NEW t \in Threads PROVE Good(call[t])
  <2>1. call[t] = NoCall BY DEF Init
  <2>2. Shape(NoCall) BY DEF NoCall, Shape
  <2>3. Watched(NoCall) /\ Outcome(NoCall) BY DEF NoCall, Watched, Outcome, Whole
  <2> QED BY <2>1, <2>2, <2>3 DEF Good
<1> QED BY <1>1, <1>2, <1>4, <1>5 DEF IInv

\* Every step keeps the invariant.
LEMMA NextInv == IInv /\ [Next]_vars => IInv' /\ RefsMove
<1> SUFFICES ASSUME IInv, [Next]_vars PROVE IInv' /\ RefsMove OBVIOUS
<1>1. CASE Load BY <1>1, LoadSteps
<1>2. CASE Publish BY <1>2, PublishStep
<1>3. CASE Unload BY <1>3, UnloadStep
<1>4. CASE UnregisterProbe BY <1>4, UnregisterStep
<1>5. CASE Teardown BY <1>5, TeardownStep
<1>6. ASSUME NEW t \in Threads, NEW kind \in Kinds, Start(t, kind) PROVE IInv' /\ RefsMove
  BY <1>6, StartStep
<1>7. ASSUME NEW t \in Threads, Enter(t) PROVE IInv' /\ RefsMove BY <1>7, EnterStep
<1>8. ASSUME NEW t \in Threads, EnterPatched(t) \/ LeavePatched(t) PROVE IInv' /\ RefsMove
  BY <1>8, PatchedStep
<1>9. ASSUME NEW t \in Threads, Kernel(t) PROVE IInv' /\ RefsMove BY <1>9, KernelStep
<1>10. ASSUME NEW t \in Threads, Leave(t) PROVE IInv' /\ RefsMove BY <1>10, LeaveStep
<1>11. ASSUME NEW t \in Threads, Finish(t) PROVE IInv' /\ RefsMove BY <1>11, FinishStep
<1>12. CASE UNCHANGED vars
  <2>1. /\ UNCHANGED <<build, refused, phase, next, registered, wrapper, device, table>>
        /\ UNCHANGED <<policy, cover, call, refs, leaked>>
    BY <1>12 DEF vars, moduleVars, policyVars
  <2>2. ModuleInv' /\ Attachment' BY <2>1 DEF IInv, ModuleInv, Attachment, Seen, Attached
  <2>3. ASSUME NEW t \in Threads PROVE Good(call[t])' BY <2>1, Carry DEF IInv
  <2>4. RefsMove BY <2>1 DEF RefsMove, Holders, Held
  <2> QED BY <2>1, <2>2, <2>3, <2>4 DEF IInv
<1> QED BY <1>1, <1>2, <1>3, <1>4, <1>5, <1>6, <1>7, <1>8, <1>9, <1>10, <1>11, <1>12 DEF Next

\* A call that was made and finished while the module was loaded, with a free
\* instance for each handler and one of its functions open to probes, has been
\* seen to return by a handler that settles it.
LEMMA HandledSettles ==
  ASSUME IInv, NEW t \in Threads, Handled(t),
         call[t].kind = "mtu" => "sys_getsockopt" \notin refused,
         call[t].kind = "bindll" => "inet6_bind" \notin refused
  PROVE  Settled(call[t])
<1> DEFINE c == call[t]
           k == c.kind
<1>0. /\ c.way = "done" /\ c.whole /\ Shape(c)
      /\ k = "mtu" => "sys_getsockopt" \notin refused
      /\ k = "bindll" => "inet6_bind" \notin refused
  BY DEF Handled, IInv, Good
<1>1. phase = "loaded" /\ k \in Kinds BY <1>0 DEF Shape
<1>2. \A i : Left(c, i) BY <1>0 DEF Left
<1>3. CASE build # "module" BY <1>2, <1>3 DEF Settled
<1>4. CASE build = "module"
  <2>1. PICK i \in 1..Len(Layers(k)) : Layers(k)[i] \notin refused BY <1>4 DEF Handled
  <2>2. Attachment BY DEF IInv
  <2> SUFFICES \E j \in 1..Len(Layers(k)) : Settles(k, Layers(k)[j]) BY <1>2, <1>4 DEF Settled
  <2> HIDE DEF k
  <2>3. CASE k = "connect" BY <1>1, <1>4, <2>1, <2>2, <2>3, LoadedProbes, LayersTable DEF Settles
  <2>4. CASE k = "listen" BY <1>1, <1>4, <2>1, <2>2, <2>4, LoadedProbes, LayersTable DEF Settles
  <2>5. CASE k = "bind4" BY <1>1, <1>4, <2>1, <2>2, <2>5, LoadedProbes, LayersTable DEF Settles
  <2>6. CASE k = "bind6" BY <1>1, <1>4, <2>1, <2>2, <2>6, LoadedProbes, LayersTable DEF Settles
  <2>7. CASE k = "bindll"
    BY <1>0, <1>1, <1>4, <2>2, <2>7, LoadedProbes, LayersTable DEF Settles, k
  <2>8. CASE k = "name4" BY <1>1, <1>4, <2>1, <2>2, <2>8, LoadedProbes, LayersTable DEF Settles
  <2>9. CASE k = "name6" BY <1>1, <1>4, <2>1, <2>2, <2>9, LoadedProbes, LayersTable DEF Settles
  <2>10. CASE k = "recv4" BY <1>1, <1>4, <2>1, <2>2, <2>10, LoadedProbes, LayersTable DEF Settles
  <2>11. CASE k = "recv6" BY <1>1, <1>4, <2>1, <2>2, <2>11, LoadedProbes, LayersTable DEF Settles
  <2>12. CASE k = "device"
    BY <1>1, <1>4, <2>1, <2>2, <2>12, LoadedProbes, LayersTable DEF Settles
  <2>13. CASE k = "mtu"
    BY <1>0, <1>1, <1>4, <2>2, <2>13, LoadedProbes, LayersTable DEF Settles, k
  <2> QED BY <1>1, KindsList, <2>3, <2>4, <2>5, <2>6, <2>7, <2>8, <2>9, <2>10, <2>11, <2>12, <2>13
<1> QED BY <1>3, <1>4

\* The invariant holds in every reachable state: which probes are attached, where
\* each call is, which handlers wait for its return and what they have done.
THEOREM LayersInvariant == Spec => []IInv
<1>1. Init => IInv BY InitInv
<1>2. IInv /\ [Next]_vars => IInv' BY NextInv
<1> QED BY <1>1, <1>2, PTL DEF Spec

\* On a finished call the invariant says that it was handled once.
LEMMA HandledOnce == IInv => EachCallIsHandledOnce
<1> SUFFICES ASSUME IInv PROVE EachCallIsHandledOnce OBVIOUS
<1>1. policy # "none" => table BY DEF IInv, ModuleInv
<1>2. ASSUME NEW t \in Threads, Handled(t)
      PROVE  LET c == call[t] IN
        /\ c.kind \in {"bind4", "bind6", "listen"} =>
             c.owned = IF c.ret = "ok" THEN 1 ELSE 0
        /\ c.kind = "connect" /\ c.under = {"block"} =>
             c.ret = "ECONNREFUSED" /\ c.counted = 1
        /\ c.kind = "connect" /\ "block" \notin c.under =>
             c.ret \in {"ok", "failed"} /\ c.counted = 0
        /\ c.kind = "bindll" /\ c.under = {"block"} /\ "inet6_bind" \notin refused =>
             c.ret = "ENODEV" /\ c.counted = 1 /\ c.owned = 0
        /\ c.kind \in Names => c.counted <= 1
  <2> DEFINE c == call[t]
  <2>1. c.way = "done" /\ c.whole /\ ~c.missed BY <1>2 DEF Handled
  <2>2. Shape(c) /\ Outcome(c) BY DEF IInv, Good
  <2>3. Bound(c) /\ Blocked(c) /\ Spared(c) /\ LinkLocal(c) /\ Named(c)
    BY <2>1, <2>2 DEF Outcome, Whole
  <2>4. c.kind \notin {"mtu", "bindll"} => Settled(c) BY <1>2, HandledSettles
  <2>5. c.kind = "bindll" /\ "inet6_bind" \notin refused => Settled(c) BY <1>2, HandledSettles
  <2>6. build = "module" /\ "inet6_bind" \notin refused => "inet6_bind" \in registered
    <3>1. phase = "loaded" /\ Attachment BY <2>1, <2>2 DEF Shape, IInv
    <3> QED BY <3>1, LoadedProbes
  <2> HIDE DEF c
  <2>7. c.kind \in {"bind4", "bind6", "listen"} => c.owned = IF c.ret = "ok" THEN 1 ELSE 0
    BY <2>1, <2>3, <2>4 DEF Bound
  <2>8. c.kind = "connect" /\ c.under = {"block"} => c.ret = "ECONNREFUSED" /\ c.counted = 1
    BY <2>1, <2>3, <2>4 DEF Blocked
  <2>9. c.kind = "connect" /\ "block" \notin c.under => c.ret \in {"ok", "failed"} /\ c.counted = 0
    BY <2>3 DEF Spared
  <2>10. c.kind = "bindll" /\ c.under = {"block"} /\ "inet6_bind" \notin refused =>
           c.ret = "ENODEV" /\ c.counted = 1 /\ c.owned = 0
    BY <2>1, <2>3, <2>5, <2>6 DEF LinkLocal
  <2>11. c.kind \in Names => c.counted <= 1 BY <2>3 DEF Named
  <2> QED BY <2>7, <2>8, <2>9, <2>10, <2>11 DEF c
<1> QED BY <1>1, <1>2 DEF EachCallIsHandledOnce

\* A call that goes through several probes is handled once, whichever probes the
\* kernel refused: the stand-by of a probe works exactly when the probe does not.
THEOREM CallsAreHandledOnce == Spec => []EachCallIsHandledOnce
  BY LayersInvariant, HandledOnce, PTL

\* What a call reports at its return, once it is settled, is not the VPN's.
LEMMA ValueCovered == IInv => ReportedValuesAreCovered
<1> SUFFICES ASSUME IInv, NEW t \in Threads, Handled(t), call[t].kind \in Reports,
                    call[t].under = {"block"},
                    call[t].kind \in Receives => call[t].covered = {TRUE},
                    call[t].short => "sys_getsockname" \in refused,
                    call[t].kind = "mtu" => "sys_getsockopt" \notin refused
             PROVE  call[t].value # "vpn"
  BY Zenon DEF ReportedValuesAreCovered
<1>1. call[t].way = "done" /\ call[t].whole /\ ~call[t].missed BY DEF Handled
<1>2. Shape(call[t]) /\ Outcome(call[t]) BY DEF IInv, Good
<1>3. Reported(call[t]) BY <1>1, <1>2 DEF Outcome, Whole
<1>4. call[t].kind # "bindll" BY DEF Reports, Names, Receives, Options
<1>5. Settled(call[t]) BY <1>4, HandledSettles
<1>6. call[t].short => "sys_getsockname" \notin registered
  <2>1. phase = "loaded" /\ Attachment /\ build \in {"module", "intree"}
    BY <1>1, <1>2 DEF Shape, IInv, ModuleInv
  <2>2. build = "intree" => registered = {} BY <2>1 DEF Attachment
  <2> QED BY <2>1, <2>2, LoadedProbes
<1> QED BY <1>3, <1>5, <1>6, Zenon DEF Reported

\* A target whose hooks are active throughout is never told the VPN's address,
\* interface or MTU by a handled call, whichever probes the kernel refused.
THEOREM ValuesAreCovered == Spec => []ReportedValuesAreCovered
  BY LayersInvariant, ValueCovered, PTL

\* Handlers read their arguments with the layout of the function they are
\* attached to, but for sock_common_getsockopt and the binds that overlap the
\* load of the module.
THEOREM ArgumentsAreAlwaysReadAsProbed == Spec => []ArgumentsAreReadAsProbed
<1>1. IInv => ArgumentsAreReadAsProbed BY DEF IInv, Good, Shape, ArgumentsAreReadAsProbed
<1> QED BY LayersInvariant, <1>1, PTL
-----------------------------------------------------------------------------
(* The references to sockets that socket_bind_entry takes, counted.        *)

RefsInv == IInv /\ leaked \in Int /\ ReferencesAreDropped

\* The number of calls that hold a reference is a number, and changes by one with
\* the one call that takes or drops it.
LEMMA HoldersCount ==
  /\ IsFiniteSet(Holders) /\ Cardinality(Holders) \in Nat
  /\ \A t \in Threads \ Holders : Cardinality(Holders \cup {t}) = Cardinality(Holders) + 1
  /\ \A t \in Holders : Cardinality(Holders \ {t}) = Cardinality(Holders) - 1
  /\ Cardinality({}) = 0
<1>1. IsFiniteSet(Holders)
  <2>1. Holders \subseteq Threads BY DEF Holders
  <2> QED BY <2>1, ProbeLayersAssumption, FS_Subset
<1>2. Cardinality(Holders) \in Nat BY <1>1, FS_CardinalityType
<1>3. ASSUME NEW t \in Threads \ Holders
      PROVE  Cardinality(Holders \cup {t}) = Cardinality(Holders) + 1
  BY <1>1, <1>3, FS_AddElement
<1>4. ASSUME NEW t \in Holders
      PROVE  Cardinality(Holders \ {t}) = Cardinality(Holders) - 1
  BY <1>1, <1>4, FS_RemoveElement
<1>5. Cardinality({}) = 0 BY FS_EmptySet
<1> QED BY <1>1, <1>2, <1>3, <1>4, <1>5

\* The count of references follows the calls that hold one through every step.
LEMMA RefsInvStep == RefsInv /\ [Next]_vars => RefsInv'
<1> SUFFICES ASSUME RefsInv, [Next]_vars PROVE RefsInv' OBVIOUS
<1> DEFINE n == Cardinality(Holders)
<1>1. IInv' /\ RefsMove BY NextInv DEF RefsInv
<1>2. refs = leaked + n /\ leaked \in Int BY DEF RefsInv, ReferencesAreDropped, Holders
<1>3. n \in Nat BY HoldersCount
<1>4. refs' = leaked' + Cardinality(Holders') /\ leaked' \in Int
  <2>1. CASE refs' = refs /\ leaked' = leaked /\ Holders' = Holders BY <2>1, <1>2
  <2>2. CASE /\ refs' = refs + 1 /\ leaked' = leaked
             /\ \E t \in Threads \ Holders : Holders' = Holders \cup {t}
    <3>1. Cardinality(Holders') = n + 1 BY <2>2, HoldersCount
    <3> QED BY <3>1, <2>2, <1>2, <1>3
  <2>3. CASE /\ refs' = refs - 1 /\ leaked' = leaked
             /\ \E t \in Holders : Holders' = Holders \ {t}
    <3>1. Cardinality(Holders') = n - 1 BY <2>3, HoldersCount
    <3> QED BY <3>1, <2>3, <1>2, <1>3
  <2>4. CASE refs' = refs /\ leaked' = leaked + n /\ Holders' = {}
    <3>1. Cardinality(Holders') = 0 BY <2>4, HoldersCount
    <3> QED BY <3>1, <2>4, <1>2, <1>3
  <2> QED BY <1>1, <1>2, <2>1, <2>2, <2>3, <2>4 DEF RefsMove
<1>5. ReferencesAreDropped' BY <1>4 DEF ReferencesAreDropped, Holders
<1> QED BY <1>1, <1>4, <1>5 DEF RefsInv

\* The socket references that socket_bind_entry took and nobody dropped are those
\* of the binds in progress and of the binds the module was unloaded under.
THEOREM ReferencesAreAlwaysDropped == Spec => []ReferencesAreDropped
<1>1. Init => RefsInv
  <2> SUFFICES ASSUME Init PROVE RefsInv OBVIOUS
  <2>1. IInv BY InitInv
  <2>2. Holders = {} BY DEF Init, Holders, Held, NoCall
  <2>3. refs = 0 /\ leaked = 0 BY DEF Init
  <2>4. ReferencesAreDropped BY <2>2, <2>3, HoldersCount DEF ReferencesAreDropped, Holders
  <2> QED BY <2>1, <2>3, <2>4 DEF RefsInv
<1>2. RefsInv => ReferencesAreDropped BY DEF RefsInv
<1> QED BY <1>1, <1>2, RefsInvStep, PTL DEF Spec
=============================================================================
