------------------------ MODULE PolicyPublishProofs ------------------------
(***************************************************************************)
(* Proofs, for any number of writers, updaters, readers, hooks and         *)
(* snapshots, of what MCPolicyPublish checks on small instances.           *)
(***************************************************************************)
EXTENDS PolicyPublish, TLAPS

USE ConstantsAssumption

(* Each lemma takes one conjunct of IInv through a step.                   *)

\* Every action keeps the types.
LEMMA TypeStep ==
    TypeOK /\ [Next]_vars => TypeOK'
<1> SUFFICES ASSUME TypeOK, [Next]_vars
             PROVE  TypeOK'
    OBVIOUS
<1> USE DEF TypeOK, writerVars, readerVars, hookVars, rcuVars
<1>1. ASSUME NEW w \in Writers, SetPolicy(w)
      PROVE  TypeOK'
    BY <1>1 DEF SetPolicy, policy, Items, RuntimeItems
<1>2. ASSUME NEW w \in Writers, WriterLock(w)
      PROVE  TypeOK'
    BY <1>2 DEF WriterLock
<1>3. ASSUME NEW w \in Writers, RejectStale(w)
      PROVE  TypeOK'
    BY <1>3 DEF RejectStale, Return
<1>4. ASSUME NEW w \in Writers, AcceptGeneration(w)
      PROVE  TypeOK'
    BY <1>4 DEF AcceptGeneration
<1>5. ASSUME NEW w \in Writers, Reconcile(w)
      PROVE  TypeOK'
  <2>1. CASE Return(w) /\ mutex' = Nobody
    BY <1>5, <2>1 DEF Reconcile, Return
  <2>2. CASE wpc' = [wpc EXCEPT ![w] = "assign"]
             /\ UNCHANGED <<mutex, wexpected, wold, wseen>>
    BY <1>5, <2>2 DEF Reconcile
  <2>3. QED
    BY <1>5, <2>1, <2>2 DEF Reconcile
<1>6. ASSUME NEW w \in Writers, AssignPolicy(w)
      PROVE  TypeOK'
    BY <1>6 DEF AssignPolicy, policy, Items, RuntimeItems
<1>7. ASSUME NEW w \in Writers, WriterUnlock(w)
      PROVE  TypeOK'
    BY <1>7 DEF WriterUnlock
<1>8. ASSUME NEW w \in Writers, RetireOld(w)
      PROVE  TypeOK'
  <2>1. retired' \in SUBSET Nat
    <3>1. retired' \subseteq retired \cup {wold[w]}
      BY <1>8 DEF RetireOld
    <3>2. QED
      BY <3>1
  <2>2. waits' \in [Snapshots -> SUBSET Hooks]
    <3>1. {h \in Hooks : hook[h] # 0} \in SUBSET Hooks
      OBVIOUS
    <3>2. QED
      BY <1>8, <3>1 DEF RetireOld
  <2>3. QED
    BY <1>8, <2>1, <2>2 DEF RetireOld
<1>9. ASSUME NEW w \in Writers, WriterBump(w)
      PROVE  TypeOK'
    BY <1>9 DEF WriterBump, Return, BumpGeneration, Building
<1>10. ASSUME NEW u \in Updaters, ChangeRuntime(u)
      PROVE  TypeOK'
  <2>1. content' \in [Items -> Nat]
    BY <1>10 DEF ChangeRuntime, Items
  <2>2. QED
    BY <1>10, <2>1 DEF ChangeRuntime
<1>11. ASSUME NEW u \in Updaters, UpdaterBump(u)
      PROVE  TypeOK'
    BY <1>11 DEF UpdaterBump, BumpGeneration, Building
<1>12. ASSUME NEW r \in Readers, BeginRefill(r)
      PROVE  TypeOK'
    BY <1>12 DEF BeginRefill
<1>13. ASSUME NEW r \in Readers, Woken(r)
      PROVE  TypeOK'
    BY <1>13 DEF Woken
<1>14. ASSUME NEW r \in Readers, Interrupted(r)
      PROVE  TypeOK'
    BY <1>14 DEF Interrupted
<1>15. ASSUME NEW r \in Readers, SizeBuffer(r)
      PROVE  TypeOK'
    BY <1>15 DEF SizeBuffer, policy, Items, RuntimeItems
<1>16. ASSUME NEW r \in Readers, AllocFails(r)
      PROVE  TypeOK'
    BY <1>16 DEF AllocFails
<1>17. ASSUME NEW r \in Readers, AllocSucceeds(r)
      PROVE  TypeOK'
    BY <1>17 DEF AllocSucceeds, Items, RuntimeItems
<1>18. ASSUME NEW r \in Readers, PrintItem(r)
      PROVE  TypeOK'
    BY <1>18 DEF PrintItem, AfterItem, Items, RuntimeItems
<1>19. ASSUME NEW r \in Readers, ReaderUnlock(r)
      PROVE  TypeOK'
    BY <1>19 DEF ReaderUnlock
<1>20. ASSUME NEW r \in Readers, Settle(r)
      PROVE  TypeOK'
    BY <1>20 DEF Settle
<1>21. ASSUME NEW r \in Readers, CopyRest(r)
      PROVE  TypeOK'
    BY <1>21 DEF CopyRest
<1>22. ASSUME NEW h \in Hooks, is_hook_active(h) \/ is_target_uid_val(h)
      PROVE  TypeOK'
  <2>1. CASE is_hook_active(h)
    BY <2>1 DEF is_hook_active, policy, Items, RuntimeItems
  <2>2. CASE is_target_uid_val(h)
    BY <2>2 DEF is_target_uid_val, policy, Items, RuntimeItems
  <2>3. QED
    BY <1>22, <2>1, <2>2
<1>23. ASSUME NEW h \in Hooks, MaskKnown(h) \/ TargetKnown(h)
      PROVE  TypeOK'
  <2>1. CASE MaskKnown(h)
    <3>1. /\ hpc' \in [Hooks -> {"idle", "mask", "active", "target"}]
          /\ hfirst' \in [Hooks -> Nat]
          /\ hlow' \in [Hooks -> Nat]
      <4>1. CASE hpc' = [hpc EXCEPT ![h] = "active"]
                 /\ hfirst' = [hfirst EXCEPT ![h] = hook[h]] /\ hlow' = hlow
        BY <4>1
      <4>2. CASE hpc' = [hpc EXCEPT ![h] = "idle"]
                 /\ hfirst' = hfirst /\ hlow' = [hlow EXCEPT ![h] = 0]
        BY <4>2
      <4>3. QED
        BY <2>1, <4>1, <4>2 DEF MaskKnown
    <3>2. hook' \in [Hooks -> Nat] /\ waits' \in [Snapshots -> SUBSET Hooks]
      BY <2>1 DEF MaskKnown
    <3>3. QED
      BY <2>1, <3>1, <3>2 DEF MaskKnown
  <2>2. CASE TargetKnown(h)
    BY <2>2 DEF TargetKnown
  <2>3. QED
    BY <1>23, <2>1, <2>2
<1>24. ASSUME NEW s \in Snapshots, FreeSnapshot(s)
      PROVE  TypeOK'
    BY <1>24 DEF FreeSnapshot, Snapshots
<1>25. CASE UNCHANGED vars
    BY <1>25 DEF vars
<1>26. QED
    BY <1>1, <1>2, <1>3, <1>4, <1>5, <1>6, <1>7, <1>8, <1>9,
       <1>10, <1>11, <1>12, <1>13, <1>14, <1>15, <1>16, <1>17, <1>18, <1>19,
       <1>20, <1>21, <1>22, <1>23, <1>24, <1>25
    DEF Next, WriterStep, ReaderStep, HookStep

\* policy_apply_lock excludes: only its owner is between lock and unlock.
LEMMA LockingStep ==
    TypeOK /\ Locking /\ [Next]_vars => Locking'
<1> SUFFICES ASSUME TypeOK, Locking, [Next]_vars
             PROVE  Locking'
    OBVIOUS
<1> USE DEF TypeOK, Locking, WritersInside, ReadersInside, Items,
       RuntimeItems, writerVars, readerVars, hookVars, rcuVars
<1>1. ASSUME NEW w \in Writers, SetPolicy(w)
      PROVE  Locking'
    BY <1>1 DEF SetPolicy
<1>2. ASSUME NEW w \in Writers, WriterLock(w)
      PROVE  Locking'
    BY <1>2 DEF WriterLock
<1>3. ASSUME NEW w \in Writers, RejectStale(w)
      PROVE  Locking'
    BY <1>3 DEF RejectStale, Return
<1>4. ASSUME NEW w \in Writers, AcceptGeneration(w)
      PROVE  Locking'
    BY <1>4 DEF AcceptGeneration
<1>5. ASSUME NEW w \in Writers, Reconcile(w)
      PROVE  Locking'
    BY <1>5 DEF Reconcile, Return
<1>6. ASSUME NEW w \in Writers, AssignPolicy(w)
      PROVE  Locking'
    BY <1>6 DEF AssignPolicy
<1>7. ASSUME NEW w \in Writers, WriterUnlock(w)
      PROVE  Locking'
    BY <1>7 DEF WriterUnlock
<1>8. ASSUME NEW w \in Writers, RetireOld(w)
      PROVE  Locking'
    BY <1>8 DEF RetireOld
<1>9. ASSUME NEW w \in Writers, WriterBump(w)
      PROVE  Locking'
    BY <1>9 DEF WriterBump, Return, BumpGeneration
<1>10. ASSUME NEW r \in Readers, BeginRefill(r)
      PROVE  Locking'
    BY <1>10 DEF BeginRefill
<1>11. ASSUME NEW r \in Readers, Woken(r)
      PROVE  Locking'
    BY <1>11 DEF Woken
<1>12. ASSUME NEW r \in Readers, Interrupted(r)
      PROVE  Locking'
    BY <1>12 DEF Interrupted
<1>13. ASSUME NEW r \in Readers, SizeBuffer(r)
      PROVE  Locking'
    BY <1>13 DEF SizeBuffer
<1>14. ASSUME NEW r \in Readers, AllocFails(r)
      PROVE  Locking'
    BY <1>14 DEF AllocFails
<1>15. ASSUME NEW r \in Readers, AllocSucceeds(r)
      PROVE  Locking'
    BY <1>15 DEF AllocSucceeds
<1>16. ASSUME NEW r \in Readers, PrintItem(r)
      PROVE  Locking'
    BY <1>16 DEF PrintItem, AfterItem
<1>17. ASSUME NEW r \in Readers, ReaderUnlock(r)
      PROVE  Locking'
    BY <1>17 DEF ReaderUnlock
<1>18. ASSUME NEW r \in Readers, Settle(r)
      PROVE  Locking'
    BY <1>18 DEF Settle
<1>19. CASE UNCHANGED <<mutex, wpc, rpc>>
    BY <1>19
<1>20. QED
    BY <1>1, <1>2, <1>3, <1>4, <1>5, <1>6, <1>7, <1>8, <1>9,
       <1>10, <1>11, <1>12, <1>13, <1>14, <1>15, <1>16, <1>17, <1>18, <1>19
    DEF Next, WriterStep, ReaderStep, vars, ChangeRuntime, UpdaterBump,
       CopyRest, HookStep,
       is_hook_active, MaskKnown, is_target_uid_val, TargetKnown, FreeSnapshot, BumpGeneration

\* Publications are numbered in order, and retire older snapshots.
LEMMA PublishingStep ==
    TypeOK /\ Locking /\ Publishing /\ [Next]_vars => Publishing'
<1> SUFFICES ASSUME TypeOK, Locking, Publishing, [Next]_vars
             PROVE  Publishing'
    OBVIOUS
<1> USE DEF TypeOK, Publishing, policy, Items, RuntimeItems, writerVars,
       readerVars, hookVars, rcuVars
<1>1. ASSUME NEW w \in Writers, SetPolicy(w)
      PROVE  Publishing'
    BY <1>1 DEF SetPolicy
<1>2. ASSUME NEW w \in Writers, WriterLock(w)
      PROVE  Publishing'
    BY <1>2 DEF WriterLock
<1>3. ASSUME NEW w \in Writers, RejectStale(w)
      PROVE  Publishing'
    BY <1>3 DEF RejectStale, Return
<1>4. ASSUME NEW w \in Writers, AcceptGeneration(w)
      PROVE  Publishing'
    BY <1>4 DEF AcceptGeneration
<1>5. ASSUME NEW w \in Writers, Reconcile(w)
      PROVE  Publishing'
    BY <1>5 DEF Reconcile, Return
<1>6. ASSUME NEW w \in Writers, AssignPolicy(w)
      PROVE  Publishing'
  <2>1. \A v \in Writers : v # w => wpc[v] # "assign"
    BY <1>6 DEF AssignPolicy, Locking, WritersInside
  <2>2. QED
    BY <1>6, <2>1 DEF AssignPolicy
<1>7. ASSUME NEW w \in Writers, WriterUnlock(w)
      PROVE  Publishing'
    BY <1>7 DEF WriterUnlock
<1>8. ASSUME NEW w \in Writers, RetireOld(w)
      PROVE  Publishing'
    BY <1>8 DEF RetireOld
<1>9. ASSUME NEW w \in Writers, WriterBump(w)
      PROVE  Publishing'
    BY <1>9 DEF WriterBump, Return, BumpGeneration
<1>10. ASSUME NEW u \in Updaters, ChangeRuntime(u)
      PROVE  Publishing'
  <2>1. content'["policy"] = content["policy"]
    BY <1>10 DEF ChangeRuntime
  <2>2. QED
    BY <1>10, <2>1 DEF ChangeRuntime
<1>11. CASE UNCHANGED <<content, wpc, wold>>
    BY <1>11
<1>12. QED
    BY <1>1, <1>2, <1>3, <1>4, <1>5, <1>6, <1>7, <1>8, <1>9,
       <1>10, <1>11
    DEF Next, WriterStep, ReaderStep, vars, UpdaterBump, BeginRefill, Woken,
       Interrupted, SizeBuffer, AllocFails, AllocSucceeds, PrintItem,
       ReaderUnlock, Settle, CopyRest, HookStep,
       is_hook_active, MaskKnown, is_target_uid_val, TargetKnown,
       FreeSnapshot, BumpGeneration, AfterItem

\* The snapshot a refill was sized for stays published until it unlocks.
LEMMA OneSnapshotStep ==
    TypeOK /\ Locking /\ OneSnapshot /\ [Next]_vars => OneSnapshot'
<1> SUFFICES ASSUME TypeOK, Locking, OneSnapshot, [Next]_vars
             PROVE  OneSnapshot'
    OBVIOUS
<1> USE DEF TypeOK, OneSnapshot, ReadersInside, policy, Items, RuntimeItems,
       writerVars, readerVars, hookVars, rcuVars
<1>1. ASSUME NEW w \in Writers, AssignPolicy(w)
      PROVE  OneSnapshot'
  <2>1. ReadersInside = {}
    BY <1>1 DEF AssignPolicy, Locking, WritersInside
  <2>2. QED
    BY <1>1, <2>1 DEF AssignPolicy
<1>2. ASSUME NEW u \in Updaters, ChangeRuntime(u)
      PROVE  OneSnapshot'
  <2>1. content'["policy"] = content["policy"]
    BY <1>2 DEF ChangeRuntime
  <2>2. QED
    BY <1>2, <2>1 DEF ChangeRuntime
<1>3. ASSUME NEW r \in Readers, BeginRefill(r)
      PROVE  OneSnapshot'
    BY <1>3 DEF BeginRefill
<1>4. ASSUME NEW r \in Readers, Woken(r)
      PROVE  OneSnapshot'
    BY <1>4 DEF Woken
<1>5. ASSUME NEW r \in Readers, Interrupted(r)
      PROVE  OneSnapshot'
    BY <1>5 DEF Interrupted
<1>6. ASSUME NEW r \in Readers, SizeBuffer(r)
      PROVE  OneSnapshot'
    BY <1>6 DEF SizeBuffer
<1>7. ASSUME NEW r \in Readers, AllocFails(r)
      PROVE  OneSnapshot'
    BY <1>7 DEF AllocFails
<1>8. ASSUME NEW r \in Readers, AllocSucceeds(r)
      PROVE  OneSnapshot'
    BY <1>8 DEF AllocSucceeds
<1>9. ASSUME NEW r \in Readers, PrintItem(r)
      PROVE  OneSnapshot'
    BY <1>9 DEF PrintItem, AfterItem
<1>10. ASSUME NEW r \in Readers, ReaderUnlock(r)
      PROVE  OneSnapshot'
    BY <1>10 DEF ReaderUnlock
<1>11. ASSUME NEW r \in Readers, Settle(r)
      PROVE  OneSnapshot'
    BY <1>11 DEF Settle
<1>12. CASE UNCHANGED <<content, rpc, rsize>>
    BY <1>12
<1>13. QED
    BY <1>1, <1>2, <1>3, <1>4, <1>5, <1>6, <1>7, <1>8, <1>9,
       <1>10, <1>11, <1>12
    DEF Next, WriterStep, ReaderStep, vars, SetPolicy, WriterLock,
       RejectStale, AcceptGeneration, Reconcile, WriterUnlock, RetireOld,
       WriterBump, UpdaterBump, CopyRest, HookStep,
       is_hook_active, MaskKnown, is_target_uid_val, TargetKnown,
       FreeSnapshot, Return, BumpGeneration

\* No snapshot is freed under a hook.
LEMMA GracePeriodsStep ==
    TypeOK /\ Publishing /\ GracePeriods /\ [Next]_vars => GracePeriods'
<1> SUFFICES ASSUME TypeOK, Publishing, GracePeriods, [Next]_vars
             PROVE  GracePeriods'
    OBVIOUS
<1> USE DEF TypeOK, GracePeriods, policy, Items, RuntimeItems, writerVars,
       readerVars, hookVars, rcuVars
<1>1. ASSUME NEW w \in Writers, AssignPolicy(w)
      PROVE  GracePeriods'
    BY <1>1 DEF AssignPolicy
<1>2. ASSUME NEW w \in Writers, RetireOld(w)
      PROVE  GracePeriods'
  <2>1. CASE wold[w] = 0
    BY <1>2, <2>1 DEF RetireOld
  <2>2. CASE wold[w] # 0
    <3>1. 0 < wold[w] /\ wold[w] < policy /\ wold[w] \in Snapshots
      BY <1>2, <2>2 DEF RetireOld, Publishing, Snapshots
    <3>2. /\ retired' = retired \cup {wold[w]}
          /\ waits'[wold[w]] = {h \in Hooks : hook[h] # 0}
          /\ \A s \in Snapshots : s # wold[w] => waits'[s] = waits[s]
      BY <1>2, <2>2, <3>1 DEF RetireOld
    <3>3. \A s \in retired : s \in Snapshots
      BY DEF Publishing, Snapshots
    <3>4. QED
      BY <1>2, <3>1, <3>2, <3>3 DEF RetireOld
  <2>3. QED
    BY <2>1, <2>2
<1>3. ASSUME NEW u \in Updaters, ChangeRuntime(u)
      PROVE  GracePeriods'
  <2>1. content'["policy"] = content["policy"]
    BY <1>3 DEF ChangeRuntime
  <2>2. QED
    BY <1>3, <2>1 DEF ChangeRuntime
<1>4. ASSUME NEW h \in Hooks, is_hook_active(h) \/ is_target_uid_val(h)
      PROVE  GracePeriods'
  <2>1. CASE is_hook_active(h)
    BY <2>1 DEF is_hook_active
  <2>2. CASE is_target_uid_val(h)
    BY <2>2 DEF is_target_uid_val
  <2>3. QED
    BY <1>4, <2>1, <2>2
<1>5. ASSUME NEW h \in Hooks, MaskKnown(h) \/ TargetKnown(h)
      PROVE  GracePeriods'
  <2>1. CASE MaskKnown(h)
    BY <2>1 DEF MaskKnown, Publishing, Snapshots
  <2>2. CASE TargetKnown(h)
    BY <2>2 DEF TargetKnown, Publishing, Snapshots
  <2>3. QED
    BY <1>5, <2>1, <2>2
<1>6. ASSUME NEW s \in Snapshots, FreeSnapshot(s)
      PROVE  GracePeriods'
    BY <1>6 DEF FreeSnapshot, Snapshots
<1>7. CASE UNCHANGED <<content, hook, retired, waits, freed>>
    BY <1>7
<1>8. QED
    BY <1>1, <1>2, <1>3, <1>4, <1>5, <1>6, <1>7
    DEF Next, WriterStep, ReaderStep, HookStep, vars, SetPolicy, WriterLock,
       RejectStale, AcceptGeneration, Reconcile, WriterUnlock, WriterBump,
       UpdaterBump, BeginRefill, Woken, Interrupted, SizeBuffer, AllocFails,
       AllocSucceeds, PrintItem, ReaderUnlock, Settle, CopyRest, Return,
       BumpGeneration, AfterItem

\* An acknowledged policy has been published.
LEMMA AcknowledgingStep ==
    TypeOK /\ Publishing /\ Acknowledging /\ [Next]_vars => Acknowledging'
<1> SUFFICES ASSUME TypeOK, Publishing, Acknowledging, [Next]_vars
             PROVE  Acknowledging'
    OBVIOUS
<1> USE DEF TypeOK, Acknowledging, policy, Items, RuntimeItems, writerVars,
       readerVars, hookVars, rcuVars
<1>1. ASSUME NEW w \in Writers, AssignPolicy(w)
      PROVE  Acknowledging'
    BY <1>1 DEF AssignPolicy
<1>2. ASSUME NEW w \in Writers, WriterBump(w)
      PROVE  Acknowledging'
    BY <1>2 DEF WriterBump, Return, BumpGeneration, Publishing
<1>3. ASSUME NEW u \in Updaters, ChangeRuntime(u)
      PROVE  Acknowledging'
  <2>1. content'["policy"] = content["policy"]
    BY <1>3 DEF ChangeRuntime
  <2>2. QED
    BY <1>3, <2>1 DEF ChangeRuntime
<1>4. ASSUME NEW r \in Readers, BeginRefill(r)
      PROVE  Acknowledging'
    BY <1>4 DEF BeginRefill
<1>5. ASSUME NEW r \in Readers, Settle(r)
      PROVE  Acknowledging'
    BY <1>5 DEF Settle
<1>6. CASE UNCHANGED <<content, acked, rlow>>
    BY <1>6
<1>7. QED
    BY <1>1, <1>2, <1>3, <1>4, <1>5, <1>6
    DEF Next, WriterStep, ReaderStep, vars, SetPolicy, WriterLock,
       RejectStale, AcceptGeneration, Reconcile, WriterUnlock, RetireOld,
       UpdaterBump, Woken, Interrupted, SizeBuffer, AllocFails, AllocSucceeds,
       PrintItem, ReaderUnlock, CopyRest, HookStep,
       is_hook_active, MaskKnown, is_target_uid_val, TargetKnown,
       FreeSnapshot, Return, BumpGeneration, AfterItem

\* A hook's lookups see publications in order, from the acknowledged one on.
LEMMA HookLookupsStep ==
    TypeOK /\ Acknowledging /\ HookLookups /\ [Next]_vars => HookLookups'
<1> SUFFICES ASSUME TypeOK, Acknowledging, HookLookups, [Next]_vars
             PROVE  HookLookups'
    OBVIOUS
<1> USE DEF TypeOK, HookLookups, policy, Items, RuntimeItems, writerVars,
       readerVars, hookVars, rcuVars
<1>1. ASSUME NEW w \in Writers, AssignPolicy(w)
      PROVE  HookLookups'
    BY <1>1 DEF AssignPolicy
<1>2. ASSUME NEW u \in Updaters, ChangeRuntime(u)
      PROVE  HookLookups'
  <2>1. content'["policy"] = content["policy"]
    BY <1>2 DEF ChangeRuntime
  <2>2. QED
    BY <1>2, <2>1 DEF ChangeRuntime
<1>3. ASSUME NEW h \in Hooks, is_hook_active(h)
      PROVE  HookLookups'
    BY <1>3 DEF is_hook_active, Acknowledging
<1>4. ASSUME NEW h \in Hooks, MaskKnown(h)
      PROVE  HookLookups'
    BY <1>4 DEF MaskKnown
<1>5. ASSUME NEW h \in Hooks, is_target_uid_val(h)
      PROVE  HookLookups'
    BY <1>5 DEF is_target_uid_val
<1>6. ASSUME NEW h \in Hooks, TargetKnown(h)
      PROVE  HookLookups'
    BY <1>6 DEF TargetKnown
<1>7. CASE UNCHANGED <<content, hookVars>>
    BY <1>7
<1>8. QED
    BY <1>1, <1>2, <1>3, <1>4, <1>5, <1>6, <1>7
    DEF Next, WriterStep, ReaderStep, HookStep, vars, SetPolicy, WriterLock,
       RejectStale, AcceptGeneration, Reconcile, WriterUnlock, RetireOld,
       WriterBump, UpdaterBump, BeginRefill, Woken, Interrupted, SizeBuffer,
       AllocFails, AllocSucceeds, PrintItem, ReaderUnlock, Settle, CopyRest,
       FreeSnapshot, Return, BumpGeneration, AfterItem

\* The printed policy is at least the one acknowledged when the refill began.
LEMMA DeliveryStep ==
    TypeOK /\ Acknowledging /\ RefillDeliversAcknowledgedPolicy /\ [Next]_vars
        => RefillDeliversAcknowledgedPolicy'
<1> SUFFICES ASSUME TypeOK, Acknowledging, RefillDeliversAcknowledgedPolicy,
                    [Next]_vars
             PROVE  RefillDeliversAcknowledgedPolicy'
    OBVIOUS
<1> USE DEF TypeOK, RefillDeliversAcknowledgedPolicy, Items, RuntimeItems,
       writerVars, readerVars, hookVars, rcuVars
<1>1. ASSUME NEW r \in Readers, BeginRefill(r)
      PROVE  RefillDeliversAcknowledgedPolicy'
    BY <1>1 DEF BeginRefill
<1>2. ASSUME NEW r \in Readers, Woken(r)
      PROVE  RefillDeliversAcknowledgedPolicy'
    BY <1>2 DEF Woken
<1>3. ASSUME NEW r \in Readers, Interrupted(r)
      PROVE  RefillDeliversAcknowledgedPolicy'
    BY <1>3 DEF Interrupted
<1>4. ASSUME NEW r \in Readers, SizeBuffer(r)
      PROVE  RefillDeliversAcknowledgedPolicy'
    BY <1>4 DEF SizeBuffer
<1>5. ASSUME NEW r \in Readers, AllocFails(r)
      PROVE  RefillDeliversAcknowledgedPolicy'
    BY <1>5 DEF AllocFails
<1>6. ASSUME NEW r \in Readers, AllocSucceeds(r)
      PROVE  RefillDeliversAcknowledgedPolicy'
    BY <1>6 DEF AllocSucceeds
<1>7. ASSUME NEW r \in Readers, PrintItem(r)
      PROVE  RefillDeliversAcknowledgedPolicy'
    BY <1>7 DEF PrintItem, AfterItem, Acknowledging, policy
<1>8. ASSUME NEW r \in Readers, ReaderUnlock(r)
      PROVE  RefillDeliversAcknowledgedPolicy'
    BY <1>8 DEF ReaderUnlock
<1>9. ASSUME NEW r \in Readers, Settle(r)
      PROVE  RefillDeliversAcknowledgedPolicy'
    BY <1>9 DEF Settle
<1>10. CASE UNCHANGED <<rpc, rdoc, rlow>>
    BY <1>10
<1>11. QED
    BY <1>1, <1>2, <1>3, <1>4, <1>5, <1>6, <1>7, <1>8, <1>9, <1>10
    DEF Next, WriterStep, ReaderStep, vars, SetPolicy, WriterLock,
       RejectStale, AcceptGeneration, Reconcile, AssignPolicy, WriterUnlock,
       RetireOld, WriterBump, ChangeRuntime, UpdaterBump, CopyRest,
       HookStep,
       is_hook_active, MaskKnown, is_target_uid_val, TargetKnown, FreeSnapshot, Return, BumpGeneration

\* A document holds nothing newer than the kernel does.
LEMMA DocumentsStep ==
    TypeOK /\ DocumentsNotAhead /\ [Next]_vars => DocumentsNotAhead'
<1> SUFFICES ASSUME TypeOK, DocumentsNotAhead, [Next]_vars
             PROVE  DocumentsNotAhead'
    OBVIOUS
<1> USE DEF TypeOK, DocumentsNotAhead, Items, RuntimeItems, writerVars,
       readerVars, hookVars, rcuVars
<1>1. ASSUME NEW w \in Writers, AssignPolicy(w)
      PROVE  DocumentsNotAhead'
    BY <1>1 DEF AssignPolicy
<1>2. ASSUME NEW u \in Updaters, ChangeRuntime(u)
      PROVE  DocumentsNotAhead'
    BY <1>2 DEF ChangeRuntime
<1>3. ASSUME NEW r \in Readers, PrintItem(r)
      PROVE  DocumentsNotAhead'
    BY <1>3 DEF PrintItem, AfterItem
<1>4. CASE UNCHANGED <<content, rdoc>>
    BY <1>4
<1>5. QED
    BY <1>1, <1>2, <1>3, <1>4
    DEF Next, WriterStep, ReaderStep, vars, SetPolicy, WriterLock,
       RejectStale, AcceptGeneration, Reconcile, WriterUnlock, RetireOld,
       WriterBump, UpdaterBump, BeginRefill, Woken, Interrupted, SizeBuffer,
       AllocFails, AllocSucceeds, ReaderUnlock, Settle, CopyRest, HookStep,
       is_hook_active, MaskKnown, is_target_uid_val, TargetKnown, FreeSnapshot, Return, BumpGeneration

\* A refill is only begun by a reader behind the generation.
LEMMA GenerationsStep ==
    TypeOK /\ Generations /\ [Next]_vars => Generations'
<1> SUFFICES ASSUME TypeOK, Generations, [Next]_vars
             PROVE  Generations'
    OBVIOUS
<1> USE DEF TypeOK, Generations, Building, Items, RuntimeItems, writerVars,
       readerVars, hookVars, rcuVars
<1>1. ASSUME NEW w \in Writers, WriterBump(w)
      PROVE  Generations'
    BY <1>1 DEF WriterBump, Return, BumpGeneration
<1>2. ASSUME NEW u \in Updaters, UpdaterBump(u)
      PROVE  Generations'
    BY <1>2 DEF UpdaterBump, BumpGeneration
<1>3. ASSUME NEW r \in Readers, BeginRefill(r)
      PROVE  Generations'
    BY <1>3 DEF BeginRefill
<1>4. ASSUME NEW r \in Readers, Woken(r)
      PROVE  Generations'
    BY <1>4 DEF Woken
<1>5. ASSUME NEW r \in Readers, Interrupted(r)
      PROVE  Generations'
    BY <1>5 DEF Interrupted
<1>6. ASSUME NEW r \in Readers, SizeBuffer(r)
      PROVE  Generations'
    BY <1>6 DEF SizeBuffer
<1>7. ASSUME NEW r \in Readers, AllocFails(r)
      PROVE  Generations'
    BY <1>7 DEF AllocFails
<1>8. ASSUME NEW r \in Readers, AllocSucceeds(r)
      PROVE  Generations'
    BY <1>8 DEF AllocSucceeds
<1>9. ASSUME NEW r \in Readers, PrintItem(r)
      PROVE  Generations'
    BY <1>9 DEF PrintItem, AfterItem
<1>10. ASSUME NEW r \in Readers, ReaderUnlock(r)
      PROVE  Generations'
    BY <1>10 DEF ReaderUnlock
<1>11. ASSUME NEW r \in Readers, Settle(r)
      PROVE  Generations'
    BY <1>11 DEF Settle
<1>12. CASE UNCHANGED <<rpc, rgen, generation>>
    BY <1>12
<1>13. QED
    BY <1>1, <1>2, <1>3, <1>4, <1>5, <1>6, <1>7, <1>8, <1>9,
       <1>10, <1>11, <1>12
    DEF Next, WriterStep, ReaderStep, vars, SetPolicy, WriterLock,
       RejectStale, AcceptGeneration, Reconcile, AssignPolicy, WriterUnlock,
       RetireOld, ChangeRuntime, CopyRest, HookStep,
       is_hook_active, MaskKnown, is_target_uid_val, TargetKnown,
       FreeSnapshot, Return

\* No change stays unannounced except inside a build.
LEMMA AnnouncedStep ==
    TypeOK /\ Generations /\ Announced /\ [Next]_vars => Announced'
<1> SUFFICES ASSUME TypeOK, Generations, Announced, [Next]_vars,
                    NEW q \in Readers, NEW i \in Items, i \notin Unread(q)'
             PROVE  Fresh(q, i)'
    BY DEF Announced
<1> USE DEF TypeOK, writerVars, readerVars, hookVars, rcuVars
<1>1. i \notin Unread(q) => Fresh(q, i)
    BY DEF Announced
\* Steps that leave the reader and the generation alone.
<1>2. ASSUME UNCHANGED <<readerVars, generation>>,
             \/ BeforeBump' # {}
             \/ UNCHANGED content /\ BeforeBump \subseteq BeforeBump'
      PROVE  Fresh(q, i)'
    BY <1>1, <1>2 DEF Fresh, Unread, Building
\* A publication leaves its publisher before the increment.
<1>3. ASSUME NEW w \in Writers, AssignPolicy(w)
      PROVE  Fresh(q, i)'
  <2>1. w \in BeforeBump'
    BY <1>3 DEF AssignPolicy, BeforeBump
  <2>2. QED
    BY <1>2, <1>3, <2>1 DEF AssignPolicy
<1>4. ASSUME NEW u \in Updaters, ChangeRuntime(u)
      PROVE  Fresh(q, i)'
  <2>1. u \in BeforeBump'
    BY <1>4 DEF ChangeRuntime, BeforeBump
  <2>2. QED
    BY <1>2, <1>4, <2>1 DEF ChangeRuntime
\* The other steps of a writer keep BeforeBump.
<1>5. ASSUME NEW w \in Writers,
             \/ SetPolicy(w) \/ WriterLock(w) \/ RejectStale(w)
             \/ AcceptGeneration(w) \/ Reconcile(w) \/ WriterUnlock(w)
             \/ RetireOld(w)
      PROVE  Fresh(q, i)'
  <2>1. UNCHANGED <<upc, content, readerVars, generation>>
    BY <1>5 DEF SetPolicy, WriterLock, RejectStale, AcceptGeneration, Reconcile,
         WriterUnlock, RetireOld
  <2>2. \A v \in Writers : wpc[v] \in {"unlock", "retire", "bump"} =>
                           wpc'[v] \in {"unlock", "retire", "bump"}
    BY <1>5 DEF SetPolicy, WriterLock, RejectStale, AcceptGeneration, Reconcile,
         WriterUnlock, RetireOld, Return
  <2>3. BeforeBump \subseteq BeforeBump'
    BY <2>1, <2>2 DEF BeforeBump
  <2>4. QED
    BY <1>2, <2>1, <2>3
\* An increment wakes every reader that is not building and marks the others.
<1>6. ASSUME BumpGeneration, UNCHANGED <<rpc, rgen>>
      PROVE  Fresh(q, i)'
  <2>1. CASE Building(q)
    BY <1>6, <2>1 DEF BumpGeneration, Fresh
  <2>2. CASE ~Building(q)
    BY <1>6, <2>2 DEF BumpGeneration, Fresh, Building, Generations
  <2>3. QED
    BY <2>1, <2>2
<1>7. ASSUME NEW w \in Writers, WriterBump(w)
      PROVE  Fresh(q, i)'
    BY <1>6, <1>7 DEF WriterBump
<1>8. ASSUME NEW u \in Updaters, UpdaterBump(u)
      PROVE  Fresh(q, i)'
    BY <1>6, <1>8 DEF UpdaterBump
\* A reader's step.
<1>9. ASSUME NEW r \in Readers, ReaderStep(r)
      PROVE  Fresh(q, i)'
  <2>1. UNCHANGED <<content, generation, BeforeBump>>
    BY <1>9 DEF ReaderStep, BeginRefill, Woken, Interrupted, SizeBuffer,
         AllocFails, AllocSucceeds, PrintItem, ReaderUnlock, Settle, CopyRest,
         BeforeBump
  <2>2. CASE q # r
    <3>1. /\ rpc'[q] = rpc[q]
          /\ rgen'[q] = rgen[q]
          /\ rdoc'[q] = rdoc[q]
          /\ q \in raced' <=> q \in raced
      BY <1>9, <2>2 DEF ReaderStep, BeginRefill, Woken, Interrupted, SizeBuffer,
           AllocFails, AllocSucceeds, PrintItem, ReaderUnlock, Settle, CopyRest
    <3>2. QED
      BY <1>1, <2>1, <3>1 DEF Fresh, Unread, Building
  <2>3. CASE q = r /\ rpc[r] \notin Items \cup {"unlock", "settle"}
    <3>1. rpc'[r] # "clear"
      BY <2>3 DEF Unread
    <3>2. UNCHANGED <<rgen, rdoc, raced>> /\ ~Building(r) /\ ~Building(r)'
      BY <1>9, <2>3, <3>1 DEF ReaderStep, BeginRefill, Woken, Interrupted,
           SizeBuffer, AllocFails, AllocSucceeds, PrintItem, ReaderUnlock,
           Settle, CopyRest, Building, Items, RuntimeItems
    <3>3. i \notin Unread(q)
      BY <2>3 DEF Unread, Items, RuntimeItems
    <3>4. QED
      BY <1>1, <2>1, <2>3, <3>2, <3>3 DEF Fresh
  <2>4. CASE q = r /\ rpc[r] \in Items
    <3>1. PrintItem(r)
      BY <1>9, <2>4 DEF ReaderStep, BeginRefill, Woken, Interrupted, SizeBuffer,
           AllocFails, AllocSucceeds, ReaderUnlock, Settle, CopyRest, Items,
           RuntimeItems
    <3>2. CASE i = rpc[r]
      BY <2>1, <2>4, <3>1, <3>2 DEF PrintItem, Fresh
    <3>3. CASE i # rpc[r]
      <4>1. i \notin Unread(q) /\ Building(r) /\ Building(r)'
        BY <2>4, <3>1, <3>3 DEF PrintItem, AfterItem, Unread, Building, Items,
             RuntimeItems
      <4>2. UNCHANGED <<rgen, raced>> /\ rdoc'[r][i] = rdoc[r][i]
        BY <3>1, <3>3 DEF PrintItem
      <4>3. QED
        BY <1>1, <2>1, <2>4, <4>1, <4>2 DEF Fresh
    <3>4. QED
      BY <3>2, <3>3
  <2>5. CASE q = r /\ rpc[r] \in {"unlock", "settle"}
    <3>1. i \notin Unread(q) /\ Building(r)
      BY <2>5 DEF Unread, Building
    <3>2. UNCHANGED <<rdoc, raced>>
      BY <1>9, <2>5 DEF ReaderStep, BeginRefill, Woken, Interrupted, SizeBuffer,
           AllocFails, AllocSucceeds, PrintItem, ReaderUnlock, Settle, CopyRest,
           Items, RuntimeItems
    <3>3. QED
      BY <1>1, <2>1, <2>5, <3>1, <3>2 DEF Fresh
  <2>6. QED
    BY <2>2, <2>3, <2>4, <2>5
<1>10. ASSUME \/ \E h \in Hooks : HookStep(h)
              \/ \E s \in Snapshots : FreeSnapshot(s)
              \/ UNCHANGED vars
       PROVE  Fresh(q, i)'
  <2>1. UNCHANGED <<wpc, upc, content, readerVars, generation>>
    BY <1>10 DEF HookStep,
       is_hook_active, MaskKnown, is_target_uid_val, TargetKnown, FreeSnapshot, vars
  <2>2. BeforeBump = BeforeBump'
    BY <2>1 DEF BeforeBump
  <2>3. QED
    BY <1>2, <2>1, <2>2
<1>11. QED
    BY <1>3, <1>4, <1>5, <1>7, <1>8, <1>9, <1>10 DEF Next, WriterStep

-----------------------------------------------------------------------------
\* The state after vpnhide_init satisfies the invariant.
LEMMA InitInvariant == Init => IInv
<1> SUFFICES ASSUME Init PROVE IInv
    OBVIOUS
<1> USE DEF Init, Items, RuntimeItems, policy
<1>1. TypeOK
    BY DEF TypeOK
<1>2. Locking /\ OneSnapshot
    BY DEF Locking, OneSnapshot, WritersInside, ReadersInside
<1>3. Publishing /\ GracePeriods /\ Acknowledging /\ HookLookups
    BY DEF Publishing, GracePeriods, Acknowledging, HookLookups
<1>4. RefillDeliversAcknowledgedPolicy
    BY DEF RefillDeliversAcknowledgedPolicy
<1>5. DocumentsNotAhead /\ Generations
    BY DEF DocumentsNotAhead, Generations, Building
<1>6. Announced
    BY DEF Announced, Fresh
<1>7. QED
    BY <1>1, <1>2, <1>3, <1>4, <1>5, <1>6 DEF IInv

\* The strengthened invariant holds in every reachable state, whatever the
\* number of threads, files, hooks, publications and read() calls.
THEOREM Invariance == Spec => []IInv
<1>1. IInv /\ [Next]_vars => IInv'
    BY TypeStep, LockingStep, PublishingStep, OneSnapshotStep,
       GracePeriodsStep, AcknowledgingStep, HookLookupsStep, DeliveryStep,
       DocumentsStep, GenerationsStep, AnnouncedStep DEF IInv
<1>2. QED
    BY InitInvariant, <1>1, PTL DEF Spec

\* Every variable of the control path keeps its type.
THEOREM TypeCorrectness == Spec => []TypeOK
<1>1. IInv => TypeOK
    BY DEF IInv
<1>2. QED
    BY Invariance, <1>1, PTL

\* vpnhide_dev_read prints the lists of the very snapshot it sized its buffer
\* for, and that snapshot has not been freed: policy_apply_lock is held from
\* the one look to the other, and call_rcu comes after a replacement.
THEOREM RefillIsComplete == Spec => []RefillUsesOneLiveSnapshot
<1>1. IInv => RefillUsesOneLiveSnapshot
    BY DEF IInv, OneSnapshot, GracePeriods, RefillUsesOneLiveSnapshot, TypeOK,
       policy, Items, RuntimeItems
<1>2. QED
    BY Invariance, <1>1, PTL

\* No hook dereferences a snapshot that call_rcu has freed.
THEOREM NoUseAfterFree == Spec => []HooksUseLiveSnapshots
<1>1. IInv => HooksUseLiveSnapshots
    BY DEF IInv, GracePeriods, HooksUseLiveSnapshots, TypeOK
<1>2. QED
    BY Invariance, <1>1, PTL

\* A hook entered after VH_SET_POLICY returned 0 takes its mask and its target
\* list from that policy or newer ones, the list never from an older policy
\* than the mask.
THEOREM HooksNeverGoBack == Spec => []LookupsFollowAcknowledgedPolicies
<1>1. IInv => LookupsFollowAcknowledgedPolicies
    BY DEF IInv, HookLookups, LookupsFollowAcknowledgedPolicies
<1>2. QED
    BY Invariance, <1>1, PTL

\* A refill begun after VH_SET_POLICY returned 0 delivers that policy or a
\* newer one.
THEOREM ReadYourWrites == Spec => []RefillDeliversAcknowledgedPolicy
<1>1. IInv => RefillDeliversAcknowledgedPolicy
    BY DEF IInv
<1>2. QED
    BY Invariance, <1>1, PTL

\* The build that overlaps an increment of the generation is the only window
\* in which vpnhide_dev_read can lose a wakeup.
THEOREM LostWakeupWindow == Spec => []UnwokenStaleReaderIsExplained
<1>1. IInv => UnwokenStaleReaderIsExplained
  <2> SUFFICES ASSUME IInv, NEW r \in Readers, rpc[r] \in {"idle", "wait"},
                      rgen[r] >= generation, BeforeBump = {}, r \notin raced
               PROVE  rdoc[r] = content
    BY DEF UnwokenStaleReaderIsExplained
  <2>1. rgen[r] \in Nat /\ generation \in Nat
    BY DEF IInv, TypeOK
  <2>2. Unread(r) = {}
    BY DEF Unread
  <2>3. \A i \in Items : rdoc[r][i] = content[i]
    BY <2>1, <2>2 DEF IInv, Announced, Fresh
  <2>4. QED
    BY <2>3 DEF IInv, TypeOK
<1>2. QED
    BY Invariance, <1>1, PTL

-----------------------------------------------------------------------------
\* Documents never run backwards: the items of a later build are at least
\* those of the build before.
THEOREM DocumentsOnlyMoveForward == Spec => DocumentsMoveForward
<1>1. ASSUME IInv, [Next]_vars
      PROVE  \A r \in Readers, i \in Items : rdoc'[r][i] >= rdoc[r][i]
  <2> USE <1>1 DEF IInv, TypeOK
  <2>1. CASE UNCHANGED rdoc
    BY <2>1
  <2>2. ASSUME NEW q \in Readers, PrintItem(q)
        PROVE  \A r \in Readers, i \in Items : rdoc'[r][i] >= rdoc[r][i]
    BY <2>2 DEF PrintItem, DocumentsNotAhead
  <2>3. QED
    BY <2>1, <2>2 DEF Next, WriterStep, ReaderStep, vars, readerVars, SetPolicy,
       WriterLock, RejectStale, AcceptGeneration, Reconcile, AssignPolicy,
       WriterUnlock, RetireOld, WriterBump, ChangeRuntime, UpdaterBump,
       BeginRefill, Woken, Interrupted, SizeBuffer, AllocFails, AllocSucceeds,
       ReaderUnlock, Settle, CopyRest, HookStep,
       is_hook_active, MaskKnown, is_target_uid_val, TargetKnown, FreeSnapshot
<1>2. QED
  <2>1. IInv /\ [Next]_vars =>
            [\A r \in Readers, i \in Items : rdoc'[r][i] >= rdoc[r][i]]_vars
    BY <1>1
  <2>2. QED
    BY Invariance, <2>1, PTL DEF Spec, DocumentsMoveForward

\* The snapshot changes only under policy_apply_lock, held by the one writer
\* that publishes; rejected writers and readers never change it.
THEOREM OnlyTheLockOwnerPublishes == Spec => OnlyLockOwnerPublishes
<1>1. ASSUME IInv, [Next]_vars, content'["policy"] # content["policy"]
      PROVE  mutex \in Writers /\ WritersInside = {mutex} /\ ReadersInside = {}
  <2> USE <1>1 DEF IInv
  <2>1. PICK w \in Writers : AssignPolicy(w)
    BY DEF Next, WriterStep, ReaderStep, vars, SetPolicy,
       WriterLock, RejectStale, AcceptGeneration, Reconcile,
       WriterUnlock, RetireOld, WriterBump, ChangeRuntime, UpdaterBump,
       BeginRefill, Woken, Interrupted, SizeBuffer, AllocFails, AllocSucceeds,
       PrintItem, ReaderUnlock, Settle, CopyRest, HookStep,
       is_hook_active, MaskKnown, is_target_uid_val, TargetKnown,
       FreeSnapshot, TypeOK, Items, RuntimeItems
  <2>2. w \in WritersInside /\ mutex = w
    BY <2>1 DEF AssignPolicy, Locking, WritersInside
  <2>3. QED
    BY <2>2 DEF Locking, WritersInside, ReadersInside
<1>2. QED
  <2>1. IInv /\ [Next]_vars =>
            [content'["policy"] # content["policy"] =>
                /\ mutex \in Writers
                /\ WritersInside = {mutex}
                /\ ReadersInside = {}]_vars
    BY <1>1
  <2>2. QED
    BY Invariance, <2>1, PTL DEF Spec, OnlyLockOwnerPublishes

-----------------------------------------------------------------------------
(* The control path implements the abstract configuration stream: every    *)
(* step of PolicyPublish is a step of ConfigStream, or invisible there.    *)

behindBar == [r \in Readers |-> rgen[r] < generation]
stateBar  == [r \in Readers |-> IF Building(r) THEN "building" ELSE "idle"]
unreadBar == [r \in Readers |-> Unread(r)]

\* The device starts where the stream starts: all readers behind, no build.
LEMMA InitRefines == Init => Stream!Init
<1> SUFFICES ASSUME Init PROVE Stream!Init
    OBVIOUS
<1>1. \A r \in Readers : rgen[r] < generation /\ ~Building(r) /\ Unread(r) = {}
    BY DEF Init, Building, Unread, Items, RuntimeItems
<1>2. BeforeBump = {}
    BY DEF Init, BeforeBump
<1>3. QED
    BY <1>1, <1>2 DEF Init, Stream!Init

\* What a step must leave alone to be invisible.
LEMMA Invisible ==
    ASSUME UNCHANGED <<content, rdoc, rgen, generation, BeforeBump>>,
           \A r \in Readers : /\ Building(r)' <=> Building(r)
                              /\ Unread(r)' = Unread(r)
    PROVE  UNCHANGED Stream!vars
BY DEF Stream!vars

\* Every step of a writer, updater, reader, hook or grace period is a step of
\* the stream or leaves it alone.
LEMMA StepRefines ==
    IInv /\ [Next]_vars => [Stream!Next]_(Stream!vars)
<1> SUFFICES ASSUME IInv, [Next]_vars PROVE [Stream!Next]_(Stream!vars)
    OBVIOUS
<1> USE DEF writerVars, readerVars, hookVars, rcuVars
<1>0. TypeOK /\ Locking /\ Publishing /\ Generations
    BY DEF IInv
<1>1. ASSUME NEW w \in Writers,
             \/ SetPolicy(w) \/ WriterLock(w) \/ RejectStale(w)
             \/ AcceptGeneration(w) \/ Reconcile(w) \/ WriterUnlock(w)
             \/ RetireOld(w)
      PROVE  UNCHANGED Stream!vars
  <2>1. UNCHANGED <<upc, content, readerVars, generation>>
    BY <1>1 DEF SetPolicy, WriterLock, RejectStale, AcceptGeneration, Reconcile,
         WriterUnlock, RetireOld
  <2>2. \A v \in Writers : wpc'[v] \in {"unlock", "retire", "bump"} <=>
                           wpc[v] \in {"unlock", "retire", "bump"}
    BY <1>0, <1>1 DEF TypeOK, SetPolicy, WriterLock, RejectStale,
         AcceptGeneration, Reconcile, WriterUnlock, RetireOld, Return
  <2>3. BeforeBump' = BeforeBump
    BY <2>1, <2>2 DEF BeforeBump
  <2>4. QED
    BY <2>1, <2>3, Invisible DEF Building, Unread
<1>2. ASSUME NEW w \in Writers, AssignPolicy(w)
      PROVE  Stream!Change(w, "policy")
  <2>1. w \notin BeforeBump /\ BeforeBump' = BeforeBump \cup {w}
    BY <1>0, <1>2 DEF TypeOK, AssignPolicy, BeforeBump
  <2>2. content["policy"] < MaxPolicies + MaxRuntime
    BY <1>0, <1>2 DEF TypeOK, AssignPolicy, Publishing, policy, Items,
         RuntimeItems
  <2>3. QED
    BY <1>2, <2>1, <2>2 DEF AssignPolicy, Stream!Change, Building, Unread
<1>3. ASSUME NEW u \in Updaters, ChangeRuntime(u)
      PROVE  \E i \in Items : Stream!Change(u, i)
  <2>1. u \notin BeforeBump /\ BeforeBump' = BeforeBump \cup {u}
    BY <1>0, <1>3 DEF TypeOK, ChangeRuntime, BeforeBump
  <2>2. PICK i \in RuntimeItems : content' = [content EXCEPT ![i] = @ + 1]
    BY <1>3, Zenon DEF ChangeRuntime
  <2>3. content[i] < MaxPolicies + MaxRuntime /\ i \in Items
    BY <1>0, <1>3 DEF TypeOK, ChangeRuntime, Items, RuntimeItems
  <2>4. QED
    BY <1>3, <2>1, <2>2, <2>3 DEF ChangeRuntime, Stream!Change, Building, Unread
\* Every reader's generation is at most the old one, so all are behind now.
<1>4. ASSUME BumpGeneration, UNCHANGED <<rpc, rgen, rdoc, content>>,
             NEW p \in Writers \cup Updaters, p \in BeforeBump,
             BeforeBump' = BeforeBump \ {p}
      PROVE  Stream!Announce(p)
  <2>1. \A r \in Readers : rgen[r] < generation'
    BY <1>0, <1>4 DEF TypeOK, BumpGeneration, Generations
  <2>2. behindBar' = [r \in Readers |-> TRUE]
    BY <1>4, <2>1, Zenon DEF behindBar
  <2>3. QED
    BY <1>4, <2>2 DEF Stream!Announce, behindBar, Building, Unread
<1>5. ASSUME NEW w \in Writers, WriterBump(w)
      PROVE  Stream!Announce(w)
  <2>1. w \in BeforeBump /\ BeforeBump' = BeforeBump \ {w}
    BY <1>0, <1>5 DEF TypeOK, WriterBump, Return, BeforeBump
  <2>2. QED
    BY <1>4, <1>5, <2>1 DEF WriterBump
<1>6. ASSUME NEW u \in Updaters, UpdaterBump(u)
      PROVE  Stream!Announce(u)
  <2>1. u \in BeforeBump /\ BeforeBump' = BeforeBump \ {u}
    BY <1>0, <1>6 DEF TypeOK, UpdaterBump, BeforeBump
  <2>2. QED
    BY <1>4, <1>6, <2>1 DEF UpdaterBump
<1>7. ASSUME NEW r \in Readers, ReaderStep(r)
      PROVE  [Stream!Next]_(Stream!vars)
  <2>0. DOMAIN rpc = Readers /\ DOMAIN rgen = Readers /\ generation \in Nat
    BY <1>0 DEF TypeOK
  <2>1. UNCHANGED <<content, generation, BeforeBump>>
    BY <1>7 DEF ReaderStep, BeginRefill, Woken, Interrupted, SizeBuffer,
         AllocFails, AllocSucceeds, PrintItem, ReaderUnlock, Settle, CopyRest,
         BeforeBump
  <2>2. CASE \/ BeginRefill(r) \/ Woken(r) \/ Interrupted(r) \/ SizeBuffer(r)
             \/ AllocFails(r) \/ ReaderUnlock(r) \/ CopyRest(r)
    <3>1. UNCHANGED <<rdoc, rgen>>
      BY <2>2 DEF BeginRefill, Woken, Interrupted, SizeBuffer, AllocFails,
           ReaderUnlock, CopyRest
    <3>2. CASE UNCHANGED rpc
      BY <2>1, <3>1, <3>2, Invisible DEF Building, Unread
    <3>3. ASSUME NEW x, rpc' = [rpc EXCEPT ![r] = x],
                 \/ /\ rpc[r] \in {"idle", "wait", "lock", "alloc"}
                    /\ x \in {"idle", "wait", "lock", "alloc"}
                 \/ rpc[r] = "unlock" /\ x = "settle"
          PROVE  UNCHANGED Stream!vars
      <4>1. /\ rpc'[r] = x
            /\ \A q \in Readers : q # r => /\ Building(q)' <=> Building(q)
                                         /\ Unread(q)' = Unread(q)
        BY <2>0, <3>3 DEF Building, Unread
      <4>2. (Building(r)' <=> Building(r)) /\ Unread(r)' = Unread(r)
        BY <3>3, <4>1 DEF Building, Unread, Items, RuntimeItems
      <4>3. QED
        BY <2>1, <3>1, <4>1, <4>2, Invisible
    <3>4. CASE BeginRefill(r)
      BY <3>3, <3>4 DEF BeginRefill
    <3>5. CASE Woken(r) \/ Interrupted(r)
      BY <3>3, <3>5 DEF Woken, Interrupted
    <3>6. CASE SizeBuffer(r) \/ AllocFails(r)
      BY <3>3, <3>6 DEF SizeBuffer, AllocFails
    <3>7. CASE ReaderUnlock(r)
      BY <3>3, <3>7 DEF ReaderUnlock
    <3>8. CASE CopyRest(r)
      BY <3>2, <3>8 DEF CopyRest
    <3>9. QED
      BY <2>2, <3>4, <3>5, <3>6, <3>7, <3>8
  <2>3. CASE AllocSucceeds(r)
    <3>1. rpc[r] = "alloc" /\ rpc' = [rpc EXCEPT ![r] = "clear"] /\ UNCHANGED <<rdoc, rgen>>
      BY <2>3 DEF AllocSucceeds
    <3>2. rgen[r] < generation /\ ~Building(r)
      BY <1>0, <3>1 DEF Generations, Building, Items, RuntimeItems
    <3>3. /\ rpc'[r] = "clear"
          /\ \A q \in Readers : q # r => /\ Building(q)' <=> Building(q)
                                       /\ Unread(q)' = Unread(q)
      BY <2>0, <3>1 DEF Building, Unread
    <3>4. stateBar' = [stateBar EXCEPT ![r] = "building"]
      <4>1. Building(r)'
        BY <3>3 DEF Building, Items, RuntimeItems
      <4>2. QED
        BY <3>3, <4>1 DEF stateBar
    <3>5. unreadBar' = [unreadBar EXCEPT ![r] = Items]
      <4>1. Unread(r)' = Items
        BY <3>3 DEF Unread
      <4>2. QED
        BY <3>3, <4>1 DEF unreadBar
    <3>6. Stream!Start(r)
      BY <2>1, <3>1, <3>2, <3>4, <3>5 DEF Stream!Start, stateBar, unreadBar
    <3>7. QED
      BY <3>6 DEF Stream!Next
  <2>4. CASE PrintItem(r)
    <3>1. /\ rpc[r] \in Items
          /\ rpc' = [rpc EXCEPT ![r] = AfterItem[rpc[r]]]
          /\ rdoc' = [rdoc EXCEPT ![r][rpc[r]] = content[rpc[r]]]
          /\ UNCHANGED rgen
      BY <2>4 DEF PrintItem
    <3>2. rpc[r] \in Unread(r) /\ Building(r)
      BY <3>1 DEF Unread, Building, Items, RuntimeItems
    <3>3. /\ rpc'[r] = AfterItem[rpc[r]]
          /\ \A q \in Readers : q # r => /\ Building(q)' <=> Building(q)
                                       /\ Unread(q)' = Unread(q)
      BY <2>0, <3>1 DEF Building, Unread
    <3>4. stateBar' = stateBar
      <4>1. Building(r)'
        BY <3>1, <3>3 DEF Building, AfterItem, Items, RuntimeItems
      <4>2. QED
        BY <3>2, <3>3, <4>1 DEF stateBar
    <3>5. unreadBar' = [unreadBar EXCEPT ![r] = @ \ {rpc[r]}]
      <4>1. Unread(r)' = Unread(r) \ {rpc[r]}
        BY <3>1, <3>3 DEF AfterItem, Unread, Items, RuntimeItems
      <4>2. QED
        BY <3>3, <4>1 DEF unreadBar
    <3>6. Stream!PrintItem(r, rpc[r])
      BY <2>1, <3>1, <3>2, <3>4, <3>5 DEF Stream!PrintItem, stateBar, unreadBar
    <3>7. QED
      BY <3>1, <3>6 DEF Stream!Next
  <2>5. CASE Settle(r)
    <3>1. /\ rpc[r] = "settle" /\ rpc' = [rpc EXCEPT ![r] = "idle"]
          /\ rgen' = [rgen EXCEPT ![r] = generation]
          /\ UNCHANGED rdoc
      BY <2>5 DEF Settle
    <3>2. Building(r) /\ Unread(r) = {}
      BY <3>1 DEF Unread, Building
    <3>3. /\ rpc'[r] = "idle"
          /\ \A q \in Readers : q # r => /\ Building(q)' <=> Building(q)
                                       /\ Unread(q)' = Unread(q)
      BY <2>0, <3>1 DEF Building, Unread
    <3>4. stateBar' = [stateBar EXCEPT ![r] = "idle"]
      <4>1. ~Building(r)'
        BY <3>3 DEF Building, Items, RuntimeItems
      <4>2. QED
        BY <3>3, <4>1 DEF stateBar
    <3>5. unreadBar' = unreadBar
      <4>1. Unread(r)' = {}
        BY <3>3 DEF Unread
      <4>2. QED
        BY <3>2, <3>3, <4>1 DEF unreadBar
    <3>6. behindBar' = [behindBar EXCEPT ![r] = FALSE]
      <4>1. (rgen'[r] < generation') = FALSE
        BY <2>0, <2>1, <3>1
      <4>2. \A q \in Readers : q # r =>
                (rgen'[q] < generation') = (rgen[q] < generation)
        BY <2>0, <2>1, <3>1
      <4>3. QED
        BY <4>1, <4>2, Zenon DEF behindBar
    <3>7. Stream!Settle(r)
      BY <2>1, <3>1, <3>2, <3>4, <3>5, <3>6 DEF Stream!Settle, stateBar,
           unreadBar, behindBar
    <3>8. QED
      BY <3>7 DEF Stream!Next
  <2>6. QED
    BY <1>7, <2>2, <2>3, <2>4, <2>5 DEF ReaderStep
<1>8. ASSUME \/ \E h \in Hooks : HookStep(h)
             \/ \E s \in Snapshots : FreeSnapshot(s)
             \/ UNCHANGED vars
      PROVE  UNCHANGED Stream!vars
  <2>1. UNCHANGED <<wpc, upc, content, readerVars, generation>>
    BY <1>8 DEF HookStep, is_hook_active, MaskKnown, is_target_uid_val, TargetKnown,
         FreeSnapshot, vars
  <2>2. QED
    BY <2>1, Invisible DEF BeforeBump, Building, Unread
<1>9. "policy" \in Items
    BY DEF Items
<1>10. QED
    BY <1>1, <1>2, <1>3, <1>5, <1>6, <1>7, <1>8, <1>9 DEF Next, WriterStep,
       Stream!Next

\* vpnhide_dev_read, VH_SET_POLICY and the runtime updates implement the
\* stream that ConfigStream describes.
THEOREM Implementation == Spec => ImplementsConfigStream
<1>1. QED
    BY Invariance, InitRefines, StepRefines, PTL
       DEF Spec, ImplementsConfigStream, Stream!Spec
=============================================================================
