--------------------------- MODULE PolicyPublish ---------------------------
(***************************************************************************)
(* The control path of the kernel module: VH_SET_POLICY transactions, the  *)
(* runtime updates that share the configuration generation, the document   *)
(* stream served by read() on /dev/vpnhide_ctrl, and the RCU lifetime of   *)
(* the published policy snapshots.                                         *)
(*                                                                         *)
(* A snapshot is identified by its publication number: number n is the     *)
(* n-th snapshot assigned to global_policy_snapshot, 0 is the NULL pointer *)
(* before the first one.  The other items of the document (active VPN      *)
(* list, cover interface name, java clear generation) are numbered the     *)
(* same way, so that "newer" is "greater".                                 *)
(***************************************************************************)
EXTENDS Naturals

CONSTANTS
    Writers,      \* threads inside ioctl(VH_SET_POLICY)
    Updaters,     \* threads inside VH_SET_VPN_IFINDEXES or write()
    Readers,      \* open files whose owner calls read() in a loop
    Hooks,        \* CPUs running a hook
    Nobody,       \* no owner: not a thread
    MaxPolicies,  \* bound: snapshots published
    MaxRuntime,   \* bound: changes of the runtime items
    Chunks        \* read() calls that one document takes

ASSUME ConstantsAssumption ==
    /\ MaxPolicies \in Nat
    /\ MaxRuntime \in Nat
    /\ Chunks \in Nat \ {0}
    /\ Nobody \notin Writers \cup Readers
    /\ Writers \cap Readers = {}
    /\ Writers \cap Updaters = {}

RuntimeItems == {"clear", "vpns", "cover"}
Items == RuntimeItems \cup {"policy"}

VARIABLES
    mutex,        \* policy_apply_lock: its owner or Nobody
    content,      \* what the kernel currently holds, per item
    generation,   \* vpnhide_config_generation
    \* VH_SET_POLICY threads
    wpc, wexpected, wold,
    \* runtime updaters
    upc,
    \* struct vpnhide_dev_reader and the thread reading through it
    rpc, rgen, rsize, rdoc, rleft,
    \* hooks (the snapshot held now, the one the first lookup used) and RCU
    hpc, hook, hfirst, retired, waits, freed,
    \* history: the policy current when a writer sampled the generation, the
    \* newest policy whose ioctl returned 0, that number when a refill or a
    \* hook began, and the readers whose last build saw the generation move
    wseen, acked, rlow, hlow, raced

writerVars == <<wpc, wexpected, wold, wseen>>
readerVars == <<rpc, rgen, rsize, rdoc, rleft, rlow, raced>>
hookVars   == <<hpc, hook, hfirst, hlow>>
rcuVars    == <<hookVars, retired, waits, freed>>
vars == <<mutex, content, generation, writerVars, upc, readerVars, rcuVars,
          acked>>

Snapshots == 1..MaxPolicies
policy == content["policy"]

Init ==
    /\ mutex = Nobody
    /\ content = [i \in Items |-> 0]
    /\ generation = 1
    /\ wpc = [w \in Writers |-> "idle"]
    /\ wexpected = [w \in Writers |-> 0]
    /\ wold = [w \in Writers |-> 0]
    /\ wseen = [w \in Writers |-> 0]
    /\ upc = [u \in Updaters |-> "idle"]
    /\ rpc = [r \in Readers |-> "idle"]
    /\ rgen = [r \in Readers |-> 0]
    /\ rsize = [r \in Readers |-> 0]
    /\ rdoc = [r \in Readers |-> [i \in Items |-> 0]]
    /\ rleft = [r \in Readers |-> 0]
    /\ rlow = [r \in Readers |-> 0]
    /\ raced = {}
    /\ hpc = [h \in Hooks |-> "idle"]
    /\ hook = [h \in Hooks |-> 0]
    /\ hfirst = [h \in Hooks |-> 0]
    /\ hlow = [h \in Hooks |-> 0]
    /\ retired = {}
    /\ waits = [s \in Snapshots |-> {}]
    /\ freed = {}
    /\ acked = 0

Building(r) == rpc[r] \in Items \cup {"unlock", "settle"}

\* atomic_inc(&vpnhide_config_generation); wake_up_interruptible(...)
BumpGeneration ==
    /\ generation' = generation + 1
    /\ raced' = raced \cup {r \in Readers : Building(r)}

-----------------------------------------------------------------------------
(* VH_SET_POLICY.  A malformed payload is rejected before the lock is      *)
(* taken and leaves every variable alone, so it is no action here.         *)

\* Leaving publish_policy_snapshot: the locals go out of scope.
Return(w) ==
    /\ wpc' = [wpc EXCEPT ![w] = "idle"]
    /\ wexpected' = [wexpected EXCEPT ![w] = 0]
    /\ wold' = [wold EXCEPT ![w] = 0]
    /\ wseen' = [wseen EXCEPT ![w] = 0]

\* The client passes 0 (unconditional) or the generation it believes current.
SetPolicy(w) ==
    /\ wpc[w] = "idle"
    /\ policy < MaxPolicies
    /\ \E e \in {0, generation} : wexpected' = [wexpected EXCEPT ![w] = e]
    /\ wseen' = [wseen EXCEPT ![w] = policy]
    /\ wpc' = [wpc EXCEPT ![w] = "lock"]
    /\ UNCHANGED <<mutex, content, generation, wold, upc, readerVars, rcuVars,
                   acked>>

\* Wrong variant: the lock is not exclusive.
WriterLockShared(w) ==
    /\ wpc[w] = "lock"
    /\ mutex' = w
    /\ wpc' = [wpc EXCEPT ![w] = "check"]
    /\ UNCHANGED <<content, generation, wexpected, wold, wseen, upc,
                   readerVars, rcuVars, acked>>

WriterLock(w) ==
    /\ wpc[w] = "lock"
    /\ mutex = Nobody
    /\ mutex' = w
    /\ wpc' = [wpc EXCEPT ![w] = "check"]
    /\ UNCHANGED <<content, generation, wexpected, wold, wseen, upc,
                   readerVars, rcuVars, acked>>

\* -EAGAIN: unlock, free the private snapshot, return.
RejectStale(w) ==
    /\ wpc[w] = "check"
    /\ wexpected[w] # 0
    /\ wexpected[w] # generation
    /\ mutex' = Nobody
    /\ Return(w)
    /\ UNCHANGED <<content, generation, upc, readerVars, rcuVars, acked>>

AcceptGeneration(w) ==
    /\ wpc[w] = "check"
    /\ wexpected[w] = 0 \/ wexpected[w] = generation
    /\ wpc' = [wpc EXCEPT ![w] = "reconcile"]
    /\ UNCHANGED <<mutex, content, generation, wexpected, wold, wseen, upc,
                   readerVars, rcuVars, acked>>

\* Wrong variant: a failed transaction restores the snapshot before the last.
ReconcileRollsBack(w) ==
    /\ wpc[w] = "reconcile"
    /\ \/ /\ mutex' = Nobody
          /\ content' = [content EXCEPT !["policy"] = IF @ = 0 THEN 0 ELSE @ - 1]
          /\ Return(w)
       \/ /\ policy < MaxPolicies
          /\ wpc' = [wpc EXCEPT ![w] = "assign"]
          /\ UNCHANGED <<mutex, content, wexpected, wold, wseen>>
    /\ UNCHANGED <<generation, upc, readerVars, rcuVars, acked>>

\* kmod_stats_reconcile fails with -ENOMEM, or the transaction goes on (at the
\* bound it only fails).
Reconcile(w) ==
    /\ wpc[w] = "reconcile"
    /\ \/ /\ mutex' = Nobody
          /\ Return(w)
       \/ /\ policy < MaxPolicies
          /\ wpc' = [wpc EXCEPT ![w] = "assign"]
          /\ UNCHANGED <<mutex, wexpected, wold, wseen>>
    /\ UNCHANGED <<content, generation, upc, readerVars, rcuVars, acked>>

\* Wrong variant: the new snapshot is dropped.
AssignPolicyDropped(w) ==
    /\ wpc[w] = "assign"
    /\ wold' = [wold EXCEPT ![w] = policy]
    /\ wpc' = [wpc EXCEPT ![w] = "unlock"]
    /\ UNCHANGED <<mutex, content, generation, wexpected, wseen, upc,
                   readerVars, rcuVars, acked>>

\* rcu_assign_pointer under policy_snapshot_lock.
AssignPolicy(w) ==
    /\ wpc[w] = "assign"
    /\ wold' = [wold EXCEPT ![w] = policy]
    /\ content' = [content EXCEPT !["policy"] = @ + 1]
    /\ wpc' = [wpc EXCEPT ![w] = "unlock"]
    /\ UNCHANGED <<mutex, generation, wexpected, wseen, upc, readerVars,
                   rcuVars, acked>>

WriterUnlock(w) ==
    /\ wpc[w] = "unlock"
    /\ mutex' = Nobody
    /\ wpc' = [wpc EXCEPT ![w] = "retire"]
    /\ UNCHANGED <<content, generation, wexpected, wold, wseen, upc,
                   readerVars, rcuVars, acked>>

\* Wrong variant: kfree() in place of call_rcu.
RetireOldAtOnce(w) ==
    /\ wpc[w] = "retire"
    /\ freed' = IF wold[w] = 0 THEN freed ELSE freed \cup {wold[w]}
    /\ wpc' = [wpc EXCEPT ![w] = "bump"]
    /\ UNCHANGED <<mutex, content, generation, wexpected, wold, wseen, upc,
                   readerVars, hookVars, retired, waits, acked>>

\* call_rcu: the grace period waits for the read sections now in progress.
RetireOld(w) ==
    /\ wpc[w] = "retire"
    /\ IF wold[w] = 0
       THEN UNCHANGED <<retired, waits>>
       ELSE /\ retired' = retired \cup {wold[w]}
            /\ waits' = [waits EXCEPT ![wold[w]] = {h \in Hooks : hook[h] # 0}]
    /\ wpc' = [wpc EXCEPT ![w] = "bump"]
    /\ UNCHANGED <<mutex, content, generation, wexpected, wold, wseen, upc,
                   readerVars, hookVars, freed, acked>>

\* Wrong variant: the generation is not incremented.
WriterBumpMissing(w) ==
    /\ wpc[w] = "bump"
    /\ acked' = IF wold[w] + 1 > acked THEN wold[w] + 1 ELSE acked
    /\ Return(w)
    /\ UNCHANGED <<mutex, content, generation, upc, readerVars, rcuVars>>

\* atomic_inc, wake_up_interruptible, return 0.
WriterBump(w) ==
    /\ wpc[w] = "bump"
    /\ BumpGeneration
    /\ acked' = IF wold[w] + 1 > acked THEN wold[w] + 1 ELSE acked
    /\ Return(w)
    /\ UNCHANGED <<mutex, content, upc, rpc, rgen, rsize, rdoc, rleft, rlow,
                   rcuVars>>

-----------------------------------------------------------------------------
(* The other writers of the document: VH_SET_VPN_IFINDEXES, "cover_iface:" *)
(* and "clear_stats".  None of them takes policy_apply_lock.               *)

ChangeRuntime(u) ==
    /\ upc[u] = "idle"
    /\ content["clear"] + content["vpns"] + content["cover"] < MaxRuntime
    /\ \E i \in RuntimeItems : content' = [content EXCEPT ![i] = @ + 1]
    /\ upc' = [upc EXCEPT ![u] = "bump"]
    /\ UNCHANGED <<mutex, generation, writerVars, readerVars, rcuVars, acked>>

UpdaterBump(u) ==
    /\ upc[u] = "bump"
    /\ BumpGeneration
    /\ upc' = [upc EXCEPT ![u] = "idle"]
    /\ UNCHANGED <<mutex, content, writerVars, rpc, rgen, rsize, rdoc, rleft,
                   rlow, rcuVars, acked>>

-----------------------------------------------------------------------------
(* vpnhide_dev_read.  rpc names what the thread does next; an item's name  *)
(* means that this item is printed next.                                   *)

\* read_pos >= buf_len: the document is used up, a refill is considered.
\* A reader that is up to date waits; a nonblocking or non-system caller
\* returns at once instead, which changes nothing.
BeginRefill(r) ==
    /\ rpc[r] = "idle"
    /\ rleft[r] = 0
    /\ rpc' = [rpc EXCEPT ![r] = IF rgen[r] < generation THEN "lock" ELSE "wait"]
    /\ rlow' = [rlow EXCEPT ![r] = acked]
    /\ UNCHANGED <<mutex, content, generation, writerVars, upc, rgen, rsize,
                   rdoc, rleft, raced, rcuVars, acked>>

Woken(r) ==
    /\ rpc[r] = "wait"
    /\ generation > rgen[r]
    /\ rpc' = [rpc EXCEPT ![r] = "lock"]
    /\ UNCHANGED <<mutex, content, generation, writerVars, upc, rgen, rsize,
                   rdoc, rleft, rlow, raced, rcuVars, acked>>

\* A signal ends the wait: -ERESTARTSYS.
Interrupted(r) ==
    /\ rpc[r] = "wait"
    /\ rpc' = [rpc EXCEPT ![r] = "idle"]
    /\ UNCHANGED <<mutex, content, generation, writerVars, upc, rgen, rsize,
                   rdoc, rleft, rlow, raced, rcuVars, acked>>

\* Wrong variant: the buffer is sized before the lock is taken.
SizeBufferUnlocked(r) ==
    /\ rpc[r] = "lock"
    /\ rsize' = [rsize EXCEPT ![r] = policy]
    /\ rpc' = [rpc EXCEPT ![r] = "alloc"]
    /\ UNCHANGED <<mutex, content, generation, writerVars, upc, rgen, rdoc,
                   rleft, rlow, raced, rcuVars, acked>>

\* Take the lock and size the buffer for the current snapshot.
SizeBuffer(r) ==
    /\ rpc[r] = "lock"
    /\ mutex = Nobody
    /\ mutex' = r
    /\ rsize' = [rsize EXCEPT ![r] = policy]
    /\ rpc' = [rpc EXCEPT ![r] = "alloc"]
    /\ UNCHANGED <<content, generation, writerVars, upc, rgen, rdoc, rleft,
                   rlow, raced, rcuVars, acked>>

AllocFails(r) ==
    /\ rpc[r] = "alloc"
    /\ mutex' = Nobody
    /\ rsize' = [rsize EXCEPT ![r] = 0]
    /\ rpc' = [rpc EXCEPT ![r] = "idle"]
    /\ UNCHANGED <<content, generation, writerVars, upc, rgen, rdoc, rleft,
                   rlow, raced, rcuVars, acked>>

AllocSucceeds(r) ==
    /\ rpc[r] = "alloc"
    /\ rpc' = [rpc EXCEPT ![r] = "clear"]
    /\ raced' = raced \ {r}
    /\ UNCHANGED <<mutex, content, generation, writerVars, upc, rgen, rsize,
                   rdoc, rleft, rlow, rcuVars, acked>>

AfterItem == [clear |-> "policy", policy |-> "vpns", vpns |-> "cover",
              cover |-> "unlock"]

PrintItem(r) ==
    /\ rpc[r] \in Items
    /\ rdoc' = [rdoc EXCEPT ![r][rpc[r]] = content[rpc[r]]]
    /\ rpc' = [rpc EXCEPT ![r] = AfterItem[@]]
    /\ UNCHANGED <<mutex, content, generation, writerVars, upc, rgen, rsize,
                   rleft, rlow, raced, rcuVars, acked>>

ReaderUnlock(r) ==
    /\ rpc[r] = "unlock"
    /\ mutex' = Nobody
    /\ rsize' = [rsize EXCEPT ![r] = 0]
    /\ rpc' = [rpc EXCEPT ![r] = "settle"]
    /\ UNCHANGED <<content, generation, writerVars, upc, rgen, rdoc, rleft,
                   rlow, raced, rcuVars, acked>>

\* reader->generation = atomic_read(...); read_pos = 0; copy the first part.
Settle(r) ==
    /\ rpc[r] = "settle"
    /\ rgen' = [rgen EXCEPT ![r] = generation]
    /\ rleft' = [rleft EXCEPT ![r] = Chunks - 1]
    /\ rlow' = [rlow EXCEPT ![r] = 0]
    /\ rpc' = [rpc EXCEPT ![r] = "idle"]
    /\ UNCHANGED <<mutex, content, generation, writerVars, upc, rsize, rdoc,
                   raced, rcuVars, acked>>

\* A later read() of the same document.
CopyRest(r) ==
    /\ rpc[r] = "idle"
    /\ rleft[r] > 0
    /\ rleft' = [rleft EXCEPT ![r] = @ - 1]
    /\ UNCHANGED <<mutex, content, generation, writerVars, upc, rpc, rgen,
                   rsize, rdoc, rlow, raced, rcuVars, acked>>

-----------------------------------------------------------------------------
(* A hook asks for its mask and then for its target list, and each lookup *)
(* is an RCU read section of its own; call_rcu frees a retired snapshot    *)
(* once the sections it waits for have ended.                              *)

\* rcu_read_lock and rcu_dereference in is_hook_active.
is_hook_active(h) ==
    /\ hpc[h] = "idle"
    /\ hpc' = [hpc EXCEPT ![h] = "mask"]
    /\ hook' = [hook EXCEPT ![h] = policy]
    /\ hlow' = [hlow EXCEPT ![h] = acked]
    /\ UNCHANGED <<mutex, content, generation, writerVars, upc, readerVars,
                   hfirst, retired, waits, freed, acked>>

\* rcu_read_unlock in is_hook_active: without a snapshot, or with the hook's
\* bit clear, the hook leaves the call alone; otherwise it goes on.
MaskKnown(h) ==
    /\ hpc[h] = "mask"
    /\ \/ /\ hook[h] # 0
          /\ hpc' = [hpc EXCEPT ![h] = "active"]
          /\ hfirst' = [hfirst EXCEPT ![h] = hook[h]]
          /\ hlow' = hlow
       \/ /\ hpc' = [hpc EXCEPT ![h] = "idle"]
          /\ hfirst' = hfirst
          /\ hlow' = [hlow EXCEPT ![h] = 0]
    /\ hook' = [hook EXCEPT ![h] = 0]
    /\ waits' = [s \in Snapshots |-> waits[s] \ {h}]
    /\ UNCHANGED <<mutex, content, generation, writerVars, upc, readerVars,
                   retired, freed, acked>>

\* The read section of is_target_uid_val begins.
is_target_uid_val(h) ==
    /\ hpc[h] = "active"
    /\ hpc' = [hpc EXCEPT ![h] = "target"]
    /\ hook' = [hook EXCEPT ![h] = policy]
    /\ UNCHANGED <<mutex, content, generation, writerVars, upc, readerVars,
                   hfirst, hlow, retired, waits, freed, acked>>

\* Its end; what the hook does with the answer is no concern of this module.
TargetKnown(h) ==
    /\ hpc[h] = "target"
    /\ hpc' = [hpc EXCEPT ![h] = "idle"]
    /\ hook' = [hook EXCEPT ![h] = 0]
    /\ hfirst' = [hfirst EXCEPT ![h] = 0]
    /\ hlow' = [hlow EXCEPT ![h] = 0]
    /\ waits' = [s \in Snapshots |-> waits[s] \ {h}]
    /\ UNCHANGED <<mutex, content, generation, writerVars, upc, readerVars,
                   retired, freed, acked>>

FreeSnapshot(s) ==
    /\ s \in retired
    /\ waits[s] = {}
    /\ retired' = retired \ {s}
    /\ freed' = freed \cup {s}
    /\ UNCHANGED <<mutex, content, generation, writerVars, upc, readerVars,
                   hookVars, waits, acked>>

-----------------------------------------------------------------------------
WriterStep(w) ==
    \/ SetPolicy(w) \/ WriterLock(w) \/ RejectStale(w) \/ AcceptGeneration(w)
    \/ Reconcile(w) \/ AssignPolicy(w) \/ WriterUnlock(w) \/ RetireOld(w)
    \/ WriterBump(w)

ReaderStep(r) ==
    \/ BeginRefill(r) \/ Woken(r) \/ Interrupted(r) \/ SizeBuffer(r)
    \/ AllocFails(r) \/ AllocSucceeds(r) \/ PrintItem(r) \/ ReaderUnlock(r)
    \/ Settle(r) \/ CopyRest(r)

HookStep(h) ==
    \/ is_hook_active(h) \/ MaskKnown(h) \/ is_target_uid_val(h)
    \/ TargetKnown(h)

Next ==
    \/ \E w \in Writers : WriterStep(w)
    \/ \E u \in Updaters : ChangeRuntime(u) \/ UpdaterBump(u)
    \/ \E r \in Readers : ReaderStep(r)
    \/ \E h \in Hooks : HookStep(h)
    \/ \E s \in Snapshots : FreeSnapshot(s)

Spec == Init /\ [][Next]_vars

-----------------------------------------------------------------------------
TypeOK ==
    /\ mutex \in Writers \cup Readers \cup {Nobody}
    /\ content \in [Items -> Nat]
    /\ generation \in Nat \ {0}
    /\ wpc \in [Writers -> {"idle", "lock", "check", "reconcile", "assign",
                            "unlock", "retire", "bump"}]
    /\ wexpected \in [Writers -> Nat]
    /\ wold \in [Writers -> Nat]
    /\ wseen \in [Writers -> Nat]
    /\ upc \in [Updaters -> {"idle", "bump"}]
    /\ rpc \in [Readers -> Items \cup {"idle", "wait", "lock", "alloc",
                                       "unlock", "settle"}]
    /\ rgen \in [Readers -> Nat]
    /\ rsize \in [Readers -> Nat]
    /\ rdoc \in [Readers -> [Items -> Nat]]
    /\ rleft \in [Readers -> 0 .. Chunks - 1]
    /\ rlow \in [Readers -> Nat]
    /\ raced \in SUBSET Readers
    /\ hpc \in [Hooks -> {"idle", "mask", "active", "target"}]
    /\ hook \in [Hooks -> Nat]
    /\ hfirst \in [Hooks -> Nat]
    /\ hlow \in [Hooks -> Nat]
    /\ retired \in SUBSET Nat
    /\ waits \in [Snapshots -> SUBSET Hooks]
    /\ freed \in SUBSET Nat
    /\ acked \in Nat

WritersInside == {w \in Writers : wpc[w] \in {"check", "reconcile", "assign",
                                              "unlock"}}
\* Publishers between their change and their increment of the generation.
BeforeBump == {w \in Writers : wpc[w] \in {"unlock", "retire", "bump"}}
              \cup {u \in Updaters : upc[u] = "bump"}

\* Items that the build under way has still to print.
Unread(r) == {i \in Items : \/ rpc[r] = "clear"
                            \/ rpc[r] = "policy" /\ i # "clear"
                            \/ rpc[r] = "vpns" /\ i \in {"vpns", "cover"}
                            \/ rpc[r] = "cover" /\ i = "cover"}

ReadersInside == {r \in Readers : rpc[r] \in Items \cup {"alloc", "unlock"}}

\* vpnhide_dev_read sizes its buffer from one look at global_policy_snapshot
\* and prints the lists after another look; scnprintf silently truncates.  The
\* document fits because both looks find the same snapshot, which call_rcu has
\* not freed.
RefillUsesOneLiveSnapshot ==
    \A r \in ReadersInside : rsize[r] = policy /\ rsize[r] \notin freed

\* A hook never holds a snapshot that free_policy_snapshot_rcu has freed, however
\* many publications overtake it within one RCU read section.
HooksUseLiveSnapshots == \A h \in Hooks : hook[h] \notin freed

\* A hook takes its two lookups from different snapshots when a publication
\* falls between them.  Even so it never goes back: both are at least the policy
\* that VH_SET_POLICY had acknowledged before the hook was entered, and the
\* target list is never older than the mask it is combined with.
LookupsFollowAcknowledgedPolicies ==
    \A h \in Hooks :
        /\ hpc[h] = "mask" => hlow[h] <= hook[h]
        /\ hpc[h] = "target" => hlow[h] <= hfirst[h] /\ hfirst[h] <= hook[h]

\* Read your writes: a refill that begins after ioctl(VH_SET_POLICY) returned 0
\* delivers that policy or a newer one, whatever other writers, updaters and
\* readers do meanwhile.
RefillDeliversAcknowledgedPolicy ==
    \A r \in Readers :
        rpc[r] \in {"vpns", "cover", "unlock", "settle"} =>
            rdoc[r]["policy"] >= rlow[r]

\* A wakeup is lost only in one way: a reader that would sleep although its
\* document is out of date either still has a publisher between its change and
\* its atomic_inc, or read the generation (after dropping the lock) that
\* another publisher incremented while the document was being built.
UnwokenStaleReaderIsExplained ==
    \A r \in Readers :
        /\ rpc[r] \in {"idle", "wait"}
        /\ rgen[r] >= generation
        /\ rdoc[r] # content
        => BeforeBump # {} \/ r \in raced

\* Documents never run backwards: no build delivers an older item than the
\* document before it.
DocumentsMoveForward ==
    [][\A r \in Readers, i \in Items : rdoc'[r][i] >= rdoc[r][i]]_vars

\* Only the owner of policy_apply_lock replaces the snapshot, one publication
\* at a time: a writer rejected with -EAGAIN or -ENOMEM, and a reader, never do.
OnlyLockOwnerPublishes ==
    [][content'["policy"] # content["policy"] =>
        /\ mutex \in Writers
        /\ WritersInside = {mutex}
        /\ ReadersInside = {}]_vars

\* POLICY.md: "expected_generation can reject a stale writer with -EAGAIN": a
\* conditional writer replaces only the policy that was current when it sampled
\* the generation.
StaleWriterRejected ==
    \A w \in Writers :
        wpc[w] = "unlock" /\ wexpected[w] # 0 => wold[w] = wseen[w]

-----------------------------------------------------------------------------
(* The inductive invariant behind the properties above.                    *)

\* Whoever works between mutex_lock and mutex_unlock owns the lock.
Locking ==
    /\ \A w \in WritersInside : mutex = w
    /\ \A r \in ReadersInside : mutex = r

Publishing ==
    /\ policy <= MaxPolicies
    /\ \A w \in Writers :
        /\ wpc[w] = "assign" => policy < MaxPolicies
        /\ wpc[w] \in {"unlock", "retire", "bump"} => wold[w] < policy

OneSnapshot == \A r \in ReadersInside : rsize[r] = policy

\* A snapshot is retired only after a newer one has replaced it, and a hook
\* that still holds a retired one is among those its grace period waits for.
GracePeriods ==
    /\ \A s \in retired \cup freed : 0 < s /\ s < policy
    /\ \A h \in Hooks : hook[h] # 0 =>
        /\ hook[h] \notin freed
        /\ hook[h] \in retired => h \in waits[hook[h]]

Acknowledging ==
    /\ acked <= policy
    /\ \A r \in Readers : rlow[r] <= acked

\* The publications a hook has seen so far are in order.
HookLookups ==
    \A h \in Hooks :
        /\ hfirst[h] <= policy
        /\ hpc[h] = "mask" => hlow[h] <= hook[h] /\ hook[h] <= policy
        /\ hpc[h] = "active" => hlow[h] <= hfirst[h]
        /\ hpc[h] = "target" => hlow[h] <= hfirst[h] /\ hfirst[h] <= hook[h]

DocumentsNotAhead == \A r \in Readers, i \in Items : rdoc[r][i] <= content[i]

Generations ==
    \A r \in Readers :
        /\ rgen[r] <= generation
        /\ rpc[r] \in {"lock", "alloc"} \/ Building(r) => rgen[r] < generation

\* An item that a reader has (not one it is about to print again) is current,
\* or its change is still to be announced, or the announcement fell into the
\* build, or the reader is going to be woken.
Fresh(r, i) ==
    \/ rdoc[r][i] = content[i]
    \/ BeforeBump # {}
    \/ r \in raced
    \/ ~Building(r) /\ rgen[r] < generation

Announced == \A r \in Readers : \A i \in Items \ Unread(r) : Fresh(r, i)

IInv ==
    /\ TypeOK /\ Locking /\ Publishing /\ OneSnapshot /\ GracePeriods
    /\ Acknowledging /\ HookLookups /\ RefillDeliversAcknowledgedPolicy
    /\ DocumentsNotAhead /\ Generations /\ Announced

-----------------------------------------------------------------------------
(* The abstract stream.  A reader is building from the moment its buffer   *)
(* is allocated; taking the lock, failing to allocate and waiting are      *)
(* invisible there, and so is everything the writers do except the         *)
(* assignment and the increment.                                           *)

Stream == INSTANCE ConfigStream WITH
    Publishers <- Writers \cup Updaters,
    MaxChanges <- MaxPolicies + MaxRuntime,
    doc <- rdoc,
    behind <- [r \in Readers |-> rgen[r] < generation],
    state <- [r \in Readers |-> IF Building(r) THEN "building" ELSE "idle"],
    unread <- [r \in Readers |-> Unread(r)],
    announcing <- BeforeBump

\* The device implements the stream: locks, buffer sizing, failures and the
\* numeric generation refine to the boolean stream, whose liveness is checked.
ImplementsConfigStream == Stream!Spec
=============================================================================
