---------------------------- MODULE ConfigStream ----------------------------
(***************************************************************************)
(* What the control device promises to the framework process that reads    *)
(* the configuration document in a loop, without locks, buffers or         *)
(* generation numbers.  behind[r] stands for reader->generation being less *)
(* than vpnhide_config_generation, the only way the code uses the number.  *)
(*                                                                         *)
(* Tick is the daemon's periodic rescan: daemon/main.c calls               *)
(* update_spoof_ip at least every 10 seconds, and its VH_SET_VPN_IFINDEXES *)
(* increments the generation even when nothing changed.                    *)
(***************************************************************************)
EXTENDS Naturals

CONSTANTS
    Items,       \* parts of the document
    Readers,     \* reading files
    Publishers,  \* threads that change an item and then announce it
    MaxChanges   \* bound: changes of one item

VARIABLES
    content,     \* what the kernel holds, per item (version numbers)
    doc,         \* the document last built for a reader
    behind,      \* the reader would not sleep
    state,       \* "idle" or "building"
    unread,      \* items the build under way has still to print
    announcing   \* publishers between their change and their announcement

vars == <<content, doc, behind, state, unread, announcing>>

Init ==
    /\ content = [i \in Items |-> 0]
    /\ doc = [r \in Readers |-> [i \in Items |-> 0]]
    /\ behind = [r \in Readers |-> TRUE]
    /\ state = [r \in Readers |-> "idle"]
    /\ unread = [r \in Readers |-> {}]
    /\ announcing = {}

\* An item changes; p will announce it.
Change(p, i) ==
    /\ p \notin announcing
    /\ content[i] < MaxChanges
    /\ content' = [content EXCEPT ![i] = @ + 1]
    /\ announcing' = announcing \cup {p}
    /\ UNCHANGED <<doc, behind, state, unread>>

Announce(p) ==
    /\ p \in announcing
    /\ announcing' = announcing \ {p}
    /\ behind' = [r \in Readers |-> TRUE]
    /\ UNCHANGED <<content, doc, state, unread>>

\* Wrong variant: the periodic rescan does not touch the generation.
NoTick == UNCHANGED vars

Tick ==
    /\ behind' = [r \in Readers |-> TRUE]
    /\ UNCHANGED <<content, doc, state, unread, announcing>>

Start(r) ==
    /\ state[r] = "idle"
    /\ behind[r]
    /\ state' = [state EXCEPT ![r] = "building"]
    /\ unread' = [unread EXCEPT ![r] = Items]
    /\ UNCHANGED <<content, doc, behind, announcing>>

PrintItem(r, i) ==
    /\ state[r] = "building"
    /\ i \in unread[r]
    /\ doc' = [doc EXCEPT ![r][i] = content[i]]
    /\ unread' = [unread EXCEPT ![r] = @ \ {i}]
    /\ UNCHANGED <<content, behind, state, announcing>>

\* The generation is read after the last item: an announcement that came in
\* between is taken for seen.
Settle(r) ==
    /\ state[r] = "building"
    /\ unread[r] = {}
    /\ state' = [state EXCEPT ![r] = "idle"]
    /\ behind' = [behind EXCEPT ![r] = FALSE]
    /\ UNCHANGED <<content, doc, unread, announcing>>

Next ==
    \/ \E p \in Publishers : (\E i \in Items : Change(p, i)) \/ Announce(p)
    \/ Tick
    \/ \E r \in Readers :
        Start(r) \/ (\E i \in Items : PrintItem(r, i)) \/ Settle(r)

Spec == Init /\ [][Next]_vars

\* The reader thread of the framework keeps reading, a system call that has
\* begun goes on, a publisher that changed an item announces it.
ReaderFairness ==
    /\ \A r \in Readers :
        /\ WF_vars(Start(r))
        /\ WF_vars(\E i \in Items : PrintItem(r, i))
        /\ WF_vars(Settle(r))
    /\ \A p \in Publishers : WF_vars(Announce(p))

\* ... and the daemon's rescan timer keeps firing.
FairSpec == Spec /\ ReaderFairness /\ WF_vars(Tick)

-----------------------------------------------------------------------------
\* Every change of the policy, the VPN list, the cover interface or the clear
\* generation reaches every reader: once changes stop, each reader ends up with
\* the current document for good.  Without the daemon's periodic increment this
\* fails, since vpnhide_dev_read stores a generation it read after the build.
EventuallyCurrent ==
    \A r \in Readers : <>[](doc[r] = content)
=============================================================================
