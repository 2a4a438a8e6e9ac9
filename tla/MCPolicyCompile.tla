-------------------------- MODULE MCPolicyCompile --------------------------
(***************************************************************************)
(* Documents small enough to compile all of them: up to two applications   *)
(* that may share a UID, be a core UID or belong to a second user, rules   *)
(* by name and by UID that overlap, an invalid one, and mass rules.        *)
(***************************************************************************)
EXTENDS PolicyCompile

App(uid, name, user, kmod, lsposed, port, kernel, java) ==
    [uid |-> uid, name |-> name, user |-> user, kmod |-> kmod, lsposed |-> lsposed,
     portHiding |-> port, kernel |-> kernel, java |-> java]

Rule(name, user, uid, enabled, start, end, protocol) ==
    [name |-> name, user |-> user, uid |-> uid, enabled |-> enabled,
     start |-> start, end |-> end, protocol |-> protocol]

First == {App(10002, "a", 0, kmod, ~kmod, port, kernel, Unset) :
             kmod \in BOOLEAN, port \in BOOLEAN, kernel \in {Unset, {{"route"}}}}
Second == {App(uid, "b", 1, TRUE, kmod, TRUE, kernel, {{"route"}}) :
             uid \in {10001, 10002, 1000, 110002}, kmod \in BOOLEAN, kernel \in {Unset, {{"getname"}}}}

Apps == {<<>>} \cup {<<a>> : a \in First} \cup {<<a, b>> : a \in First, b \in Second}

Early == Rule("a", Unset, 0, TRUE, 0, 1, TCP)
Late == Rule("x", Unset, 10002, TRUE, 2, 3, BOTH)
OfUser == Rule("b", {1}, 0, TRUE, 1, 1, UDP)
Wrong(enabled) == Rule("a", {0}, 0, enabled, 3, 2, BOTH)
RuleLists == {<<>>, <<Late, Early>>, <<Early, OfUser>>, <<Wrong(TRUE)>>, <<Late, Wrong(FALSE)>>}
MassLists == {<<>>, <<Rule("", Unset, 0, TRUE, 1, 2, UDP)>>}

Document(mode, global, apps, rules, mass, ifaces) ==
    [mode |-> mode, global |-> global, kernel |-> {"route", "getname"}, java |-> {"route"},
     apps |-> apps, rules |-> rules, mass |-> mass, ifaces |-> ifaces]

MCDocuments ==
    {Document(mode, TRUE, apps, rules, mass, 1) :
        mode \in {"BLACKLIST", "ALLOWLIST"}, apps \in Apps, rules \in RuleLists, mass \in MassLists}
    \cup {Document("ALLOWLIST", FALSE, apps, <<>>, <<>>, 3) : apps \in Apps}

MCEdits ==
    {Document("ALLOWLIST", TRUE, <<>>, <<>>, <<>>, 0),
     Document("BLACKLIST", TRUE, <<App(10001, "b", 1, TRUE, TRUE, TRUE, {{}}, Unset)>>,
              <<OfUser>>, <<>>, 2)}
=============================================================================
