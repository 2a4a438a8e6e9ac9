----------------------------- MODULE PortRules -----------------------------
(***************************************************************************)
(* The port rules of one UID, on both sides of the ABI.  The kernel blocks *)
(* by walking a sorted list of ranges and leaving the walk early; for an   *)
(* allowlist exception vpnhide-ctl turns the ranges a user allows into the *)
(* ranges the kernel has to block.  Ports are 0..MaxPort.                  *)
(***************************************************************************)
EXTENDS Naturals, Sequences

CONSTANT MaxPort   \* 65535

ASSUME MaxPortAssumption == MaxPort \in Nat

Ports == 0..MaxPort
TCP == 0
UDP == 1
BOTH == 2
Nothing == 3                  \* range_protocol = -1
Protocols == {TCP, UDP}
Rules == [start : Ports, end : Ports, protocol : Protocols \cup {BOTH}]

\* The test both sides apply to one rule.
RuleMatches(r, port, proto) ==
    /\ port >= r.start /\ port <= r.end
    /\ r.protocol = BOTH \/ r.protocol = proto

\* policy_port_rule_cmp(a, b) <= 0
RuleLeq(a, b) ==
    \/ a.start < b.start
    \/ a.start = b.start /\ a.end < b.end
    \/ a.start = b.start /\ a.end = b.end /\ a.protocol <= b.protocol

RulesSorted(rules) ==
    \A i, j \in 1 .. Len(rules) : i <= j => RuleLeq(rules[i], rules[j])

\* The loop of should_block_port: a matching rule is found before the first
\* rule that begins behind the port.
should_block_port(rules, port, proto) ==
    \E i \in 1 .. Len(rules) :
        /\ RuleMatches(rules[i], port, proto)
        /\ \A j \in 1 .. i - 1 : rules[j].start <= port

-----------------------------------------------------------------------------
(* resolve_allowlist_exception_rules.                                      *)

port_rule_allows(allowed, port, proto) == \E r \in allowed : RuleMatches(r, port, proto)

\* What the scan over the ports finds blocked; behind the last port, nothing.
BlockedAt(allowed, port) ==
    LET tcp_blocked == ~port_rule_allows(allowed, port, TCP)
        udp_blocked == ~port_rule_allows(allowed, port, UDP)
    IN IF port > MaxPort THEN Nothing
       ELSE IF tcp_blocked /\ udp_blocked THEN BOTH
       ELSE IF tcp_blocked THEN TCP
       ELSE IF udp_blocked THEN UDP ELSE Nothing

\* A range opens where the protocol changes and closes before it changes again.
IsRange(allowed, s, e) ==
    /\ s <= e
    /\ BlockedAt(allowed, s) # Nothing
    /\ \A p \in s..e : BlockedAt(allowed, p) = BlockedAt(allowed, s)
    /\ s = 0 \/ BlockedAt(allowed, s - 1) # BlockedAt(allowed, s)
    /\ BlockedAt(allowed, e + 1) # BlockedAt(allowed, s)

\* The rules the scan appends.
BlockingComplement(allowed) ==
    {r \in Rules : /\ IsRange(allowed, r.start, r.end)
                   /\ r.protocol = BlockedAt(allowed, r.start)}
=============================================================================
