----------------------------- MODULE MCOwnPorts -----------------------------
EXTENDS OwnPorts

Socket(i, u, f, a) == [id |-> i, uid |-> u, family |-> f, address |-> a]

First == Socket(1, 1, "inet", "loopback")
Second == Socket(2, 2, "inet6", "any")
Twin == Socket(3, 1, "inet", "loopback")
OneSocket == {First}
ThreeSockets == {First, Second, Twin}

Quiet(s) == s \notin live /\ rpc[s] = "idle"

\* Bound: new policies and failed refreshes are explored for one application with
\* one socket, the competition of two for the pending table, and two sockets with
\* the same address, without them.
OneTrouble ==
    \/ Quiet(Second) /\ Quiet(Twin)
    \/ published = 0 /\ fails = 0 /\ (Quiet(Second) \/ Quiet(Twin))
=============================================================================
