--------------------------- MODULE MCProbeLayers ---------------------------
(***************************************************************************)
(* Kernels that offer all functions, none of the system calls, none of the *)
(* inner ones, or older socket option code.  Threads meet only where they  *)
(* compete for the instances of a probe: either one call of any kind is    *)
(* made, or two binds, or two connections once the module is loaded.       *)
(* What happens after the call is of no interest.                          *)
(***************************************************************************)
EXTENDS ProbeLayers, TLC

MCRefusals ==
  { {},
    {"sys_connect", "sys_bind", "sys_getsockname", "sys_getsockopt"},
    {"sk_getsockopt", "sock_getsockopt", "ip6_datagram_recv_common_ctl", "sys_bind"},
    {"sk_getsockopt", "inet6_bind", "sys_getsockname"},
    Functions }

OneConcern ==
  \/ calls = 0
  \/ calls = 1 /\ (\E t \in Threads : Running(t)) /\ (publishes <= 1 \/ phase = "loaded")
  \/ publishes = 0 /\ refused = {} /\ (\E t \in Threads : Running(t))
     /\ \A t \in Threads : call[t].kind \in {"none", "bind4", "bind6"}
  \/ publishes <= 1 /\ refused = {} /\ phase = "loaded"
     /\ \A t \in Threads : call[t].kind \in {"none", "connect"}

Symmetry == Permutations(Threads)
=============================================================================
