--------------------------- MODULE MCSocketHooks ---------------------------
(***************************************************************************)
(* Two threads, one VPN and one other interface.  The bucket holds two     *)
(* tokens of two units; a unit takes two ticks, and a pause of 13 ticks    *)
(* may make the count wrap around.  The clock matters to counted sends     *)
(* only, so either two calls of any kind or three sends happen while it    *)
(* stands still, or five counted sends one after the other while it runs.  *)
(***************************************************************************)
EXTENDS SocketHooks, TLC

MCSteps == {1, 3, 13}
Symmetry == Permutations(Threads)

SendsOnly ==
  /\ bound = Nothing /\ mark = Nothing /\ ~block /\ ~probe
  /\ wrapper \/ build = "intree"
  /\ \A t \in Threads : call[t] \in Sends \cup {"none"}

OneConcern ==
  \/ calls <= 2 /\ now = 0
  \/ SendsOnly /\ calls <= 3 /\ now = 0 /\ flips <= 1
  \/ /\ SendsOnly /\ flips <= 1
     /\ Cardinality({t \in Threads : pc[t] # "idle"}) <= 1
     /\ \A t \in Threads : call[t] \in {"send", "none"}
=============================================================================
