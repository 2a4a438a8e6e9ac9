-------------------------- MODULE MCPolicyPublish --------------------------
EXTENDS PolicyPublish, TLC

Symmetry == Permutations(Writers) \cup Permutations(Hooks)

\* Bound: runtime updates are explored with one writer, the hooks with two
\* writers before the first read().
OneTrouble ==
    LET HooksIdle == \A h \in Hooks : hpc[h] = "idle"
    IN  /\ \/ \A i \in RuntimeItems : content[i] = 0
           \/ /\ HooksIdle
              /\ \A v, w \in Writers : wpc[v] = "idle" \/ wpc[w] = "idle" \/ v = w
        /\ HooksIdle \/ \A r \in Readers : rpc[r] = "idle" /\ rgen[r] = 0
=============================================================================
