----------------------------- MODULE MCSessions -----------------------------
(***************************************************************************)
(* Instances of Sessions and of McpSessions for TLC.  The two share no     *)
(* state, so a behaviour of the instance exercises one or the other.       *)
(***************************************************************************)
EXTENDS Sessions, McpSessions, TLC

CONSTANTS c1, c2

VARIABLE part

ClientSymmetry == Permutations(Clients)

Init == AuthInit /\ McpInit /\ part \in {"operators", "connector"}

Next ==
  \/ part = "operators" /\ AuthNext /\ UNCHANGED <<mcpVars, part>>
  \/ part = "connector" /\ McpNext /\ UNCHANGED <<authVars, part>>

Spec == Init /\ [][Next]_<<authVars, mcpVars, part>>

=============================================================================
