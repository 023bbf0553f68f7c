------------------------- MODULE MCAgentCredentials -------------------------
(***************************************************************************)
(* Instances of AgentCredentials for TLC: one ephemeral agent, so that the *)
(* reaper and every operation apply to it.                                 *)
(***************************************************************************)
EXTENDS AgentCredentials, TLC

AllOperations == {"register", "activate", "jit_activate", "suspend",
                  "decommission", "issue_key", "rotate_key", "revoke_key", "exchange"}

Symmetry == UNION {Permutations(Agent), Permutations(Key),
                   Permutations(Jti), Permutations(Request)}
=============================================================================
