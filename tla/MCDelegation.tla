---------------------------- MODULE MCDelegation ----------------------------
(***************************************************************************)
(* Instances of Delegation for TLC.  The first agent is registered with    *)
(* every scope, the others with part of them; each of the two roles adds   *)
(* one scope.                                                              *)
(***************************************************************************)
EXTENDS Delegation, TLC

CONSTANTS a1, a2, a3, read, rotate

ThreeAgents == {a1, a2, a3}

MCScope == {read, rotate}

MCRegisteredScopes ==
    [a \in Agent |-> IF a = a1 THEN Scope ELSE {read}]

OneScope == {read}

NoAgents == {}

MCRoleScopes == [x \in Role |-> IF x = "reader" THEN {read} ELSE {rotate}]

OperatedAgents == {a2}

NoGrants == {}

ScopesSymmetry == Permutations(GrantId) \cup Permutations(RoleRequest)
=============================================================================
