---------------------------- MODULE MCOAuthCode ----------------------------
(***************************************************************************)
(* An instance of OAuthCode for TLC.  An operator activated the analyst,   *)
(* whose key needs a task-scoped token and which may use one tool; the     *)
(* helper was activated just in time, for nobody in particular, and has a  *)
(* key that needs none.  Rotating credentials needs a task-scoped token,   *)
(* and no token can carry the legacy scope.  Operators ask for a plain     *)
(* token, for a task-scoped one, and for two that are refused.             *)
(***************************************************************************)
EXTENDS OAuthCode, TLC

CONSTANTS analyst, helper, alice, bob, read, rotate, legacy, server, tool,
          client1, https, http, v1, v2

MCAgent == {analyst, helper}

MCUser == {alice, bob}

MCScope == {read, rotate, legacy}

MCKnown == {read, rotate}

MCTaskScoped == {rotate}

MCAllowedScopes == [a \in MCAgent |-> MCScope]

MCKeyHolder == {analyst, helper}

MCKeyScopes == [a \in MCKeyHolder |-> IF a = analyst THEN {read, rotate}
                                                     ELSE {read}]

MCActivatedBy == [a \in MCAgent |-> IF a = analyst THEN alice ELSE None]

MCServer == {server}

MCTool == {tool}

MCBound == [a \in MCAgent |-> IF a = analyst THEN {server} ELSE {}]

MCReach == [a \in MCAgent |-> IF a = analyst THEN {<<server, tool>>} ELSE {}]

MCClient == {client1}

MCUri == {https, http}

MCHttps == {https}

MCRemoteHttp == {http}

MCVerifier == {v1, v2}

MCGrantRequest ==
    {[agent |-> analyst, user |-> bob, scopes |-> {read, legacy}],
     [agent |-> helper, user |-> bob, scopes |-> {read}]}

MCOperated == {analyst}

Asked(uri, scopes, resource, tool_name) ==
    [client_id |-> client1, redirect_uri |-> uri, code_challenge |-> S256(v1),
     agent |-> analyst, scopes |-> scopes, resource |-> resource,
     tool_name |-> tool_name]

MCAuthorizeRequest ==
    {Asked(https, {read, legacy}, None, None),
     Asked(https, {read, rotate}, server, tool),
     Asked(https, {rotate}, server, None),
     Asked(http, {read}, None, None)}

Symmetry == Permutations(Request) \cup Permutations(Jti)
=============================================================================
