----------------------------- MODULE MCMcpProxy -----------------------------
(***************************************************************************)
(* An instance of McpProxy for TLC: an agent bound to the web, which is an *)
(* untrusted source, and to a mail server, both with one tool that reads   *)
(* and one that sends; sending is a high-risk capability and the web's     *)
(* tool_filter leaves it out.  The agent holds a token bound to nothing    *)
(* and one bound to reading from the web.                                  *)
(***************************************************************************)
EXTENDS McpProxy, TLC

CONSTANTS web, mail, fetch, send

MCServer == {web, mail}

MCTool == {fetch, send}

MCBinding ==
    [s \in MCServer |->
        [untrusted   |-> s = web,
         tool_filter |-> IF s = web THEN {fetch} ELSE MCTool,
         highRisk    |-> {send}]]

MCToken ==
    {[execute |-> TRUE, resource |-> None, details |-> None],
     [execute |-> TRUE, resource |-> web, details |-> {<<web, fetch>>}]}

NoTools == {}

Symmetry == Permutations(Call)
=============================================================================
