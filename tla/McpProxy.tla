------------------------------ MODULE McpProxy ------------------------------
(***************************************************************************)
(* The MCP proxy (services/mcp_proxy_service.py behind api/mcp_proxy.py):  *)
(* an agent's tool call is checked against the agent's binding, its token  *)
(* and the policy (core/permissions.py, policies/authz.rego), forwarded    *)
(* through a circuit breaker, recorded, audited and answered.              *)
(*                                                                         *)
(* Calls interleave at awaits.  A session row is visible to others at its  *)
(* commit; the audit entry is committed on its own, before.  One agent and *)
(* one server process are modelled: bindings are fixed at registration,    *)
(* and the breaker lives in the memory of a process.                       *)
(***************************************************************************)
EXTENDS Naturals, FiniteSets

CONSTANTS
    Call,       \* bound: the calls ever made, named by their session_id
    Trace,      \* causal_trace_ids
    Server,     \* mcp_server_ids
    Tool,       \* tool names
    Binding,    \* the agent's mcp_bindings: server -> binding, or None
    Token,      \* the tokens the agent calls with
    BlockedTool,\* blocked_tools of the policy
    Threshold,  \* MCP_CIRCUIT_BREAKER_FAILURE_THRESHOLD
    Cooldown,   \* MCP_CIRCUIT_BREAKER_COOLDOWN_SECONDS, in ticks
    None

(***************************************************************************)
(* A binding: untrusted_source, the tool_filter (every tool if there is    *)
(* none) and the tools whose capabilities the policy denies to a tainted   *)
(* trace.                                                                  *)
(***************************************************************************)
BindingType == [untrusted : BOOLEAN, tool_filter : SUBSET Tool,
                highRisk : SUBSET Tool]

(***************************************************************************)
(* What a token says about calls: whether it has the scope tool:execute at *)
(* a depth the policy takes, the resource it is bound to, the calls named  *)
(* in its authorization_details.                                           *)
(***************************************************************************)
TokenType == [execute : BOOLEAN, resource : Server \cup {None},
              details : (SUBSET (Server \X Tool)) \cup {None}]

Outcome == {"success", "error", "blocked"}

Row == [trace : Trace, source_untrusted : BOOLEAN, status : Outcome]

ASSUME ConstantsAssumption ==
    /\ Binding \in [Server -> BindingType \cup {None}]
    /\ None \notin BindingType \cup Row \cup Outcome
    /\ Token \subseteq TokenType
    /\ BlockedTool \subseteq Tool
    /\ Threshold \in Nat \ {0}
    /\ Cooldown \in Nat \ {0}
    /\ None \notin Nat \cup Server

VARIABLES
    call,       \* the calls: Idle, in progress, or over
    session,    \* committed mcp_sessions rows
    audit,      \* audit entries: <<session_id, outcome>>
    told,       \* what the agent has been answered
    failures,   \* breaker: _failures
    opened      \* breaker: what is left of the cooldown, None when closed

vars == <<call, session, audit, told, failures, opened>>

breaker == <<failures, opened>>

Idle == [pc |-> "idle"]

Over == [pc |-> "over"]

(***************************************************************************)
(* A call in progress.  exposed is history: whether the agent, when it     *)
(* made the call, had already been given untrusted content in this trace.  *)
(* reached is history: whether the call was sent to its server.            *)
(***************************************************************************)
Progress ==
    [pc      : {"resolved", "policy", "sent", "outcome", "audited",
                "committed", "answered"},
     trace   : Trace,
     server  : Server,
     tool    : Tool,
     token   : Token,
     tainted : BOOLEAN,
     status  : Outcome \cup {None},
     exposed : BOOLEAN,
     reached : BOOLEAN]

TypeOK ==
    /\ call \in [Call -> {Idle, Over} \cup Progress]
    /\ session \in [Call -> Row \cup {None}]
    /\ audit \subseteq Call \X Outcome
    /\ told \in [Call -> Outcome \cup {None}]
    /\ failures \in [Server -> Nat]
    /\ opened \in [Server -> 0..Cooldown \cup {None}]

-----------------------------------------------------------------------------
Untrusted(s) == Binding[s] # None /\ Binding[s].untrusted

HighRisk(s, t) == Binding[s] # None /\ t \in Binding[s].highRisk

(***************************************************************************)
(* The agent has seen untrusted content in the trace: one of its calls     *)
(* there to an untrusted source was answered with a result.                *)
(***************************************************************************)
Exposed(tr) ==
    \E d \in Call : /\ told[d] = "success"
                    /\ call[d].pc = "answered"
                    /\ call[d].trace = tr
                    /\ Untrusted(call[d].server)

(***************************************************************************)
(* Steps 1 to 3: the binding, the resource and the task-scope check.       *)
(***************************************************************************)
TokenCovers(k, s, t) ==
    /\ k.resource \in {None, s}
    /\ k.details # None => <<s, t>> \in k.details

Start(c, tr, s, t, k) ==
    /\ call[c] = Idle
    /\ call' = [call EXCEPT ![c] =
         [pc |-> IF Binding[s] # None /\ TokenCovers(k, s, t)
                 THEN "resolved" ELSE "outcome",
          trace |-> tr, server |-> s, tool |-> t, token |-> k,
          tainted |-> FALSE,
          status |-> IF Binding[s] # None /\ TokenCovers(k, s, t)
                     THEN None ELSE "blocked",
          exposed |-> Exposed(tr), reached |-> FALSE]]
    /\ UNCHANGED <<session, audit, told, breaker>>

(***************************************************************************)
(* Step 4: _trace_is_tainted queries the rows of the trace.                *)
(***************************************************************************)
TraceIsTainted(tr) ==
    \E d \in Call : /\ session[d] # None
                    /\ session[d].trace = tr
                    /\ session[d].source_untrusted
                    /\ session[d].status = "success"

ReadTaint(c) ==
    /\ call[c].pc = "resolved"
    /\ call' = [call EXCEPT ![c].pc = "policy",
                            ![c].tainted = TraceIsTainted(call[c].trace)]
    /\ UNCHANGED <<session, audit, told, breaker>>

(***************************************************************************)
(* The policy's allow.                                                     *)
(***************************************************************************)
Allow(q) ==
    /\ q.token.execute
    /\ q.tool \notin BlockedTool
    /\ ~ (q.tainted /\ HighRisk(q.server, q.tool))

Block(c) ==
    /\ call' = [call EXCEPT ![c].pc = "outcome", ![c].status = "blocked"]
    /\ UNCHANGED <<session, audit, told, breaker>>

(***************************************************************************)
(* OPA answers no, or cannot be reached (check_permission fails closed);   *)
(* or, step 5, the tool is not in the binding's tool_filter.               *)
(***************************************************************************)
Deny(c) ==
    /\ call[c].pc = "policy"
    /\ \/ ~ Allow(call[c])
       \/ call[c].tool \notin Binding[call[c].server].tool_filter
    /\ Block(c)

PolicyUnavailable(c) ==
    /\ call[c].pc = "policy"
    /\ Block(c)

-----------------------------------------------------------------------------
(***************************************************************************)
(* Step 6.  is_open closes a breaker whose cooldown has elapsed.           *)
(***************************************************************************)
is_open(s) == opened[s] # None /\ opened[s] > 0

\* Mutant: the failures counted before the cooldown are kept.
Close_KeepsFailures(s) ==
    /\ opened' = [opened EXCEPT ![s] = None]
    /\ UNCHANGED failures

Close(s) ==
    /\ opened' = [opened EXCEPT ![s] = None]
    /\ failures' = [failures EXCEPT ![s] = 0]

record_failure(s) ==
    /\ failures' = [failures EXCEPT ![s] = @ + 1]
    /\ opened' = [opened EXCEPT ![s] =
                    IF failures[s] + 1 >= Threshold THEN Cooldown ELSE @]

Allowed(c) ==
    /\ call[c].pc = "policy"
    /\ Allow(call[c])
    /\ call[c].tool \in Binding[call[c].server].tool_filter

ShortCircuit(c) ==
    /\ Allowed(c)
    /\ is_open(call[c].server)
    /\ call' = [call EXCEPT ![c].pc = "outcome", ![c].status = "error"]
    /\ UNCHANGED <<session, audit, told, breaker>>

Send(c) ==
    LET s == call[c].server IN
    /\ Allowed(c)
    /\ ~ is_open(s)
    /\ IF opened[s] # None THEN Close(s) ELSE UNCHANGED breaker
    /\ call' = [call EXCEPT ![c].pc = "sent", ![c].reached = TRUE]
    /\ UNCHANGED <<session, audit, told>>

(***************************************************************************)
(* The server answers in time with JSON of a bearable size, or it does     *)
(* not.                                                                    *)
(***************************************************************************)
Succeed(c) ==
    /\ call[c].pc = "sent"
    /\ Close(call[c].server)
    /\ call' = [call EXCEPT ![c].pc = "outcome", ![c].status = "success"]
    /\ UNCHANGED <<session, audit, told>>

Fail(c) ==
    /\ call[c].pc = "sent"
    /\ record_failure(call[c].server)
    /\ call' = [call EXCEPT ![c].pc = "outcome", ![c].status = "error"]
    /\ UNCHANGED <<session, audit, told>>

-----------------------------------------------------------------------------
(***************************************************************************)
(* Steps 7 and 8, and _block: the row is flushed, the audit entry is       *)
(* appended, then the row is committed and only then the call answered,    *)
(* with the result or with an HTTPException.                               *)
(***************************************************************************)
Audit(c) ==
    /\ call[c].pc = "outcome"
    /\ audit' = audit \cup {<<c, call[c].status>>}
    /\ call' = [call EXCEPT ![c].pc = "audited"]
    /\ UNCHANGED <<session, told, breaker>>

\* Mutant: source_untrusted is left to its default.
NewRow_NotTagged(q) ==
    [trace |-> q.trace, status |-> q.status, source_untrusted |-> FALSE]

NewRow(q) ==
    [trace |-> q.trace, status |-> q.status,
     source_untrusted |-> Untrusted(q.server) /\ q.status = "success"]

\* Mutant: left to get_db, which rolls back when HTTPException is raised.
Commit_SuccessOnly(c) ==
    /\ call[c].pc = "audited"
    /\ session' = [session EXCEPT ![c] = IF call[c].status = "success"
                                         THEN NewRow(call[c]) ELSE None]
    /\ call' = [call EXCEPT ![c].pc = "committed"]
    /\ UNCHANGED <<audit, told, breaker>>

Commit(c) ==
    /\ call[c].pc = "audited"
    /\ session' = [session EXCEPT ![c] = NewRow(call[c])]
    /\ call' = [call EXCEPT ![c].pc = "committed"]
    /\ UNCHANGED <<audit, told, breaker>>

\* Mutant: the answer names no outcome of the call but its policy decision.
Answer_Decision(c) ==
    /\ call[c].pc = "committed"
    /\ told' = [told EXCEPT ![c] = "allowed"]
    /\ call' = [call EXCEPT ![c].pc = "answered"]
    /\ UNCHANGED <<session, audit, breaker>>

Answer(c) ==
    /\ call[c].pc = "committed"
    /\ told' = [told EXCEPT ![c] = call[c].status]
    /\ call' = [call EXCEPT ![c].pc = "answered"]
    /\ UNCHANGED <<session, audit, breaker>>

(***************************************************************************)
(* The request fails or is cancelled at an await: its transaction is       *)
(* rolled back, what the breaker and the audit trail have stays.           *)
(***************************************************************************)
InProgress(c) == call[c].pc \notin {"idle", "answered", "over"}

Abort(c) ==
    /\ InProgress(c)
    /\ call' = [call EXCEPT ![c] = Over]
    /\ UNCHANGED <<session, audit, told, breaker>>

(***************************************************************************)
(* The process stops and starts again, with a new breaker.                 *)
(***************************************************************************)
Restart ==
    /\ call' = [c \in Call |-> IF InProgress(c) THEN Over ELSE call[c]]
    /\ failures' = [s \in Server |-> 0]
    /\ opened' = [s \in Server |-> None]
    /\ UNCHANGED <<session, audit, told>>

Tick ==
    /\ \E s \in Server : is_open(s)
    /\ opened' = [s \in Server |-> IF is_open(s) THEN opened[s] - 1 ELSE opened[s]]
    /\ UNCHANGED <<call, session, audit, told, failures>>

Init ==
    /\ call = [c \in Call |-> Idle]
    /\ session = [c \in Call |-> None]
    /\ audit = {}
    /\ told = [c \in Call |-> None]
    /\ failures = [s \in Server |-> 0]
    /\ opened = [s \in Server |-> None]

Step(c) ==
    \/ ReadTaint(c)
    \/ Deny(c)
    \/ PolicyUnavailable(c)
    \/ ShortCircuit(c)
    \/ Send(c)
    \/ Succeed(c)
    \/ Fail(c)
    \/ Audit(c)
    \/ Commit(c)
    \/ Answer(c)
    \/ Abort(c)

Next ==
    \/ \E c \in Call :
          \/ \E tr \in Trace, s \in Server, t \in Tool, k \in Token :
                Start(c, tr, s, t, k)
          \/ Step(c)
    \/ Restart
    \/ Tick

Spec == Init /\ [][Next]_vars
-----------------------------------------------------------------------------
(***************************************************************************)
(* "If ANY earlier call in the same causal_trace_id was tainted this way,  *)
(* a LATER call in that trace attempting a high-risk capability is         *)
(* denied": once the agent has been given untrusted content in a trace, no *)
(* high-risk call it then makes there reaches a server.  Calls it had      *)
(* already made when the content came are not judged by it.                *)
(***************************************************************************)
NoRiskAfterExposure ==
    \A c \in Call :
        (call[c].pc \notin {"idle", "over"} /\ call[c].reached
            /\ HighRisk(call[c].server, call[c].tool))
        => ~ call[c].exposed

(***************************************************************************)
(* "A blocked/failed call's session + audit rows are committed             *)
(* immediately": whatever the agent has been told about a call, result,    *)
(* error or block, is on record in both places, come what may.             *)
(***************************************************************************)
Recorded ==
    \A c \in Call :
        told[c] # None => /\ session[c] # None
                          /\ session[c].status = told[c]
                          /\ <<c, told[c]>> \in audit

(***************************************************************************)
(* The breaker is open, or waiting for a call to find its cooldown over,   *)
(* exactly when the failures counted have reached the threshold, however   *)
(* the answers of concurrent calls came in.                                *)
(***************************************************************************)
TrippedByFailures ==
    \A s \in Server : opened[s] # None <=> failures[s] >= Threshold
=============================================================================
