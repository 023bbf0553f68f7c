---------------------------- MODULE TokenClaims ----------------------------
(***************************************************************************)
(* What an agent token claims and who answers for it.  Tokens are minted   *)
(* by key exchange (api/token.py), by delegation                           *)
(* (services/delegation_service.py) and, in the module OAuthCode that      *)
(* extends this one, by the redemption of an authorization code.  Besides  *)
(* its agent and its scopes a token may name the server and the one tool   *)
(* it may be used for, and the human it acts for: the operator who         *)
(* activated the agent or one who vouches for it by an on-behalf-of grant  *)
(* (services/agent_service.py).                                            *)
(*                                                                         *)
(* The lineage rules of delegation (depth, cycles, revocation) are those   *)
(* of the module Delegation, key verification and the second index of      *)
(* exchanged tokens those of AgentCredentials; here a token is delegated   *)
(* by its claims and an agent with a key can always exchange it.           *)
(*                                                                         *)
(* Requests interleave at their awaits.  PostgreSQL shows what is          *)
(* committed; Redis is written at once and for good.  Every handler        *)
(* appends its audit entries in transactions of their own before it        *)
(* commits or answers (AuditChain); they change nothing here.              *)
(***************************************************************************)
EXTENDS Naturals, FiniteSets

CONSTANTS
    Agent,         \* agents that have been activated
    User,          \* operators
    Scope,         \* strings that may stand in agents.allowed_scopes
    Known,         \* those that PermissionScope has a member for
    TaskScoped,    \* settings.MCP_TASK_SCOPING_REQUIRED_SCOPES
    AllowedScopes, \* agents.allowed_scopes
    KeyHolder,     \* agents with an API key
    KeyScopes,     \* its scopes
    ActivatedBy,   \* agents.activated_by_user_id, None if activated JIT
    Server,
    Tool,
    Bound,         \* the servers the agent's mcp_bindings name
    Reach,         \* the <<server, tool>> pairs its tool_filters let through
    Grant,         \* bound: on-behalf-of grants that may ever be made
    GrantRequest,  \* bound: the grants operators ask for
    Operated,      \* bound: agents that operators suspend, for good
    Jti,           \* bound: tokens that may ever be minted
    Request,       \* bound: requests in flight at a time
    None

Call == Server \X Tool

(***************************************************************************)
(* The claims of a token.                                                  *)
(***************************************************************************)
Claims ==
    [agent        : Agent,
     scopes       : SUBSET Scope,
     resource     : Server \cup {None},
     task         : Call \cup {None},     \* authorization_details
     on_behalf_of : User \cup {None}]

(***************************************************************************)
(* A token: its claims and, as history, the token it descends from (itself *)
(* unless it was delegated) and, if it was minted for an authorization     *)
(* code, which one and what was presented with it.                         *)
(***************************************************************************)
TokenRecord(Via) == [claims : Claims, root : Jti, via : Via \cup {None}]

GrantRow == [agent : Agent, user : User, scopes : SUBSET Scope]

ASSUME ClaimsAssumption ==
    /\ Known \subseteq Scope
    /\ TaskScoped \subseteq Scope
    /\ AllowedScopes \in [Agent -> SUBSET Scope]
    /\ KeyHolder \subseteq Agent
    /\ KeyScopes \in [KeyHolder -> SUBSET Scope]
    /\ ActivatedBy \in [Agent -> User \cup {None}]
    /\ Bound \in [Agent -> SUBSET Server]
    /\ Reach \in [Agent -> SUBSET (Server \X Tool)]
    /\ \A a \in Agent : \A x \in Reach[a] : x[1] \in Bound[a]
    /\ GrantRequest \subseteq GrantRow
    /\ Operated \subseteq Agent
    /\ None \notin Agent \cup User \cup Server \cup Grant \cup Jti
    /\ None \notin Call
    /\ None \notin GrantRow

VARIABLES
    status,     \* agents.status
    grant,      \* on_behalf_of_grants: [agent, user, scopes], None before
    active,     \* grants with is_active that have not expired
    token,      \* minted tokens, None before
    delivered,  \* tokens that have reached their client
    index,      \* Redis: agent:{agent_id}:jtis
    blacklist,  \* Redis: revoked_jti:{jti}
    req         \* requests in flight

grants == <<grant, active>>

claimVars == <<status, grants, token, delivered, index, blacklist, req>>

Idle == [pc |-> "idle"]

-----------------------------------------------------------------------------
Minted == {j \in Jti : token[j] # None}

(***************************************************************************)
(* The middleware lets the token through.  That tokens also expire only    *)
(* takes from this set.                                                    *)
(***************************************************************************)
Accepted == delivered \ blacklist

(***************************************************************************)
(* get_active_for_agent, and the scopes the grant is limited to.           *)
(***************************************************************************)
Covers(g, a, scopes) == grant[g].agent = a /\ scopes \subseteq grant[g].scopes

(***************************************************************************)
(* resolve_on_behalf_of: a grant that covers the scopes, the first of a    *)
(* query without ORDER BY, else the operator who activated the agent.      *)
(***************************************************************************)
resolve_on_behalf_of(a, scopes) ==
    LET covering == {g \in active : Covers(g, a, scopes)} IN
    IF covering = {} THEN {ActivatedBy[a]}
                     ELSE {grant[g].user : g \in covering}

(***************************************************************************)
(* Scopes are turned into PermissionScopes for the token; what is none is  *)
(* dropped without a word.                                                 *)
(***************************************************************************)
Converted(scopes) == scopes \cap Known

(***************************************************************************)
(* A request that is about to mint a token, past everything that could     *)
(* refuse it.                                                              *)
(***************************************************************************)
Minting(op, claims, parent, via) ==
    [pc |-> "mint", op |-> op, claims |-> claims, parent |-> parent,
     via |-> via, jti |-> None]

(***************************************************************************)
(* POST /token/exchange after the key was verified: the human is resolved, *)
(* the intent is checked against the bindings, and task-scoping is         *)
(* mandatory for some scopes.                                              *)
(***************************************************************************)
Exchange(r, a, intent) ==
    /\ req[r] = Idle
    /\ a \in KeyHolder
    /\ intent # None => intent \in Reach[a]
    /\ KeyScopes[a] \cap TaskScoped # {} => intent # None
    /\ \E u \in resolve_on_behalf_of(a, KeyScopes[a]) :
          req' = [req EXCEPT ![r] =
            Minting("exchange",
                    [agent |-> a, scopes |-> Converted(KeyScopes[a]),
                     resource |-> None, task |-> intent, on_behalf_of |-> u],
                    None, None)]
    /\ UNCHANGED <<status, grants, token, delivered, index, blacklist>>

\* Mutant: the ceiling is the agent's registration alone, not its token.
Ceiling_Registered(c) == AllowedScopes[c.agent]

(***************************************************************************)
(* What can be approved: scopes of the presented token that its agent is   *)
(* still registered with.                                                  *)
(***************************************************************************)
Ceiling(c) == c.scopes \cap AllowedScopes[c.agent]

\* Mutant: the human is resolved anew, for the delegatee.
DelegatedClaims_Resolved(c, b, scopes) ==
    [agent |-> b, scopes |-> Converted(scopes), resource |-> None, task |-> None,
     on_behalf_of |-> CHOOSE u \in resolve_on_behalf_of(b, scopes) : TRUE]

(***************************************************************************)
(* What create_delegation_token puts into the delegatee's token: the human *)
(* unchanged, and neither resource nor task.                               *)
(***************************************************************************)
DelegatedClaims(c, b, scopes) ==
    [agent |-> b, scopes |-> Converted(scopes), resource |-> None, task |-> None,
     on_behalf_of |-> c.on_behalf_of]

(***************************************************************************)
(* POST /token/delegate with the token j.                                  *)
(***************************************************************************)
Delegate(r, j, b, scopes) ==
    /\ req[r] = Idle
    /\ j \in Accepted
    /\ b # token[j].claims.agent
    /\ status[b] = "ACTIVE"
    /\ scopes # {}
    /\ scopes \subseteq Ceiling(token[j].claims)
    /\ req' = [req EXCEPT ![r] =
         Minting("delegate", DelegatedClaims(token[j].claims, b, scopes), j, None)]
    /\ UNCHANGED <<status, grants, token, delivered, index, blacklist>>

(***************************************************************************)
(* The token is made and its jti entered in the agent's index.             *)
(***************************************************************************)
Mint(r, j) ==
    LET q == req[r] IN
    /\ q.pc = "mint"
    /\ j \notin Minted
    /\ token' = [token EXCEPT ![j] =
         [claims |-> q.claims,
          root   |-> IF q.parent = None THEN j ELSE token[q.parent].root,
          via    |-> q.via]]
    /\ index' = [index EXCEPT ![q.claims.agent] = @ \cup {j}]
    /\ req' = [req EXCEPT ![r].pc = "answer", ![r].jti = j]
    /\ UNCHANGED <<status, grants, delivered, blacklist>>

(***************************************************************************)
(* The token is answered, after its entry in the audit trail is written    *)
(* and, for a delegation, its grant committed.                             *)
(***************************************************************************)
Answer(r) ==
    /\ req[r].pc = "answer"
    /\ delivered' = delivered \cup {req[r].jti}
    /\ req' = [req EXCEPT ![r] = Idle]
    /\ UNCHANGED <<status, grants, token, index, blacklist>>

-----------------------------------------------------------------------------
(***************************************************************************)
(* grant_on_behalf_of: the scopes must be among the agent's; its status is *)
(* not looked at.  Like the other operations on grants it shows only when  *)
(* it commits.                                                             *)
(***************************************************************************)
GrantOnBehalfOf(g, row) ==
    /\ grant[g] = None
    /\ row.scopes \subseteq AllowedScopes[row.agent]
    /\ grant' = [grant EXCEPT ![g] = row]
    /\ active' = active \cup {g}
    /\ UNCHANGED <<status, token, delivered, index, blacklist, req>>

(***************************************************************************)
(* revoke_on_behalf_of: of any grant there is.  Tokens that name the human *)
(* keep naming them.                                                       *)
(***************************************************************************)
RevokeOnBehalfOf(g) ==
    /\ grant[g] # None
    /\ active' = active \ {g}
    /\ UNCHANGED <<status, grant, token, delivered, index, blacklist, req>>

(***************************************************************************)
(* expires_at passes.                                                      *)
(***************************************************************************)
GrantLapses(g) ==
    /\ g \in active
    /\ active' = active \ {g}
    /\ UNCHANGED <<status, grant, token, delivered, index, blacklist, req>>

-----------------------------------------------------------------------------
(***************************************************************************)
(* suspend: the row is updated (waiting for any other such update to       *)
(* end), revoke_all_in_index reads the agent's index, blacklists what it   *)
(* read and deletes the index, and the change is committed.  decommission  *)
(* does the same here once its keys are done.                              *)
(***************************************************************************)
Suspend(r, a) ==
    /\ req[r] = Idle
    /\ \A s \in Request : req[s].pc \in {"sweep", "swept"} => req[s].agent # a
    /\ req' = [req EXCEPT ![r] = [pc |-> "sweep", agent |-> a,
                                  members |-> index[a]]]
    /\ UNCHANGED <<status, grants, token, delivered, index, blacklist>>

SweepIndex(r) ==
    /\ req[r].pc = "sweep"
    /\ blacklist' = blacklist \cup req[r].members
    /\ index' = [index EXCEPT ![req[r].agent] = {}]
    /\ req' = [req EXCEPT ![r].pc = "swept"]
    /\ UNCHANGED <<status, grants, token, delivered>>

CommitSuspend(r) ==
    /\ req[r].pc = "swept"
    /\ status' = [status EXCEPT ![req[r].agent] = "SUSPENDED"]
    /\ req' = [req EXCEPT ![r] = Idle]
    /\ UNCHANGED <<grants, token, delivered, index, blacklist>>

(***************************************************************************)
(* A request can fail at any await; what it wrote to Redis stays.          *)
(***************************************************************************)
Abort(r) ==
    /\ req[r] # Idle
    /\ req' = [req EXCEPT ![r] = Idle]
    /\ UNCHANGED <<status, grants, token, delivered, index, blacklist>>

ClaimsInit ==
    /\ status = [a \in Agent |-> "ACTIVE"]
    /\ grant = [g \in Grant |-> None]
    /\ active = {}
    /\ token = [j \in Jti |-> None]
    /\ delivered = {}
    /\ index = [a \in Agent |-> {}]
    /\ blacklist = {}
    /\ req = [r \in Request |-> Idle]

ClaimsStep(r) ==
    \/ \E a \in Agent, i \in Call \cup {None} : Exchange(r, a, i)
    \/ \E j \in Minted, b \in Agent, s \in SUBSET Scope : Delegate(r, j, b, s)
    \/ \E j \in Jti : Mint(r, j)
    \/ Answer(r)
    \/ \E a \in Operated : Suspend(r, a)
    \/ SweepIndex(r)
    \/ CommitSuspend(r)
    \/ Abort(r)

ClaimsNext ==
    \/ \E r \in Request : ClaimsStep(r)
    \/ \E g \in Grant :
          \/ \E row \in GrantRequest : GrantOnBehalfOf(g, row)
          \/ RevokeOnBehalfOf(g)
          \/ GrantLapses(g)
-----------------------------------------------------------------------------
(***************************************************************************)
(* A human who activated the agent, or vouched for it with those scopes.   *)
(***************************************************************************)
Vouches(u, a, scopes) ==
    \/ u = ActivatedBy[a]
    \/ \E g \in Grant : /\ grant[g] # None
                        /\ grant[g].agent = a
                        /\ grant[g].user = u
                        /\ scopes \subseteq grant[g].scopes

(***************************************************************************)
(* "every agent token traces back to the human operator who activated it,  *)
(* or to whoever a later, revocable grant vouches for": the human a token  *)
(* names, however far it was delegated, activated the agent it descends    *)
(* from or vouched for at least the scopes it carries now.  The vouching   *)
(* may have been taken back since, or before the token was minted, and a   *)
(* token may name nobody: its agent was activated just in time.            *)
(***************************************************************************)
HumanAnchored ==
    \A j \in Minted :
        token[j].claims.on_behalf_of # None =>
            Vouches(token[j].claims.on_behalf_of,
                    token[token[j].root].claims.agent,
                    token[j].claims.scopes)

(***************************************************************************)
(* Task-scoping is "mandatory for scopes named in                          *)
(* MCP_TASK_SCOPING_REQUIRED_SCOPES" where tokens start: one minted by     *)
(* exchange or for a code that carries such a scope is bound to one call   *)
(* its agent can make, and a delegation brings such a scope into a token   *)
(* only from one that was.  The delegated token itself is bound to         *)
(* nothing (create_delegation_token): it may be used for any call.         *)
(***************************************************************************)
TaskScopedRoots ==
    \A j \in Minted :
        LET c == token[token[j].root].claims IN
        token[j].claims.scopes \cap TaskScoped # {} => c.task \in Reach[c.agent]
=============================================================================
