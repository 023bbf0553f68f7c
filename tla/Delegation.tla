----------------------------- MODULE Delegation -----------------------------
(***************************************************************************)
(* Agent-to-agent delegation (services/delegation_service.py with          *)
(* core/delegation.py, core/permissions.py, core/jwt.py, the agent auth    *)
(* middleware and the two routes of api/token.py).                         *)
(*                                                                         *)
(* Every HTTP request runs in a database transaction of its own under READ *)
(* COMMITTED: it sees what others committed, its own writes are invisible  *)
(* until its commit, and any exception rolls them back.  Redis (the JTI    *)
(* blacklist) and the audit trail are written outside that transaction and *)
(* are never rolled back.  An action is what a handler does between two    *)
(* awaits at which another request can change what it reads.               *)
(*                                                                         *)
(* The jti of a delegation token is unique to its grant, so a grant id     *)
(* stands for both.  One organisation is modelled.  A jti once blacklisted *)
(* stays so here: revoke_grant() gives the entry the token's remaining     *)
(* life cut to whole seconds, and skips it when that is zero; TokenClock   *)
(* has that arithmetic and what it costs.                                  *)
(***************************************************************************)
EXTENDS Naturals, FiniteSets

CONSTANTS
    Agent,              \* registered agents of the organisation
    Scope,              \* members of PermissionScope
    RegisteredScopes,   \* allowed_scopes of each agent at registration
    Role,               \* the roles an operator may assign
    RoleScopes,         \* scopes of each role
    MaxDepth,           \* settings.MAX_DELEGATION_DEPTH
    GrantId,            \* bound: the grants that may ever be created
    DelegateRequest,    \* bound: the delegate requests in flight at a time
    RevokeRequest,      \* bound: the revoke requests in flight at a time
    RoleRequest,        \* bound: the role assignments in flight at a time
    Operated,           \* bound: agents whose row operators change meanwhile
    Expirable,          \* bound: grants that live to see their token expire
    None                \* the NULL of parent_grant_id and of missing rows

VARIABLES
    allowed,    \* agents.allowed_scopes
    active,     \* the agents whose status is ACTIVE
    grant,      \* committed delegation_grants rows, None where there is none
    ceiling,    \* history: the delegator's allowed_scopes as read for a grant
    inactive,   \* committed rows with is_active = FALSE
    expired,    \* grants whose token (and expires_at) lies in the past
    blacklist,  \* Redis: revoked JTIs
    granted,    \* audit trail: grant_id of each DELEGATION_GRANTED success
    revoked,    \* audit trail: grant_id of each DELEGATION_REVOKED success
    req         \* requests in flight

vars == <<allowed, active, grant, ceiling, inactive, expired, blacklist,
          granted, revoked, req>>

Request == DelegateRequest \cup RevokeRequest \cup RoleRequest

db == <<allowed, active, grant, ceiling, inactive>>

trail == <<granted, revoked>>

ScopeSet == SUBSET Scope

Row == [delegating_agent_id : Agent,
        delegatee_agent_id  : Agent,
        scopes              : ScopeSet,
        delegation_depth    : Nat,
        parent_grant_id     : GrantId \cup {None}]

(***************************************************************************)
(* What the middleware hands to the route: the verified agent, its scopes, *)
(* and (in place of the jti) the grant whose delegation_jti it is, None    *)
(* for a root access token.                                                *)
(***************************************************************************)
Token == [agent : Agent, scopes : ScopeSet, grant : GrantId \cup {None}]

ASSUME ConstantsAssumption ==
    /\ RegisteredScopes \in [Agent -> SUBSET Scope]
    /\ RoleScopes \in [Role -> SUBSET Scope]
    /\ Operated \in SUBSET Agent
    /\ Expirable \in SUBSET GrantId
    /\ MaxDepth \in Nat \ {0}
    /\ None \notin GrantId
    /\ None \notin Row
    /\ IsFiniteSet(GrantId)
    /\ IsFiniteSet(Request)

Idle == [pc |-> "idle"]

CheckedState == [pc : {"checked"}, token : Token, delegatee : Agent,
                 requested : ScopeSet, ceiling : ScopeSet]

InsertedState == [pc : {"inserted", "granted"}, id : GrantId, row : Row,
                  ceiling : ScopeSet]

DescendState == [pc : {"descend"}, target : GrantId, found : SUBSET GrantId,
                 frontier : SUBSET GrantId]

RevokeState == [pc : {"update", "blacklist", "revoked"}, target : GrantId,
                found : SUBSET GrantId, locked : SUBSET GrantId,
                todo : SUBSET GrantId]

MergeState == [pc : {"merge"}, agent : Agent, merged : ScopeSet]

RequestState == {Idle} \cup CheckedState \cup InsertedState
                    \cup DescendState \cup RevokeState \cup MergeState

TypeOK ==
    /\ allowed \in [Agent -> ScopeSet]
    /\ active \subseteq Agent
    /\ grant \in [GrantId -> Row \cup {None}]
    /\ ceiling \in [GrantId -> ScopeSet]
    /\ inactive \subseteq GrantId
    /\ expired \subseteq GrantId
    /\ blacklist \subseteq GrantId
    /\ granted \subseteq GrantId
    /\ revoked \subseteq GrantId
    /\ req \in [Request -> RequestState]

-----------------------------------------------------------------------------
(***************************************************************************)
(* The forest of grants.                                                   *)
(***************************************************************************)

Committed == {g \in GrantId : grant[g] # None}

ParentOf ==
    [g \in GrantId |-> IF grant[g] = None THEN None
                                          ELSE grant[g].parent_grant_id]

ParentClosed(p, S) == \A g \in S : p[g] # None => p[g] \in S

(***************************************************************************)
(* g and its ancestors under the parent pointers p: the least set with g   *)
(* that is closed under p.  It is what _load_chain collects by walking the *)
(* pointers one row at a time.                                             *)
(***************************************************************************)
LineageIn(p, g) ==
    {h \in GrantId : \A S \in SUBSET GrantId :
                        (g \in S /\ ParentClosed(p, S)) => h \in S}

Lineage(g) == LineageIn(ParentOf, g)

Chain(g) == IF g = None THEN {} ELSE Lineage(g)

\* Mutant: _load_chain forgets is_active.
ChainIsActive_Unchecked(g) == TRUE

(***************************************************************************)
(* _load_chain refuses a lineage with a revoked grant in it.  Its queries  *)
(* are separate, own grant first; is_active is never set again, so if all  *)
(* of them find an active row, all those rows were active at the first     *)
(* query, and one atomic read there has every outcome that is let through. *)
(***************************************************************************)
ChainIsActive(g) == Chain(g) \cap inactive = {}

AllAgentIds(chain) ==
    {grant[h].delegating_agent_id : h \in chain}
        \cup {grant[h].delegatee_agent_id : h \in chain}

\* Mutant: the agents of the chain are not looked at.
Validate_NoCycleCheck(chain, delegating, delegatee, held, requested) ==
    /\ Cardinality(chain) + 1 <= MaxDepth
    /\ requested \subseteq held

Validate(chain, delegating, delegatee, held, requested) ==
    /\ Cardinality(chain) + 1 <= MaxDepth
    /\ delegatee \notin AllAgentIds(chain)
    /\ delegating # delegatee
    /\ requested \subseteq held

(***************************************************************************)
(* The middleware's verdict on a delegation token: its grant was committed *)
(* (a token leaves the server only then), its jti is not blacklisted, it   *)
(* is not expired, its depth is within the limit.                          *)
(***************************************************************************)
Accepted(g) ==
    /\ g \in Committed
    /\ g \notin blacklist
    /\ g \notin expired
    /\ grant[g].delegation_depth <= MaxDepth

InFlight == {r \in Request : req[r].pc \in {"inserted", "granted"}}

Fresh(id) ==
    /\ id \notin Committed \cup granted \cup blacklist
    /\ \A r \in InFlight : req[r].id # id

-----------------------------------------------------------------------------
(***************************************************************************)
(* POST /token/delegate.                                                   *)
(***************************************************************************)

BearerTokens ==
    [agent : Agent, scopes : ScopeSet, grant : {None}]
        \cup {[agent  |-> grant[g].delegatee_agent_id,
               scopes |-> grant[g].scopes,
               grant  |-> g] : g \in {h \in GrantId : Accepted(h)}}

(***************************************************************************)
(* Every scope the agent may ever have been allowed.  A token outlives     *)
(* what it was minted from: an assignment that is overwritten (below)      *)
(* takes back scopes that tokens already carry.                            *)
(***************************************************************************)
EverAllowed(a) ==
    RegisteredScopes[a] \cup UNION {RoleScopes[x] : x \in Role}

\* Mutant: the delegatee's status is not looked at.
DelegateCheck_AnyStatus(r, t, delegatee, requested) ==
    /\ req[r] = Idle
    /\ t.grant = None => t.scopes \subseteq EverAllowed(t.agent)
    /\ requested # {}
    /\ req' = [req EXCEPT ![r] =
                  [pc |-> "checked", token |-> t, delegatee |-> delegatee,
                   requested |-> requested, ceiling |-> allowed[t.agent]]]
    /\ UNCHANGED <<db, expired, blacklist, trail>>

(***************************************************************************)
(* The middleware lets the bearer through and delegate() reads both        *)
(* agents.  Only the delegatee's status is checked.  The middleware's read *)
(* of Redis and the reads of the agents table are one step: writers of     *)
(* either never look at the other.                                         *)
(***************************************************************************)
DelegateCheck(r, t, delegatee, requested) ==
    /\ req[r] = Idle
    /\ t.grant = None => t.scopes \subseteq EverAllowed(t.agent)
    /\ requested # {}
    /\ delegatee \in active
    /\ req' = [req EXCEPT ![r] =
                  [pc |-> "checked", token |-> t, delegatee |-> delegatee,
                   requested |-> requested, ceiling |-> allowed[t.agent]]]
    /\ UNCHANGED <<db, expired, blacklist, trail>>

\* Mutant: the token counts alone.
Held_NoCeiling(q) == q.token.scopes

(***************************************************************************)
(* What the delegator has to give: its token's scopes, cut to what it is   *)
(* allowed ("a stale token can't regain scopes allowed_scopes no longer    *)
(* includes").                                                             *)
(***************************************************************************)
Held(q) == q.token.scopes \cap q.ceiling

ChecksPass(q) ==
    /\ ChainIsActive(q.token.grant)
    /\ Validate(Chain(q.token.grant), q.token.agent, q.delegatee, Held(q),
                q.requested)

\* Mutant: the depth of the parent is stored.
NewRow_ParentDepth(q) ==
    [delegating_agent_id |-> q.token.agent,
     delegatee_agent_id  |-> q.delegatee,
     scopes              |-> q.requested,
     delegation_depth    |-> Cardinality(Chain(q.token.grant)),
     parent_grant_id     |-> q.token.grant]

NewRow(q) ==
    [delegating_agent_id |-> q.token.agent,
     delegatee_agent_id  |-> q.delegatee,
     scopes              |-> q.requested,
     delegation_depth    |-> Cardinality(Chain(q.token.grant)) + 1,
     parent_grant_id     |-> q.token.grant]

(***************************************************************************)
(* Load the chain, validate, mint the token, INSERT the row (flushed, not  *)
(* committed) and index the jti.                                           *)
(***************************************************************************)
DelegateInsert(r, id) ==
    /\ req[r].pc = "checked"
    /\ ChecksPass(req[r])
    /\ Fresh(id)
    /\ req' = [req EXCEPT ![r] = [pc |-> "inserted", id |-> id,
                                  row |-> NewRow(req[r]),
                                  ceiling |-> req[r].ceiling]]
    /\ UNCHANGED <<db, expired, blacklist, trail>>

DelegateRefuse(r) ==
    /\ req[r].pc = "checked"
    /\ ~ ChecksPass(req[r])
    /\ req' = [req EXCEPT ![r] = Idle]
    /\ UNCHANGED <<db, expired, blacklist, trail>>

\* Mutant: the entry names the parent grant.
DelegateAudit_ParentId(r) ==
    /\ req[r].pc = "inserted"
    /\ granted' = granted \cup {req[r].row.parent_grant_id}
    /\ req' = [req EXCEPT ![r].pc = "granted"]
    /\ UNCHANGED <<db, expired, blacklist, revoked>>

(***************************************************************************)
(* The success entry is appended to the audit trail in a transaction of    *)
(* its own, before the grant is committed.                                 *)
(***************************************************************************)
DelegateAudit(r) ==
    /\ req[r].pc = "inserted"
    /\ granted' = granted \cup {req[r].id}
    /\ req' = [req EXCEPT ![r].pc = "granted"]
    /\ UNCHANGED <<db, expired, blacklist, revoked>>

\* Mutant: the grant may be committed before its entry.
DelegateCommit_BeforeAudit(r) ==
    /\ req[r].pc \in {"inserted", "granted"}
    /\ grant' = [grant EXCEPT ![req[r].id] = req[r].row]
    /\ ceiling' = [ceiling EXCEPT ![req[r].id] = req[r].ceiling]
    /\ req' = [req EXCEPT ![r] = Idle]
    /\ UNCHANGED <<allowed, active, inactive, expired, blacklist, trail>>

DelegateCommit(r) ==
    /\ req[r].pc = "granted"
    /\ grant' = [grant EXCEPT ![req[r].id] = req[r].row]
    /\ ceiling' = [ceiling EXCEPT ![req[r].id] = req[r].ceiling]
    /\ req' = [req EXCEPT ![r] = Idle]
    /\ UNCHANGED <<allowed, active, inactive, expired, blacklist, trail>>

-----------------------------------------------------------------------------
(***************************************************************************)
(* POST /token/delegations/{id}/revoke.                                    *)
(***************************************************************************)

Children(S) == {g \in Committed : ParentOf[g] \in S}

RevokeStart(r, g) ==
    /\ req[r] = Idle
    /\ g \in Committed
    /\ req' = [req EXCEPT ![r] = [pc |-> "descend", target |-> g,
                                  found |-> {}, frontier |-> {g}]]
    /\ UNCHANGED <<db, expired, blacklist, trail>>

\* Mutant: only the target's jti is blacklisted.
JtisToRevoke_TargetOnly(target, found) == {target} \ expired

(***************************************************************************)
(* The jtis of the target and of its descendants that have not expired.    *)
(***************************************************************************)
JtisToRevoke(target, found) == ({target} \cup found) \ expired

\* Mutant: the frontier grows instead of moving on.
RevokeDescend_KeepsFrontier(r) ==
    LET q        == req[r]
        children == Children(q.frontier) IN
    /\ q.pc = "descend"
    /\ req' = [req EXCEPT ![r] =
                  IF children = {}
                  THEN [pc |-> "update", target |-> q.target,
                        found |-> q.found, locked |-> {},
                        todo |-> JtisToRevoke(q.target, q.found)]
                  ELSE [pc |-> "descend", target |-> q.target,
                        found |-> q.found \cup children,
                        frontier |-> q.frontier \cup children]]
    /\ UNCHANGED <<db, expired, blacklist, trail>>

(***************************************************************************)
(* _find_descendant_ids: one level of the breadth-first search is one      *)
(* query, and sees what is committed at that moment.  After the last level *)
(* the clock is read: expiry is judged by that moment, however long the    *)
(* UPDATE waits.                                                           *)
(***************************************************************************)
RevokeDescend(r) ==
    LET q        == req[r]
        children == Children(q.frontier) IN
    /\ q.pc = "descend"
    /\ req' = [req EXCEPT ![r] =
                  IF children = {}
                  THEN [pc |-> "update", target |-> q.target,
                        found |-> q.found, locked |-> {},
                        todo |-> JtisToRevoke(q.target, q.found)]
                  ELSE [pc |-> "descend", target |-> q.target,
                        found |-> q.found \cup children,
                        frontier |-> children]]
    /\ UNCHANGED <<db, expired, blacklist, trail>>

AllIds(q) == {q.target} \cup q.found

Updating(r) == req[r].pc = "update"

RowsLockedBy(r) ==
    IF req[r].pc \in {"update", "blacklist", "revoked"} THEN req[r].locked
                                                       ELSE {}

(***************************************************************************)
(* UPDATE ... is_active = FALSE takes the row locks one at a time, in an   *)
(* order the plan decides, and waits for a row that another transaction    *)
(* updated and has not committed.                                          *)
(***************************************************************************)
RevokeLock(r, g) ==
    LET locked == req[r].locked \cup {g} IN
    /\ Updating(r)
    /\ g \in AllIds(req[r]) \ req[r].locked
    /\ \A s \in Request \ {r} : g \notin RowsLockedBy(s)
    /\ req' = [req EXCEPT ![r].locked = locked,
                          ![r].pc = IF locked = AllIds(req[r]) THEN "blacklist"
                                                               ELSE "update"]
    /\ UNCHANGED <<db, expired, blacklist, trail>>

RevokeBlacklist(r, g) ==
    /\ req[r].pc = "blacklist"
    /\ g \in req[r].todo
    /\ blacklist' = blacklist \cup {g}
    /\ req' = [req EXCEPT ![r].todo = @ \ {g}]
    /\ UNCHANGED <<db, expired, trail>>

RevokeAudit(r) ==
    /\ req[r].pc = "blacklist"
    /\ req[r].todo = {}
    /\ revoked' = revoked \cup {req[r].target}
    /\ req' = [req EXCEPT ![r].pc = "revoked"]
    /\ UNCHANGED <<db, expired, blacklist, granted>>

RevokeCommit(r) ==
    /\ req[r].pc = "revoked"
    /\ inactive' = inactive \cup AllIds(req[r])
    /\ req' = [req EXCEPT ![r] = Idle]
    /\ UNCHANGED <<allowed, active, grant, ceiling, expired, blacklist, trail>>

-----------------------------------------------------------------------------
(***************************************************************************)
(* A request can be lost at any await: Redis or the database raises, or    *)
(* the process stops.  get_db rolls the transaction back; what was written *)
(* to Redis and to the audit trail stays.                                  *)
(***************************************************************************)
Abort(r) ==
    /\ req[r] # Idle
    /\ req' = [req EXCEPT ![r] = Idle]
    /\ UNCHANGED <<db, expired, blacklist, trail>>

(***************************************************************************)
(* Updates that wait for each other: every row a member still wants is     *)
(* held by another member.  PostgreSQL aborts one of them, an Abort here.  *)
(***************************************************************************)
Deadlocked(r) ==
    \E D \in SUBSET Request :
        /\ r \in D
        /\ \A d \in D :
              /\ Updating(d)
              /\ \A g \in AllIds(req[d]) \ req[d].locked :
                    \E e \in D \ {d} : g \in RowsLockedBy(e)

(***************************************************************************)
(* Time: delegation tokens live equally long, so a token does not expire   *)
(* before the one it was delegated from.                                   *)
(***************************************************************************)
Expire(g) ==
    /\ g \in Committed \ expired
    /\ ParentOf[g] # None => ParentOf[g] \in expired
    /\ expired' = expired \cup {g}
    /\ UNCHANGED <<db, blacklist, trail, req>>

(***************************************************************************)
(* The other writers of the agents table, as far as delegate() sees them.  *)
(* suspend and decommission blacklist the tokens in the agent's index,     *)
(* which a delegation enters as it is inserted; activate and jit_activate  *)
(* make the agent ACTIVE (AgentCredentials has their steps).               *)
(***************************************************************************)
HeldBy(a) ==
    {g \in Committed : grant[g].delegatee_agent_id = a}
        \cup {req[r].id : r \in {q \in InFlight :
                                   req[q].row.delegatee_agent_id = a}}

Disable(a) ==
    /\ active' = active \ {a}
    /\ blacklist' = blacklist \cup HeldBy(a)
    /\ UNCHANGED <<allowed, grant, ceiling, inactive, expired, trail, req>>

Enable(a) ==
    /\ active' = active \cup {a}
    /\ UNCHANGED <<allowed, grant, ceiling, inactive, expired, blacklist,
                   trail, req>>

(***************************************************************************)
(* POST /roles/assign reads the agent, merges the role's scopes into       *)
(* allowed_scopes in Python and writes the merged list at its commit,      *)
(* without a lock: of two assignments that overlap, the later commit takes *)
(* the other's scopes back.  A merge that adds nothing may write nothing,  *)
(* which is what Abort leaves.                                             *)
(***************************************************************************)
AssignRead(r, a, x) ==
    /\ req[r] = Idle
    /\ req' = [req EXCEPT ![r] = [pc |-> "merge", agent |-> a,
                                  merged |-> allowed[a] \cup RoleScopes[x]]]
    /\ UNCHANGED <<db, expired, blacklist, trail>>

AssignCommit(r) ==
    /\ req[r].pc = "merge"
    /\ allowed' = [allowed EXCEPT ![req[r].agent] = req[r].merged]
    /\ req' = [req EXCEPT ![r] = Idle]
    /\ UNCHANGED <<active, grant, ceiling, inactive, expired, blacklist, trail>>

Init ==
    /\ allowed = RegisteredScopes
    /\ active = Agent
    /\ grant = [g \in GrantId |-> None]
    /\ ceiling = [g \in GrantId |-> {}]
    /\ inactive = {}
    /\ expired = {}
    /\ blacklist = {}
    /\ granted = {}
    /\ revoked = {}
    /\ req = [r \in Request |-> Idle]

DelegateStep(r) ==
    \/ \E t \in BearerTokens, a \in Agent, S \in ScopeSet :
          DelegateCheck(r, t, a, S)
    \/ \E id \in GrantId : DelegateInsert(r, id)
    \/ DelegateRefuse(r)
    \/ DelegateAudit(r)
    \/ DelegateCommit(r)

RoleStep(r) ==
    \/ \E a \in Operated, x \in Role : AssignRead(r, a, x)
    \/ AssignCommit(r)

RevokeStep(r) ==
    \/ RevokeDescend(r)
    \/ \E g \in GrantId : RevokeLock(r, g)
    \/ \E g \in GrantId : RevokeBlacklist(r, g)
    \/ RevokeAudit(r)
    \/ RevokeCommit(r)

Environment ==
    \/ \E g \in Expirable : Expire(g)
    \/ \E a \in Operated : Disable(a) \/ Enable(a)

Next ==
    \/ \E r \in DelegateRequest : DelegateStep(r)
    \/ \E r \in RevokeRequest :
          \/ \E g \in GrantId : RevokeStart(r, g)
          \/ RevokeStep(r)
    \/ \E r \in RoleRequest : RoleStep(r)
    \/ \E r \in Request : Abort(r)
    \/ Environment

Spec == Init /\ [][Next]_vars
-----------------------------------------------------------------------------
(***************************************************************************)
(* Properties.                                                             *)
(***************************************************************************)

(***************************************************************************)
(* Scope attenuation along the whole chain, not only at the last hop: a    *)
(* grant never carries a scope that some ancestor grant lacks, nor one     *)
(* that some agent on the chain was not allowed when it passed it on (an   *)
(* agent cannot pass on what it "didn't actually hold at delegation        *)
(* time").  What the agents are allowed now is another matter: role        *)
(* assignments can overwrite each other.                                   *)
(***************************************************************************)
Attenuation ==
    \A g \in Committed : \A h \in Lineage(g) :
        grant[g].scopes \subseteq grant[h].scopes \cap ceiling[h]

(***************************************************************************)
(* The stored lineage is a real chain: every ancestor row exists, the      *)
(* stored delegation_depth is the number of hops to the root and within    *)
(* MAX_DELEGATION_DEPTH, and each hop starts at the agent where the        *)
(* previous one ended, whatever requests ran in between.                   *)
(***************************************************************************)
ChainShape ==
    \A g \in Committed :
        /\ Lineage(g) \subseteq Committed
        /\ grant[g].delegation_depth = Cardinality(Lineage(g))
        /\ grant[g].delegation_depth <= MaxDepth
        /\ ParentOf[g] # None =>
              grant[g].delegating_agent_id = grant[ParentOf[g]].delegatee_agent_id

(***************************************************************************)
(* No agent appears twice on a chain (A -> B -> A, or A -> A).             *)
(***************************************************************************)
NoAgentTwice ==
    \A g \in Committed : \A h \in Lineage(g) :
        /\ grant[h].delegating_agent_id # grant[g].delegatee_agent_id
        /\ h # g => grant[h].delegatee_agent_id # grant[g].delegatee_agent_id

(***************************************************************************)
(* Once a revocation is committed, no token of a grant it covers passes    *)
(* the middleware: the jtis reach Redis before the rows are committed, and *)
(* a failure in between leaves the rows active.                            *)
(***************************************************************************)
RevokedIsRejected == \A g \in inactive : ~ Accepted(g)

(***************************************************************************)
(* Nothing happens off the record: a committed grant has its success entry *)
(* in the audit trail, and an inactive grant descends from (or is) one     *)
(* whose revocation was recorded.                                          *)
(***************************************************************************)
Audited ==
    /\ Committed \subseteq granted
    /\ \A g \in inactive : Lineage(g) \cap revoked # {}

(***************************************************************************)
(* "Revoking a grant cascades forward through every descendant grant,      *)
(* blacklisting each one's JTI immediately": no token is accepted whose    *)
(* lineage holds a revoked grant.  It holds when requests run one at a     *)
(* time; two that overlap break it.                                        *)
(***************************************************************************)
CascadeComplete ==
    \A g \in Committed : Lineage(g) \cap inactive # {} => ~ Accepted(g)

(***************************************************************************)
(* Grants, committed or about to be, below a revoked one.                  *)
(***************************************************************************)
Doomed ==
    {g \in Committed : Lineage(g) \cap inactive # {}}
        \cup {req[r].id : r \in {q \in InFlight :
                 Chain(req[q].row.parent_grant_id) \cap inactive # {}}}

(***************************************************************************)
(* What the overlap can cost is bounded: only requests that had loaded     *)
(* their chain before a revocation committed end up below it.  Any step    *)
(* other than the commit of a revocation adds no grant, committed or in    *)
(* flight, below a revoked one, not even below an orphan that is itself    *)
(* still active.                                                           *)
(***************************************************************************)
NoNewGrantUnderRevoked == [][inactive' = inactive => Doomed' \subseteq Doomed]_vars

(***************************************************************************)
(* Delegations towards a that have read it as ACTIVE and have not ended,   *)
(* and the tokens it holds and can use.                                    *)
(***************************************************************************)
Underway(a) ==
    {r \in Request : /\ req[r].pc = "checked"
                     /\ req[r].delegatee = a}
        \cup {r \in InFlight : /\ req[r].row.delegatee_agent_id = a
                              /\ req[r].id \notin blacklist}

Usable(a) ==
    {g \in GrantId : Accepted(g) /\ grant[g].delegatee_agent_id = a}

(***************************************************************************)
(* A delegation that read its delegatee as ACTIVE may still give it a      *)
(* token after the delegatee was suspended or decommissioned: delegate()   *)
(* does not look again.  It stops there: while an agent is not ACTIVE its  *)
(* usable delegation tokens and the delegations that may still bring one   *)
(* never become more, whatever else is delegated, revoked or rolled back.  *)
(***************************************************************************)
DisabledGainsNothing ==
    [][\A a \in Agent \ active :
          Cardinality(Underway(a))' + Cardinality(Usable(a))'
              <= Cardinality(Underway(a)) + Cardinality(Usable(a))]_vars

(***************************************************************************)
(* A revocation ends (it answers or fails): the breadth-first search runs  *)
(* out of levels even while new grants are committed under its feet, and   *)
(* the row locks it waits for are released, also when two revocations hold *)
(* rows the other one wants.                                               *)
(***************************************************************************)
RevokeFinishes ==
    \A r \in RevokeRequest : req[r].pc = "descend" ~> req[r] = Idle

(***************************************************************************)
(* A handler that started goes on; PostgreSQL serves the waiters of a row  *)
(* lock in turn, so an UPDATE that can take a next row again and again     *)
(* takes it, and finds the deadlocks.  Nothing else is assumed of clients, *)
(* of failures or of time.                                                 *)
(***************************************************************************)
Fairness ==
    \A r \in RevokeRequest :
        /\ WF_vars(RevokeStep(r))
        /\ SF_vars(\E g \in GrantId : RevokeLock(r, g))
        /\ WF_vars(Deadlocked(r) /\ Abort(r))

FairSpec == Spec /\ Fairness
=============================================================================
