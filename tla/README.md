# A TLA+ model of the AI-IAM platform

The repository is an identity and access platform for AI agents: a FastAPI
service over PostgreSQL and Redis that registers agents, issues and rotates API
keys, exchanges them for short-lived tokens, lets agents delegate authority to
one another, proxies their tool calls through a policy, and keeps a hash-chained
audit trail. This directory holds TLA+ models of its core, TLC configurations,
and proofs checked by TLAPS. All source paths below are relative to
`src/backend/app/` unless they start with `src/`.

## 1. How the system runs, and what that means for the models

* Each HTTP request is handled by one coroutine in one PostgreSQL transaction
  (`db/session.py:get_db`): READ COMMITTED, committed by the route, rolled back
  on any exception. A handler's reads see what others have committed by then;
  what it writes is invisible until its commit, and a row it updated stays
  locked until then.
* Redis (the JTI blacklist and the reverse indexes of `core/revocation.py`,
  OAuth codes, rate-limit counters) is written at once and never rolled back.
* The audit trail is written by `audit_repo.append` in a session and a
  transaction of its own, so an entry can be there without the change it
  reports.
* The image runs four server processes, each with its own copy of the
  background loops (`worker/`). A cycle is guarded by a PostgreSQL advisory
  lock (`core/worker_lock.py`) that is released when its transaction ends, the
  death of the process included.

So an *action* is what a handler does between two awaits at which somebody else
can change what it reads or read what it wrote, plus a commit. Every handler
may fail at each await (`Abort` and its like): its rows vanish, what it wrote
to Redis and to the audit trail stays.

## 2. Inventory

| Component | State | Operations | Hard behaviour | What makes it correct |
|---|---|---|---|---|
| Delegation (`services/delegation_service.py`, `core/delegation.py`, `api/token.py`) | `delegation_grants`, the blacklist, audit entries | `delegate`, `revoke_grant` | revocation and delegation overlap, row locks taken one by one, role assignments overwrite each other; partial failure between PostgreSQL, Redis and the audit trail | scopes shrink, no cycles, depth bound, revoked means rejected, cascade |
| Audit trail (`repositories/audit_repo.py`) | `audit_logs` per organisation | `append`, `verify_chain` | concurrent appends, advisory lock keys that collide, failures with the lock held | contiguous, linked, append-only |
| Audit verifier (`worker/audit_verifier.py`) | cycle lock, alerts | one cycle per interval and process | processes compete, die and fail | tampering that the hashes cover is found and reported, nothing else is |
| Agent lifecycle (`services/agent_service.py`) | `agents.status`, `decommission_at` | register, activate, jit_activate, suspend, decommission, reap | check-then-update without a row lock, errors of one item swallowed | suspend and decommission silence an agent, but for what raced them |
| API keys (`services/api_key_service.py`, `repositories/api_key_repo.py`) | `api_keys` rows, grace slots | issue, verify, rotate, revoke | rotations, revocations and the rotator overlap; clocks | old secrets bounded, keys rotated in time, once |
| Token exchange and revocation index (`api/token.py`, `core/revocation.py`) | reverse indexes, blacklist | exchange, sweep | tokens minted while a sweep runs; whole-second arithmetic | a revoked token is rejected until it expires |
| Rotator and reaper (`worker/credential_rotator.py`) | cycle locks | one cycle each per interval and process | four processes, per-item errors swallowed | one rotation per key, no due key passed over without an error |
| MCP proxy and policy (`services/mcp_proxy_service.py`, `src/backend/policies/authz.rego`) | `mcp_sessions`, circuit breaker, audit entries | `execute_tool` | taint read before awaits, commits before exceptions, breaker shared by concurrent calls | no high-risk call after exposure, nothing off the record |
| OAuth server (`services/oauth_service.py`, `api/oauth.py`) | `oauth_clients`, single-use codes in Redis | `register_client`, `build_authorization_redirect`, `exchange_authorization_code` | codes raced, taken before the request is checked, expiring, lost with a failing request; status checked at authorize and not at token | one token per consent, for whom and for what it was given; suspension stops all but codes already out |
| Rate limiting (`core/rate_limit.py`) | Redis counters | one check per request | INCR without EXPIRE, outage fails open | at most *limit* per window |
| On-behalf-of grants (`agent_service.py`) | `on_behalf_of_grants` | grant, revoke, resolve | expiry and revocation at mint | a token names a human with authority |
| Operators, organisations, roles | one row each | create, read, assign role | role assignment reads, merges and writes without a lock (in `Delegation`) | - |
| Shell, migrations, dashboard, scripts, mock server | - | - | - | - |

How they interact: `delegate`, `exchange` and the OAuth token endpoint enter
their tokens in the agent's index, which `suspend` and `decommission` sweep into
the blacklist; the middleware consults only the blacklist. `exchange` goes
through `verify_key`. The proxy reads the agent's bindings, the claims of its
token and earlier `mcp_sessions` rows. Everything appends to the audit trail.
The rotator calls `rotate_key`, the reaper `decommission`.

The hazards these behaviours pose are listed, each at its line, in
`PROJECT.json`.

## 3. The modules

| Module | Models | State (variables) | Actions |
|---|---|---|---|
| `Delegation` | delegation and its revocation | `allowed`, `active` (agents); `grant`, `ceiling`, `inactive` (rows); `expired`, `blacklist`; `granted`, `revoked` (audit); `req` (requests) | `DelegateCheck`, `DelegateInsert`/`DelegateRefuse`, `DelegateAudit`, `DelegateCommit`; `RevokeStart`, `RevokeDescend` (one level of the search), `RevokeLock` (one row of the UPDATE), `RevokeBlacklist` (one jti), `RevokeAudit`, `RevokeCommit`; `AssignRead`, `AssignCommit`; `Abort`; `Expire`; `Disable`, `Enable` |
| `AuditLedger` | abstract: an append-only ledger | `ledger` | append |
| `AuditChain` | `append` and `verify_chain` | `log`, `lock`, `call` | `AppendStart`, `AppendLock`, `AppendReadTip`, `AppendCommit`, `AppendFail` |
| `AuditVerifier` (extends `AuditChain`) | the periodic replay | `touched`, `holder`, `todo`, `alerts` | `Tamper` (the environment), `CycleStart`, `VerifyOrg`, `VerifyError`, `CycleEnd`, `CycleLost` |
| `AgentCredentials` | lifecycle, keys, exchange and sweep together | `status`, `due`; `owner`, `active`; row locks; tokens, indexes, `blacklist`; `revoked`, `lateKeys`, `agentMissed`, `keyMissed` (history); `req` | `BeginRegister`, `BeginAgent`, `BeginKey`, `UpdateStatus`, `DecommissionKeys`, `DeactivateKey`, `InsertKey`, `SweepRange`/`SweepRevoke`/`SweepDelete`, `Commit`, `ExchangeUse`...`ExchangeAnswer`, `Abort`, `ReapDespiteError`, `Expire`, `DecommissionAtPasses` |
| `ApiKeyRotation` | rotation with clock and grace | `now`, `row`, `active`, `rotatedAt`, `lock`, `cycleLock`, `ran`, `req`, `revoked`, `failed` | `issue_key`, `RotateRead`, `CycleStart`, `StoreRotation`, `RotateError` (of one key, swallowed), `RotateCommit`, `Abort`, `revoke_key`, `Tick` |
| `OneTimeCode` | abstract: a consent turns into at most one token | `consent`, `open`, `issued` | `Give`, `Redeem`, `Lapse` |
| `TokenClaims` | what tokens claim: exchange, delegation, on-behalf-of grants, suspension | `status`; `grant`, `active`; `token`, `delivered`, `index`, `blacklist`; `req` | `Exchange`, `Delegate`, `Mint`, `Answer`; `GrantOnBehalfOf`, `RevokeOnBehalfOf`, `GrantLapses`; `Suspend`, `SweepIndex`, `CommitSuspend`; `Abort` |
| `OAuthCode` (extends `TokenClaims`) | the OAuth server | `client`, `codeData`, `live` | `register_client`; `Authorize`, `AuthorizeStore`; `Take`, `Resolve`; `CodeExpires` |
| `TokenClock` | the arithmetic of exp, TTL and index scores | `now` (ticks), `exp`, `index`, `until`, `op`, `target` | `Mint`, `SweepRange`/`SweepRevoke`/`SweepDelete`, `GrantRead`/`GrantRevoke`, `Tick` |
| `McpProxy` | `execute_tool` and the breaker | `call`, `session`, `audit`, `told`, `failures`, `opened` | `Start`, `ReadTaint`, `Deny`, `PolicyUnavailable`, `ShortCircuit`, `Send`, `Succeed`, `Fail`, `Audit`, `Commit`, `Answer`, `Abort`, `Restart`, `Tick` |

`MC*` modules give the constants for TLC, `*Proofs` modules the theorems.
Definitions whose name ends in `_Something` and that are introduced by
`\* Mutant:` are wrong variants of the definition that follows; nothing uses
them, they show that a property would notice.

Choices shared by the modules:

* A grant id stands for its jti, a key id for its secret: both are generated
  fresh per row. A hash is the term it was computed from, hence injective.
* One organisation and one tenant's agents, except in the audit modules. Other
  organisations' rows are never read by these handlers.
* The audit trail is, outside `AuditChain`, the set of entries that have been
  committed. That `append` may be treated so is what `ImplementsLedger` says.
* Variables or fields called history (`ceiling` in `Delegation`; `revoked`,
  `lateKeys`, `agentMissed` and `keyMissed` in `AgentCredentials`; `revoked`,
  `failed` and `by` in `ApiKeyRotation`; `exposed`, `reached`, `target`,
  `touched`, `via`) are not read by any guard. They let a property name exactly
  who slipped past a revocation and claim the rest.

Notes on single modules:

* `Delegation.DelegateCheck` is everything from reading the agents to
  `validate`; the chain is read level by level in the code, but rows of a chain
  never change except to become inactive, so reading it at once is reading it at
  the moment of its last query. `Lineage` is defined as the least set closed
  under `parent_grant_id`, not recursively, so that it can be reasoned about.
* `Delegation.AssignRead` merges a role's scopes into what it has read of
  `allowed_scopes`, `AssignCommit` writes the merged list: of two assignments
  that overlap the later one takes the other's scopes back. `RevokeLock` takes
  the rows of the UPDATE one at a time, so that two revocations can wait for
  each other; `Deadlocked` is when PostgreSQL makes one fail. A blacklisted jti
  stays so: what `int()` costs in the last second is in `TokenClock`.
* `AgentCredentials.Apply` writes rows at commit; between an UPDATE and the
  commit the row is in `agentLock`/`keyLock`. `StatusPermits` and `KeyPermits`
  are what a handler checks on its first read: the later UPDATE looks at
  nothing. The reaper is one session of its own and takes one agent per cycle,
  where the code decommissions a batch in one transaction
  (`worker/credential_rotator.py:133-148`): rows of several agents then appear
  together, which no property here relates. `Overlap` bounds how many requests
  are in flight at a time, the reaper's cycle among them.
* `ApiKeyRotation`: the unit of time is a fifth of the default lifetime
  (30 days). A cycle has been run in every unit before the clock may move on
  (`ran`), as the loop's interval of five minutes is far shorter, but it may
  have failed for some of the keys (`RotateError`) or for all (`Abort`);
  `failed` remembers which keys and when. No request spans a tick. The scan
  over all keys for a bare secret is left out: its only caller would be
  `/token/exchange`, which names no organisation and is refused
  (`services/api_key_service.py:188-193`).
* `TokenClock` counts fractions of a second (`Hz` ticks), because `int()` is
  applied to some of the times and not to others.
* `TokenClaims`: scopes are strings in the rows, and only those
  `PermissionScope` has a member for (`Known`) get into a token (`Converted`).
  Who activated an agent is a constant; that two `activate` requests can both
  read PENDING and the later one overwrite `activated_by_user_id`
  (`agent_service.py:188-205`) is not in this model.
  The module leaves the lineage rules of delegation to `Delegation` and key
  verification to `AgentCredentials`: any agent with a key can exchange it, and
  a token is delegated by its scopes. The ceiling is
  computed from the presented token and the agent's registration, as
  `delegate` does; `DelegatedClaims` drops `resource` and the task, as
  `create_delegation_token` does.
* `OAuthCode`: a code is `live` while its key is in Redis. `Take` is GETDEL and
  the checks after it up to the next await: a presentation that does not match
  changes nothing but the code, which is gone. `Resolve` reads the agent for
  its human only. A redemption is then minted by the same `Mint` as any other
  token. A token's `via`, the code it was minted for and what was presented
  with it, is history. The PKCE challenge is a term, hence injective.
* `McpProxy` has one agent and one process: the breaker is per process and
  bindings are fixed at registration (no route updates them). The policy's
  depth and scope conditions are one Boolean of the token; `Deny` covers the
  policy and the `tool_filter`, `PolicyUnavailable` the fail-closed path.

## 4. The runs

| Run | Bounds | Shows |
|---|---|---|
| `delegation_concurrent` | 3 agents, depth 2, 2 grants, one of which may expire, two requests: one delegates or revokes, the other revokes, so at most a delegation and a revocation, or two revocations, are in flight | `ChainShape`, `RevokedIsRejected`, `Audited`, `NoNewGrantUnderRevoked`, `RevokeFinishes` |
| `delegation_scopes` | 3 agents, 2 scopes, 2 roles of one scope each, 2 grants, one delegation and two role assignments in flight; one agent is disabled, re-enabled and assigned roles meanwhile | `Attenuation`, `NoAgentTwice`, `DisabledGainsNothing` |
| `delegation_race` | a delegation and a revocation | violation of `CascadeComplete` |
| `audit_chain` | 3 organisations, two of them on one lock key, 2 writers, 2 entries each | `ChainIntact`, `Contiguous`, `TipIsCurrent`, refinement of `AuditLedger`, `AppendFinishes` |
| `audit_verifier` | 2 organisations, 1 writer, 2 processes, one change of one row, five kinds of change | `TamperDetected`, `NoFalseAlert`, `TamperReported` |
| `credentials` | 1 ephemeral agent, 2 keys, 1 token, from registration on; any two of two requests and the reaper's cycle overlap | `IndexComplete`, `RevokedKeyDead`, `DecommissionedDead`, `SuspendCutsOff`, `DecommissionIsFinal`, `EscapeIsBounded` |
| `rotation` | 3 keys issued for 1 or 5 units, 2 user requests with a grace of 2, 2 workers with 1, clock to 6, default lifetime 5 | `GraceHonoured`, `RotatedBeforeExpiry`, `OldSecretBounded`, `OneSuccessor` |
| `rotation_grace` | 3 keys, 1 request, 1 worker | violation of `BothKeysWork` |
| `rotation_revoked` | 3 keys, 1 request, 1 worker | violation of `RevokedIsDead` |
| `token_clock` | 2 access tokens and a delegation token, 3 ticks a second, 2-second tokens, clock to 15 ticks | `HeldUntilLastSecond`, `SweptHeldUntilExp` |
| `mcp_proxy` | 3 calls in 1 trace, an untrusted and a trusted server, 2 tools, 2 tokens, threshold 2, cooldown 1 | `NoRiskAfterExposure`, `Recorded`, `TrippedByFailures` |
| `oauth_code` | 2 agents, both with a key, one of them activated just in time; 2 operators; 3 scopes, one that needs a task and one the server does not know; 1 client, 2 redirect URIs, 2 verifiers, 1 code, 2 tokens, 1 grant, 2 requests | `HumanAnchored`, `TaskScopedRoots`, refinement of `OneTimeCode`, `StaleConsentBounded` |

The passing runs also check the type invariant of their module once, except
`ApiKeyRotation`'s and `TokenClock`'s, which are proved. Each property has a
mutant in `PROJECT.json`: the definition it names, replaced by a plausible
mistake, makes TLC report that property.

Of the audit chain's properties `TipIsCurrent` is the one that needs the advisory
lock: without it the unique index on the sequence number still refuses a fork, so
`Contiguous` and the refinement of the ledger hold all the same.

Why the bounds are enough to be interesting. Two revocations are what it takes
for overlapping row locks, and for a deadlock between them; a delegation and a
revocation for a child inserted while its ancestor is being revoked. Two grants
make a chain whose child is the escapee. Two role assignments are what it takes
to lose one, and the roles' scopes differ so that the loss is seen. Two writers
on a shared key and one on its own are every combination of waiting and not
waiting; two entries are a tip with a predecessor. In `credentials` two requests
are a revocation and what races it: an exchange between its verification and its
index entries, an issue or a rotation behind a decommission's listing, an
`activate` or a `jit_activate` behind a decommission, a suspension beside the
reaper. The agent is ephemeral, so nothing is excluded, and it has two keys
because a cascade sweeps key by key. One token is enough: the properties are
about each token on its own, and `EscapeIsBounded`, which counts, is proved. In
`rotation` two keys are the old and the new one, three a rotation within the
grace of another, and a key issued for one unit expires long before it is due.
Three calls are one that taints, one that was already past its query and one
made later, with two of them enough to trip the breaker. One code and two
requests are a race for it, two tokens a root and a delegated one, or a token
and the second redemption that must not be. The proved theorems (section 6) hold
for all values.

Deadlock is checked in the delegation runs and in `oauth_code`. The other runs
say `CHECK_DEADLOCK FALSE` since their bounded supply of keys, tokens, calls, log
entries or clock ticks runs out, and an idle server is no error.

### Fairness

* `Delegation`: weak fairness of each revocation's own steps (a coroutine that
  can go on does); strong fairness of `RevokeLock`, since PostgreSQL queues the
  waiters of a row lock, so an UPDATE that could take a next row again and again
  takes it; and weak fairness of a failure in a `Deadlocked` revocation, which is
  PostgreSQL's deadlock detector. Nothing is assumed of clients, failures or
  time.
* `AuditChain`: the same with the advisory lock in the place of row locks.
* `AuditVerifier`: some process starts a cycle whenever none is running (four
  loops that sleep and try again), a cycle goes on, and the replay of one
  organisation does not fail in every cycle. The last is an assumption on the
  database; without it an alert cannot be promised.
* `AgentCredentials`, `OAuthCode`, `ApiKeyRotation`, `TokenClock`, `McpProxy`:
  none. What is claimed
  of them is safety, and holds if everything stops. In particular nothing is
  claimed of when the reaper gets to an agent: it passes over those that are not
  ACTIVE (section 5).

## 5. Findings

Three runs show the code doing something a document or comment of the
repository denies.

* `delegation_race`: `revoke_grant` collects the subtree with plain SELECTs. A
  delegation that has loaded its chain and not committed is missed, and its
  token stays accepted after the cascade. `NoNewGrantUnderRevoked` (checked and
  proved) says how far this goes: only requests already past the check.
* `rotation_revoked`: `revoke_key` promises no grace period; a rotated key that
  is then revoked goes on working through its successor's grace slot.
* `rotation_grace`: `services/api_key_service.py:8`, `src/README.md:121` and
  `src/docs/credential-lifecycle.md:30` say that the old key works through the
  grace period. It stops at the rotation: `verify_key` refuses a row that is not
  active (`:230`). What works is the old *secret* under the *new* key id, which
  a client that has not heard of the rotation cannot send; a bare secret is
  refused by `/token/exchange`, which names no organisation (`:188-193`).
  `GraceHonoured` states that much and is proved.

Other divergences seen while modelling, without a run of their own:

* `src/docs/threat-model.md:31` says `verify_chain` alerts when a
  `previous_hash` does not match the preceding row. It does not look at that
  column (`repositories/audit_repo.py:193-209`): it recomputes each hash from
  the one before. A changed `previous_hash` is therefore not noticed, and
  neither `TamperDetected` nor `NoFalseAlert` says anything of such a change.
  Nor can the removal of the newest rows be noticed.
* `src/README.md:122` calls task-scoping mandatory for the scopes it names. That
  is so where tokens start; a delegation token carries no
  `authorization_details` (`core/jwt.py:158-173`), so the delegated token may use
  such a scope for any call. `TaskScopedRoots` says what remains: the token it
  descends from was bound to a call.
* Role assignment reads `allowed_scopes`, merges and writes back without a lock
  (`api/roles.py:57-69`): of two that overlap the later takes the other's scopes
  back, though their holders may have delegated them by then. `Attenuation` is
  therefore about what the delegator was allowed when it delegated.
* `delegate` looks at its delegatee's status once, before it inserts: an agent
  suspended in between still gets that token, and one whose insertion follows
  the sweep keeps it. `DisabledGainsNothing` bounds it to what was under way.
* A code may turn into a token after its agent was suspended: the status is
  checked at `/authorize` and not at `/token`. `StaleConsentBounded` says how
  far that goes: what was on its way when the suspension committed, and nothing
  that starts afterwards. It is about the code flow only, see the next point.
* A suspended agent can exchange a key it holds for a fresh token, since
  neither `verify_key` nor the exchange looks at `agents.status`; the comment
  at `services/agent_service.py:433` takes it that suspension stops new
  credentials. `SuspendCutsOff` states what does hold: the tokens held when
  the suspension commits are dead.
* Revoking an on-behalf-of grant, or its expiry, leaves the tokens that name its
  human as they are, and a grant that is revoked after `resolve_on_behalf_of`
  has read it still gets its token minted. `HumanAnchored` asks that the human
  vouched, not that the grant is still in force; tokens of an agent activated
  just in time may name nobody.
* Scopes in `allowed_scopes`, in a key or in a consent that `PermissionScope` has
  no member for are dropped without an error when a token is minted
  (`api/token.py:72-77`, `oauth_service.py:304-309`): the token has less than was
  consented to.
* Two `activate` requests may both read PENDING; the later commit decides who
  activated the agent (`agent_service.py:188-205`).
* A code is used up by a redemption that then fails, whoever sent it
  (`oauth_service.py:260`): GETDEL comes before the checks. That is what makes
  the race safe; the client has to ask again.
* `decommission` "is irreversible" (`agent_service.py:466`), but `jit_activate`
  looks at no status and makes a decommissioned ephemeral agent ACTIVE again,
  and a concurrent `activate` or `suspend` that read the status before also
  overwrites it. `DecommissionIsFinal` says that there is no other way, and that
  each request that overlapped the decommission can do it once.
* The hard ceiling of `jit_activate` (`agent_service.py:361`) applies only to
  agents that are ACTIVE when their time comes (`agent_repo.py:117`).
* A sweep deletes the index it ranged over: a jti tracked in between is neither
  revoked nor in the index any more, so later revocations miss it too
  (`core/revocation.py:149`). `IndexComplete`, `RevokedKeyDead`,
  `DecommissionedDead` and `SuspendCutsOff` except exactly these tokens
  (`agentMissed`, `keyMissed`) and hold of all others.
* The reaper catches the error of one agent's decommission and goes on to commit
  (`worker/credential_rotator.py:144`): the rows changed so far stay changed,
  the tokens not yet swept stay accepted. The same properties except those.
* Keys issued and rotated while `decommission` is between reading the active
  keys and committing stay active: the exception in `DecommissionedDead`.
* `track_issued_jti` prunes tokens of the current second from the index as
  "already dead" (`core/revocation.py:135-138`), while the middleware, comparing
  whole seconds, accepts a token to the end of that second: a sweep in it misses
  such a token. `SweptHeldUntilExp` promises refusal up to `exp` and no further.
* A delegation token blacklisted by `revoke_grant` is accepted again in its last
  fraction of a second (`int()` at `delegation_service.py:376`);
  `HeldUntilLastSecond` is the exact statement.
* A second rotation within a grace period ends the first one's grace
  (`repositories/api_key_repo.py:101`).
* Keys issued with a lifetime shorter than four fifths of the default expire
  before they are due (`core/security.py:115` is given the default,
  not the key's own lifetime), against "rotated BEFORE they expire". And a cycle
  swallows what one key's rotation raises. `RotatedBeforeExpiry` states what
  holds: no cycle in the last fifth of the default lifetime, or after, passes
  over a key without having failed to rotate it.
* The verifier asks for 1000 organisations in no order; past that number none
  is sure to be replayed. (With the limit set to 1 in `MCAuditVerifier`, below
  its two organisations, TLC refutes `TamperReported`.)
* After its cooldown the breaker lets every waiting call through, where the
  comment at `mcp_proxy_service.py:166` says one trial call; a late success of a
  call sent before it opened closes it, a late failure starts its cooldown anew.
  `TrippedByFailures` says only that its two fields agree.
* A call under way when tainted content reaches the agent through another call
  was made in innocence and is not judged again: `NoRiskAfterExposure` is about
  calls made afterwards. A tool call cut off by a crash or a cancellation after
  the tool ran is on no record: `Recorded` is about what an agent was told.
* `worker/audit_flusher.py` is imported by nothing, and calls `append` with a
  positional argument it does not take.

## 6. The proofs

TLAPS checks, for every value of the constants that meets the named assumptions
of the modules (`ConstantsAssumption` and its like: types, `None` and the reaper
outside the sets they stand beside, finitely many grants, and, where a property
counts them, finitely many tokens, codes and requests of disjoint names):

**`DelegationProofs`.** `TypeCorrect`, then two inductive invariants.
`ChainInv` adds `Links` to the type invariant: every committed row, and every
row in flight, is linked correctly to its parent (scopes within the
parent's, depth one more, delegator = parent's delegatee, delegatee new to the
lineage), and the token a request was checked with is still the one of a
committed grant. It is needed because the properties speak of committed rows
only, while what makes them true was checked awaits before the commit. Parents
are committed before their children start and rows never change, so links are
stable. `CeilingOK` adds that a row, committed or in flight, is within the
`allowed_scopes` its request had read, which is recorded with it: nothing is
assumed of what role assignments make of them later. From these:
`AttenuationHolds`, `ChainShapeHolds`, `NoAgentTwiceHolds`, by lemmas on
`Lineage` (closed, stable under new rows, one step at a time; depth is cardinality).
`RevokeInv` adds `Revocations`: what a revocation in flight has collected
descends from its target, what it has to blacklist or has blacklisted covers all
it will deactivate, and the audit entry precedes the commit. From it:
`RevokedIsRejectedHolds`, `AuditedHolds`, and the action property
`NoNewGrantHolds`. `DisabledGainsNothingHolds` goes through the steps of a
delegation: the request that read its delegatee as ACTIVE is traded for the row
in flight, that row for the grant, and no step adds to either while the agent is
not ACTIVE.

**`AuditChainProofs`.** `ChainInv` = types, `LockHeld` (past the lock means
holding the key of one's organisation), `Numbered` (rows are 1..n), `Linked`
(neighbouring hashes) and `TipIsCurrent` (a tip read under the lock is still the
tip). `LockHeld` makes two appends to one chain exclude each other between
reading the tip and committing, whatever the keys. From it: `ContiguousHolds`,
`ChainIntactHolds`, `TipIsCurrentHolds`, and `LedgerRefinement`: initial states
map to initial states of `AuditLedger`, and every step to an append or a
stutter.

**`OAuthCodeProofs`.** `ClaimsInv` says of a request about to mint what
`HumanAnchored` and `TaskScopedRoots` say of a token (`RequestSound`,
`TokenSound`), because claims are fixed when the request starts, and of a stored
code and a request on its way to a token what `/authorize` checked
(`CodesLawful`). It is stable because tokens and grants are written once
(`NothingTakenBack`): the human was vouched for then, by a row that is still
there, revoked or not; a delegation narrows a sound token, and so does
the conversion of scopes. From it:
`TypeCorrect`, `HumanAnchoredHolds`, `TaskScopedRootsHolds`. `SingleUse` adds
that a code's key is in Redis or one request has the code, never both, never
two, and that the request holds the consent stored for it, of which the token
gets the scopes the server understands. From it:
`CodeRefinement`, every step being a step of `OneTimeCode` or a stutter.

**`ApiKeyRotationProofs`.** `RotationInv`: a transaction in flight inserts keys
nobody else has, in the instant it started (no request spans a tick), and a
worker with one open holds the cycle lock (`InFlight`, `Disjoint`); a rotated key
is never active again (`Retired`); a successor's predecessor was rotated and its
grace runs from then or earlier (`Succession`); what a worker is about to rotate
no worker has rotated (`WorkersApart`). Two rotations of one key can both commit,
so nothing simpler is inductive. From it: `TypeCorrect`,
`OldSecretBoundedHolds`, `OneSuccessorHolds`.

**`TokenClockProofs`.** `ClockInv` follows a token that is not yet `Safe` (its
entry lasts long enough or it is too late to matter): it is in the index, then
among the members the sweep has read or the target of `revoke_grant`, until the
entry is written. The arithmetic is that of `int()`: a whole second is at most a
second behind. From it: `TypeCorrect`, `HeldUntilLastSecondHolds`,
`SweptHeldUntilExpHolds`, for every lifetime and resolution of the clock.

**`McpProxyProofs`.** `ProxyInv` = types, `OnRecord` (a committed call has the
row it built and its audit entry; an answer is the status of a committed call)
and `Judged` (a call made by an exposed agent is in a tainted trace, past the
query it carries the taint, and if it was sent the policy had allowed it).
Exposure means an answer, an answer means a committed row, rows stay, so the
query of a later call finds it. From it: `NoRiskAfterExposureHolds`,
`RecordedHolds`; and `TrippedByFailuresHolds`, inductive with the types alone.

**`AuditVerifierProofs`** (on top of `AuditChainProofs`). A change from outside
ends `ChainInv`: a removed row leaves a gap, a rewritten tip leaves an append in
flight with a stale one. `VerifierInv` bounds the damage of one change:
`NumberedButOne` (a gap only where the row was), `LinkedButOne` (at most one row
fails its check, the one `BreakAt` names), `BreakStays` (that row is there and
fails), `TipOrStale` (a tip is current, or it was read before its row was
changed, and its append is the next in that chain). The last is what keeps an
append from papering over the change. From it: `TamperDetectedHolds`,
`NoFalseAlertHolds`, for any number of entries, organisations and processes.

**`AgentCredentialsProofs`.** Every theorem is about `Spec` as it stands: any
number of agents, keys, tokens and overlapping requests, ephemeral agents, the
reaper with the errors it swallows, failures at every await. Three inductive
invariants:

* `RequestInv`: the shape of a request at each await, row locks held by the
  request that is to write the row, and the token an exchange carries is the one
  it minted for its key. From it `TypeCorrect`; and `EscapeBounded`: a delivered
  token of a revoked key takes the place of the exchange that was under way, so
  that no step but a revocation makes the escaped more.
* `SweepInv`, relative to `RequestInv`: what a sweep has still to revoke is all
  that lives in the index it read (`ReadAll`); a token is in its indexes, dead or
  missed (`Indexed`); and when a sweep is past, for good or until its request
  rolls back, all tokens of its key or agent are dead or missed (`KeySwept`,
  `AgentSwept`). A token is missed when it enters an index that a sweep has read,
  or when the reaper's swallowed error leaves it in one, and at no other moment.
  The row lock ties the sweep to the commit: nobody else commits that row in
  between. From it: `IndexesComplete`, `RevokedKeysDead`, `SuspensionCutsOff`.
* `RowInv`, relative to `RequestInv`: a cascade past its listing accounts for
  every active key of its agent, as still to do, done, or committed too late
  (`Listed`); no key is active and revoked. From it, with `SweepInv`:
  `DecommissionedAgentsDead`.

`DecommissionFinal` needs `RequestInv` only: a request that would overwrite the
status has to begin while the status permits it, so none begins while the agent
is decommissioned, and the one that overwrites ends with that step.

**`ApiKeyRotationProofs`, continued.** `ServiceInv` is about keeping clients
served: a key leaves the active ones by rotation or revocation only
(`Accounted`), the last rotation of a key left a successor with its whole grace
(`Succeeded`); after a unit's cycle every due key has been failed in this unit
(`CaughtUp`), and a cycle in flight has all the others on its list or rotated
(`Covers`). From it: `GraceHonouredHolds` and `RotatedInTime`, for keys of any
lifetime, with per-key errors swallowed and cycles rolled back.

**`OAuthCodeProofs`, continued.** `Answers`: a request answers with the token it
minted, which carries a code only if the request redeemed one. With it every
step of the code flow either adds nothing for an agent that is not ACTIVE or
trades: the request of `/authorize` for a code, a code for the request that took
it, that request for its token. From it: `StaleConsentBoundedHolds`.

So every safety property of the passing runs is proved. Only model-checked are
the liveness properties (`RevokeFinishes`, `AppendFinishes`, `TamperReported`),
which need fairness and so are beyond the prover.

## 7. Not modelled

* Rate limiting: one INCR on a key that nothing else reads, failing open when
  Redis is away; it promises an approximate bound on load and no other part
  relies on it.
* Operators, organisations and roles: handlers of one row, kept apart by the
  database's unique constraints, without protocol state; role assignment is
  modelled in `Delegation` (`AssignRead`, `AssignCommit`).
* Audit flusher: dead code.
* Application shell, metrics, logging, dashboard, scripts, migrations, mock
  server: no state of the protocol. Constraints the migrations create are in
  the models (unique sequence numbers, unique key ids).
* Cryptography (JWT signatures, bcrypt, SHA-256) is taken as ideal.

## 8. Plan

The parts with a protocol of their own are modelled, and the safety properties
of the passing runs are proved. What is left:

1. The safety half of the liveness properties as invariants of their own: that
   whoever waits for a row lock or an advisory lock waits for a request that can
   go on, or is `Deadlocked`.
2. A batch of the reaper as one transaction, to relate the agents it commits
   together.
