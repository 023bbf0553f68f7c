-------------------------- MODULE AgentCredentials --------------------------
(***************************************************************************)
(* The life of an agent and of the credentials that hang on it: the status *)
(* changes of services/agent_service.py, the keys of                       *)
(* services/api_key_service.py, token exchange (api/token.py), the reverse *)
(* indexes of core/revocation.py that a cascade revoke reads, and the      *)
(* reaper of worker/credential_rotator.py.                                 *)
(*                                                                         *)
(* Requests interleave.  Database writes are visible at commit (READ       *)
(* COMMITTED); an UPDATE first waits for the row while another transaction *)
(* has changed it and not finished.  Redis is written at once and for      *)
(* good.  Every handler appends its audit entries in transactions of their *)
(* own just before it commits (AuditChain); they change nothing here.      *)
(*                                                                         *)
(* A jti is in the index, and in the blacklist, until its token expires;   *)
(* the last second of a token's life is the subject of TokenClock.         *)
(*                                                                         *)
(* Four history variables record which keys were revoked and who slipped   *)
(* past a revocation, so that the properties can say of everybody else     *)
(* that they did not.  They forget what no longer works anyway.            *)
(***************************************************************************)
EXTENDS Naturals, FiniteSets

CONSTANTS
    Agent,      \* bound: the agents that may ever be registered
    Ephemeral,  \* those registered with is_ephemeral
    Key,        \* bound: the API keys that may ever exist
    Jti,        \* bound: the access tokens that may ever be minted
    Request,    \* bound: requests that may be in flight
    Overlap,    \* bound: how many of them, and of Reaper, overlap at a time
    Reaper,     \* the worker cycle that holds _REAPER_LOCK: one at a time
    Operation,  \* the operations that are called
    None

Status == {"PENDING", "ACTIVE", "SUSPENDED", "DECOMMISSIONED"}

Subject == [agent : Agent, key : Key]

ASSUME ConstantsAssumption ==
    /\ Ephemeral \subseteq Agent
    /\ Reaper \notin Request
    /\ None \notin Request \cup {Reaper} \cup Key \cup Agent \cup Jti
    /\ None \notin Status \cup Subject
    /\ IsFiniteSet(Jti) /\ IsFiniteSet(Request) /\ Jti \cap Request = {}
    /\ Overlap \in Nat
    /\ Operation \subseteq {"register", "activate", "jit_activate",
                            "suspend", "decommission", "issue_key",
                            "rotate_key", "revoke_key", "exchange"}

VARIABLES
    status,     \* agents.status, None while there is no such row
    due,        \* ephemeral agents whose decommission_at has passed
    owner,      \* api_keys.agent_id, None while there is no such row
    active,     \* keys with is_active
    agentLock,  \* agents row -> the transaction that updated it
    keyLock,    \* api_keys row -> the transaction that updated it
    token,      \* minted tokens: the Subject of a jti, None before
    delivered,  \* tokens that have reached their client
    expired,    \* tokens past their exp
    agentIndex, \* Redis: agent:{agent_id}:jtis
    keyIndex,   \* Redis: key:{key_id}:jtis
    blacklist,  \* Redis: revoked_jti:{jti}
    revoked,    \* history: keys deactivated for good, not by a rotation
    lateKeys,   \* history: active keys committed after decommission listed them
    agentMissed,\* history: live tokens a sweep of their agent's index left alone
    keyMissed,  \* history: live tokens a sweep of their key's index left alone
    req         \* requests in flight

vars == <<status, due, owner, active, agentLock, keyLock, token, delivered,
          expired, agentIndex, keyIndex, blacklist, revoked, lateKeys,
          agentMissed, keyMissed, req>>

rows == <<status, due, owner, active, revoked, lateKeys>>

locks == <<agentLock, keyLock>>

tokens == <<token, delivered, expired>>

missed == <<agentMissed, keyMissed>>

index == <<agentIndex, keyIndex, missed>>

Session == Request \cup {Reaper}

Idle == [pc |-> "idle"]

(***************************************************************************)
(* A request: what it does, to which agent and key, the keys it still has  *)
(* to revoke, the index it sweeps and the jtis read from it, the key it    *)
(* creates or the token it mints.                                          *)
(***************************************************************************)
InFlight ==
    [pc      : {"begun", "keys", "range", "sweep", "swept", "used", "tracked",
                "indexed"},
     op      : Operation \cup {"reap"},
     agent   : Agent,
     key     : Key \cup {None},
     todo    : SUBSET Key,
     members : SUBSET Jti,
     new     : Key \cup {None},
     jti     : Jti \cup {None}]

RequestState == {Idle} \cup InFlight

TypeOK ==
    /\ status \in [Agent -> Status \cup {None}]
    /\ due \subseteq Ephemeral
    /\ owner \in [Key -> Agent \cup {None}]
    /\ active \subseteq Key
    /\ agentLock \in [Agent -> Session \cup {None}]
    /\ keyLock \in [Key -> Session \cup {None}]
    /\ token \in [Jti -> Subject \cup {None}]
    /\ delivered \subseteq Jti
    /\ expired \subseteq Jti
    /\ agentIndex \in [Agent -> SUBSET Jti]
    /\ keyIndex \in [Key -> SUBSET Jti]
    /\ blacklist \subseteq Jti
    /\ revoked \subseteq Key
    /\ lateKeys \subseteq Key
    /\ agentMissed \subseteq Jti
    /\ keyMissed \subseteq Jti
    /\ req \in [Session -> RequestState]

-----------------------------------------------------------------------------
KeyRows == {k \in Key : owner[k] # None}

Registered == {a \in Agent : status[a] # None}

ActiveKeys(a) == {k \in active : owner[k] = a}

(***************************************************************************)
(* A key_id no row has and no transaction is about to insert.              *)
(***************************************************************************)
FreshKey(k) ==
    /\ k \notin KeyRows
    /\ \A r \in Session : req[r] # Idle => req[r].new # k

FreshAgent(a) ==
    /\ a \notin Registered
    /\ \A r \in Session : req[r] # Idle => req[r].agent # a

FreshJti(j) == token[j] = None

(***************************************************************************)
(* The bounds on requests: at most Overlap at a time, and none that would  *)
(* find no key or token left to make.                                      *)
(***************************************************************************)
MayBegin(r, op) ==
    /\ req[r] = Idle
    /\ Cardinality({s \in Session : req[s] # Idle}) < Overlap
    /\ op = "exchange" => \E j \in Jti : FreshJti(j)
    /\ op \in {"issue_key", "rotate_key"} => \E k \in Key : FreshKey(k)

Cascade == {"decommission", "reap"}

Revoking == Cascade \cup {"revoke_key"}

Started(op, a, k) ==
    [pc |-> "begun", op |-> op, agent |-> a, key |-> k, todo |-> {},
     members |-> {}, new |-> None, jti |-> None]

(***************************************************************************)
(* register: a parent, if one is named, must be PENDING or ACTIVE now.     *)
(***************************************************************************)
BeginRegister(r, a, parent) ==
    /\ MayBegin(r, "register")
    /\ "register" \in Operation
    /\ FreshAgent(a)
    /\ parent # None => status[parent] \in {"PENDING", "ACTIVE"}
    /\ req' = [req EXCEPT ![r] = Started("register", a, None)]
    /\ UNCHANGED <<rows, locks, tokens, index, blacklist>>

\* Mutant: suspend forgets to look at the status.
StatusPermits_SuspendAny(op, a) ==
    CASE op = "activate"                  -> status[a] = "PENDING"
      [] op = "jit_activate"              -> a \in Ephemeral
      [] op = "decommission"              -> status[a] # "DECOMMISSIONED"
      [] op = "reap"                      -> a \in due /\ status[a] = "ACTIVE"
      [] op = "issue_key"                 -> status[a] = "ACTIVE"
      [] OTHER                            -> op = "suspend"

(***************************************************************************)
(* What the handler reads first, and refuses: activate wants PENDING,      *)
(* suspend and decommission anything not DECOMMISSIONED, jit_activate only *)
(* that the agent is ephemeral; the reaper picks ephemeral agents that are *)
(* ACTIVE and past their time; issue_key wants ACTIVE.                     *)
(***************************************************************************)
StatusPermits(op, a) ==
    CASE op = "activate"     -> status[a] = "PENDING"
      [] op = "jit_activate" -> a \in Ephemeral
      [] op = "suspend"      -> status[a] # "DECOMMISSIONED"
      [] op = "decommission" -> status[a] # "DECOMMISSIONED"
      [] op = "reap"         -> a \in due /\ status[a] = "ACTIVE"
      [] op = "issue_key"    -> status[a] = "ACTIVE"
      [] OTHER               -> FALSE

BeginAgent(r, op, a) ==
    /\ MayBegin(r, op)
    /\ a \in Registered
    /\ StatusPermits(op, a)
    /\ req' = [req EXCEPT ![r] = Started(op, a, None)]
    /\ UNCHANGED <<rows, locks, tokens, index, blacklist>>

\* Mutant: verify_key accepts the key of any row.
KeyPermits_Inactive(op, k) ==
    CASE op = "rotate_key"                -> k \in active
      [] op \in {"exchange", "revoke_key"} -> k \in KeyRows
      [] OTHER                            -> FALSE

(***************************************************************************)
(* rotate_key and verify_key want the key active; revoke_key only that it  *)
(* exists.  None of them looks at the agent.                               *)
(***************************************************************************)
KeyPermits(op, k) ==
    CASE op = "rotate_key" -> k \in active
      [] op = "exchange"   -> k \in active
      [] op = "revoke_key" -> k \in KeyRows
      [] OTHER             -> FALSE

BeginKey(r, op, k) ==
    /\ MayBegin(r, op)
    /\ KeyPermits(op, k)
    /\ req' = [req EXCEPT ![r] = Started(op, owner[k], k)]
    /\ UNCHANGED <<rows, locks, tokens, index, blacklist>>

-----------------------------------------------------------------------------
(***************************************************************************)
(* Tokens that stop working are no longer missed by anybody.               *)
(***************************************************************************)
Forget(js) ==
    /\ agentMissed' = agentMissed \ js
    /\ keyMissed' = keyMissed \ js

(***************************************************************************)
(* revoke_all_in_index: read the live members, blacklist them one by one,  *)
(* delete the index.  It runs on the index of the key just deactivated or, *)
(* when none is left, of the agent.                                        *)
(***************************************************************************)
SweepsKey(q) == q.key # None

Members(q) == IF SweepsKey(q) THEN keyIndex[q.key] ELSE agentIndex[q.agent]

SweepRange(r) ==
    /\ req[r].pc = "range"
    /\ req' = [req EXCEPT ![r].pc = "sweep",
                          ![r].members = Members(req[r]) \ expired]
    /\ UNCHANGED <<rows, locks, tokens, index, blacklist>>

SweepRevoke(r, j) ==
    /\ req[r].pc = "sweep"
    /\ j \in req[r].members
    /\ blacklist' = blacklist \cup {j}
    /\ req' = [req EXCEPT ![r].members = @ \ {j}]
    /\ Forget({j})
    /\ UNCHANGED <<rows, locks, tokens, agentIndex, keyIndex>>

SweepDelete(r) ==
    LET q == req[r] IN
    /\ q.pc = "sweep"
    /\ q.members = {}
    /\ IF SweepsKey(q)
       THEN /\ keyIndex' = [keyIndex EXCEPT ![q.key] = {}]
            /\ UNCHANGED agentIndex
       ELSE /\ agentIndex' = [agentIndex EXCEPT ![q.agent] = {}]
            /\ UNCHANGED keyIndex
    /\ req' = [req EXCEPT ![r].pc = IF q.op \in Cascade /\ SweepsKey(q)
                                   THEN "keys" ELSE "swept"]
    /\ UNCHANGED <<rows, locks, tokens, missed, blacklist>>

-----------------------------------------------------------------------------
\* Mutant: decommission leaves the keys alone.
DecommissionKeys_None(r) ==
    /\ req[r].pc = "begun"
    /\ req[r].op \in Cascade
    /\ req' = [req EXCEPT ![r].pc = "keys", ![r].todo = {}]
    /\ UNCHANGED <<rows, locks, tokens, index, blacklist>>

(***************************************************************************)
(* decommission: the active keys, each deactivated and swept in turn, then *)
(* the agent.                                                              *)
(***************************************************************************)
DecommissionKeys(r) ==
    /\ req[r].pc = "begun"
    /\ req[r].op \in Cascade
    /\ req' = [req EXCEPT ![r].pc = "keys",
                          ![r].todo = ActiveKeys(req[r].agent)]
    /\ UNCHANGED <<rows, locks, tokens, index, blacklist>>

\* Mutant: revoke_key stops new exchanges only.
DeactivateKey_NoSweep(r, k) ==
    /\ \/ req[r].pc = "keys" /\ k \in req[r].todo
       \/ req[r].pc = "begun" /\ req[r].op = "revoke_key" /\ k = req[r].key
    /\ keyLock[k] = None
    /\ keyLock' = [keyLock EXCEPT ![k] = r]
    /\ req' = [req EXCEPT ![r].pc = IF req[r].op = "revoke_key" THEN "swept"
                                                              ELSE "range",
                          ![r].key = k, ![r].todo = @ \ {k}]
    /\ UNCHANGED <<rows, agentLock, tokens, index, blacklist>>

DeactivateKey(r, k) ==
    /\ \/ req[r].pc = "keys" /\ k \in req[r].todo
       \/ req[r].pc = "begun" /\ req[r].op = "revoke_key" /\ k = req[r].key
    /\ keyLock[k] = None
    /\ keyLock' = [keyLock EXCEPT ![k] = r]
    /\ req' = [req EXCEPT ![r].pc = "range", ![r].key = k, ![r].todo = @ \ {k}]
    /\ UNCHANGED <<rows, agentLock, tokens, index, blacklist>>

\* Mutant: suspend stops new credentials only.
UpdateStatus_NoSweep(r) ==
    LET q == req[r] IN
    /\ \/ q.pc = "begun" /\ q.op \in {"register", "activate", "jit_activate",
                                 "suspend"}
       \/ q.pc = "keys" /\ q.todo = {}
    /\ agentLock[q.agent] = None
    /\ agentLock' = [agentLock EXCEPT ![q.agent] = r]
    /\ req' = [req EXCEPT ![r].key = None,
                          ![r].pc = IF q.op \in Cascade
                                    THEN "range" ELSE "swept"]
    /\ UNCHANGED <<rows, keyLock, tokens, index, blacklist>>

(***************************************************************************)
(* UPDATE agents: whatever the status is by now, it will be overwritten.   *)
(* (register INSERTs the row, which nobody else knows of yet.)  suspend    *)
(* and decommission go on to sweep the agent's index.                      *)
(***************************************************************************)
UpdateStatus(r) ==
    LET q == req[r] IN
    /\ \/ q.pc = "begun" /\ q.op \in {"register", "activate", "jit_activate",
                                 "suspend"}
       \/ q.pc = "keys" /\ q.todo = {}
    /\ agentLock[q.agent] = None
    /\ agentLock' = [agentLock EXCEPT ![q.agent] = r]
    /\ req' = [req EXCEPT ![r].key = None,
                          ![r].pc = IF q.op \in {"register", "activate",
                                                 "jit_activate"}
                                    THEN "swept" ELSE "range"]
    /\ UNCHANGED <<rows, keyLock, tokens, index, blacklist>>

(***************************************************************************)
(* issue_key INSERTs a row for the agent; rotate_key INSERTs one for the   *)
(* old key's agent and UPDATEs the old row.                                *)
(***************************************************************************)
InsertKey(r, k) ==
    LET q == req[r] IN
    /\ q.pc = "begun"
    /\ q.op \in {"issue_key", "rotate_key"}
    /\ FreshKey(k)
    /\ IF q.op = "rotate_key"
       THEN /\ keyLock[q.key] = None
            /\ keyLock' = [keyLock EXCEPT ![q.key] = r]
       ELSE UNCHANGED keyLock
    /\ req' = [req EXCEPT ![r].pc = "swept", ![r].new = k]
    /\ UNCHANGED <<rows, agentLock, tokens, index, blacklist>>

NewStatus(op) ==
    CASE op = "register"                     -> "PENDING"
      [] op \in {"activate", "jit_activate"} -> "ACTIVE"
      [] op = "suspend"                      -> "SUSPENDED"
      [] op \in Cascade                      -> "DECOMMISSIONED"

Unlocked(lock, r) ==
    [x \in DOMAIN lock |-> IF lock[x] = r THEN None ELSE lock[x]]

Release(r) ==
    /\ agentLock' = Unlocked(agentLock, r)
    /\ keyLock' = Unlocked(keyLock, r)
    /\ req' = [req EXCEPT ![r] = Idle]

(***************************************************************************)
(* A decommission of a that has listed a's active keys, or is over.        *)
(***************************************************************************)
KeysListed(a) ==
    \/ status[a] = "DECOMMISSIONED"
    \/ \E s \in Session : /\ req[s] # Idle
                         /\ req[s].op \in Cascade
                         /\ req[s].agent = a
                         /\ req[s].pc # "begun"

(***************************************************************************)
(* COMMIT: the rows this transaction updated or inserted take effect.      *)
(***************************************************************************)
Apply(r) ==
    LET q == req[r] IN
    /\ status' = [a \in Agent |-> IF agentLock[a] = r THEN NewStatus(q.op)
                                                      ELSE status[a]]
    /\ due' = IF q.op = "jit_activate" THEN due \ {q.agent} ELSE due
    /\ active' = (active \ {k \in Key : keyLock[k] = r}) \cup ({q.new} \cap Key)
    /\ owner' = [k \in Key |-> IF k = q.new THEN q.agent ELSE owner[k]]
    /\ revoked' = IF q.op \in Revoking
                  THEN revoked \cup {k \in Key : keyLock[k] = r} ELSE revoked
    /\ lateKeys' = active' \cap (IF KeysListed(q.agent)
                                 THEN lateKeys \cup {q.new} ELSE lateKeys)
    /\ Release(r)
    /\ UNCHANGED <<tokens, agentIndex, keyIndex, blacklist>>

Commit(r) ==
    /\ req[r].pc = "swept"
    /\ Apply(r)
    /\ UNCHANGED missed

(***************************************************************************)
(* The reaper catches what one agent's decommission raises and commits the *)
(* cycle: a Redis error in the middle of a sweep leaves the rows changed   *)
(* so far, and the rest of the index as it is.                             *)
(***************************************************************************)
ReapDespiteError ==
    LET q    == req[Reaper]
        left == (IF q.pc = "range" THEN Members(q) ELSE q.members)
                    \ (blacklist \cup expired) IN
    /\ q.pc \in {"range", "sweep"}
    /\ Apply(Reaper)
    /\ IF SweepsKey(q)
       THEN keyMissed' = keyMissed \cup left /\ UNCHANGED agentMissed
       ELSE agentMissed' = agentMissed \cup left /\ UNCHANGED keyMissed

-----------------------------------------------------------------------------
(***************************************************************************)
(* POST /token/exchange, after verify_key found the key active: record the *)
(* use (an UPDATE of the row) and commit; mint; enter the jti in the       *)
(* agent's index and in the key's; answer.                                 *)
(***************************************************************************)
ExchangeUse(r) ==
    /\ req[r].pc = "begun"
    /\ req[r].op = "exchange"
    /\ keyLock[req[r].key] = None
    /\ req' = [req EXCEPT ![r].pc = "used"]
    /\ UNCHANGED <<rows, locks, tokens, index, blacklist>>

(***************************************************************************)
(* A sweep that has read the index cannot see what enters it now, and one  *)
(* that is over for good does not come back.                               *)
(***************************************************************************)
AgentIndexRead(a) ==
    \/ status[a] = "DECOMMISSIONED"
    \/ \E s \in Session : /\ agentLock[a] = s
                         /\ req[s].op \in Cascade \cup {"suspend"}
                         /\ req[s].pc # "range"

KeyIndexRead(k) ==
    \/ k \in revoked
    \/ \E s \in Session : /\ keyLock[k] = s
                         /\ req[s].op \in Revoking
                         /\ ~ (req[s].pc = "range" /\ req[s].key = k)

\* Mutant: the token's subject is the key instead of the agent.
ExchangeMint_SubjectIsKey(r, j) ==
    LET q == req[r] IN
    /\ q.pc = "used"
    /\ FreshJti(j)
    /\ token' = [token EXCEPT ![j] = [agent |-> q.key, key |-> q.key]]
    /\ agentIndex' = [agentIndex EXCEPT ![q.agent] = (@ \cup {j}) \ expired]
    /\ agentMissed' = IF AgentIndexRead(q.agent) THEN agentMissed \cup {j}
                                                ELSE agentMissed
    /\ req' = [req EXCEPT ![r].pc = "tracked", ![r].jti = j]
    /\ UNCHANGED <<rows, locks, delivered, expired, keyIndex, keyMissed,
                   blacklist>>

ExchangeMint(r, j) ==
    LET q == req[r] IN
    /\ q.pc = "used"
    /\ FreshJti(j)
    /\ token' = [token EXCEPT ![j] = [agent |-> q.agent, key |-> q.key]]
    /\ agentIndex' = [agentIndex EXCEPT ![q.agent] = (@ \cup {j}) \ expired]
    /\ agentMissed' = IF AgentIndexRead(q.agent) THEN agentMissed \cup {j}
                                                ELSE agentMissed
    /\ req' = [req EXCEPT ![r].pc = "tracked", ![r].jti = j]
    /\ UNCHANGED <<rows, locks, delivered, expired, keyIndex, keyMissed,
                   blacklist>>

\* Mutant: the key's index is forgotten.
ExchangeIndexKey_NotTracked(r) ==
    /\ req[r].pc = "tracked"
    /\ req' = [req EXCEPT ![r].pc = "indexed"]
    /\ UNCHANGED <<rows, locks, tokens, index, blacklist>>

ExchangeIndexKey(r) ==
    LET q == req[r] IN
    /\ q.pc = "tracked"
    /\ keyIndex' = [keyIndex EXCEPT ![q.key] = (@ \cup {q.jti}) \ expired]
    /\ keyMissed' = IF KeyIndexRead(q.key) THEN keyMissed \cup {q.jti}
                                          ELSE keyMissed
    /\ req' = [req EXCEPT ![r].pc = "indexed"]
    /\ UNCHANGED <<rows, locks, tokens, agentIndex, agentMissed, blacklist>>

ExchangeAnswer(r) ==
    /\ req[r].pc = "indexed"
    /\ delivered' = delivered \cup {req[r].jti}
    /\ req' = [req EXCEPT ![r] = Idle]
    /\ UNCHANGED <<rows, locks, token, expired, index, blacklist>>

-----------------------------------------------------------------------------
(***************************************************************************)
(* A request can fail at any await, PostgreSQL's deadlock detector         *)
(* included: its transaction is rolled back, Redis keeps what it has.      *)
(***************************************************************************)
Abort(r) ==
    /\ req[r] # Idle
    /\ Release(r)
    /\ UNCHANGED <<rows, tokens, index, blacklist>>

Expire(j) ==
    /\ token[j] # None
    /\ expired' = expired \cup {j}
    /\ Forget({j})
    /\ UNCHANGED <<rows, locks, token, delivered, agentIndex, keyIndex,
                   blacklist, req>>

DecommissionAtPasses(a) ==
    /\ a \in Registered
    /\ due' = due \cup {a}
    /\ UNCHANGED <<status, owner, active, revoked, lateKeys, locks, tokens,
                   index, blacklist, req>>

Init ==
    /\ status = [a \in Agent |-> None]
    /\ due = {}
    /\ owner = [k \in Key |-> None]
    /\ active = {}
    /\ agentLock = [a \in Agent |-> None]
    /\ keyLock = [k \in Key |-> None]
    /\ token = [j \in Jti |-> None]
    /\ delivered = {}
    /\ expired = {}
    /\ agentIndex = [a \in Agent |-> {}]
    /\ keyIndex = [k \in Key |-> {}]
    /\ blacklist = {}
    /\ revoked = {}
    /\ lateKeys = {}
    /\ agentMissed = {}
    /\ keyMissed = {}
    /\ req = [r \in Session |-> Idle]

Continue(r) ==
    \/ DecommissionKeys(r)
    \/ \E k \in Key : DeactivateKey(r, k) \/ InsertKey(r, k)
    \/ UpdateStatus(r)
    \/ SweepRange(r)
    \/ \E j \in Jti : SweepRevoke(r, j) \/ ExchangeMint(r, j)
    \/ SweepDelete(r)
    \/ Commit(r)
    \/ ExchangeUse(r)
    \/ ExchangeIndexKey(r)
    \/ ExchangeAnswer(r)

Next ==
    \/ \E r \in Request :
          \/ \E a \in Agent, p \in Registered \cup {None} : BeginRegister(r, a, p)
          \/ \E op \in Operation, a \in Agent : BeginAgent(r, op, a)
          \/ \E op \in Operation, k \in KeyRows : BeginKey(r, op, k)
    \/ \E a \in Agent : BeginAgent(Reaper, "reap", a)
    \/ \E r \in Session : Continue(r) \/ Abort(r)
    \/ ReapDespiteError
    \/ \E j \in Jti : Expire(j)
    \/ \E a \in Ephemeral : DecommissionAtPasses(a)

Spec == Init /\ [][Next]_vars
-----------------------------------------------------------------------------
(***************************************************************************)
(* Tokens the middleware lets through.                                     *)
(***************************************************************************)
Accepted == delivered \ (blacklist \cup expired)

(***************************************************************************)
(* "So a later cascade revoke can find every token it needs to blacklist": *)
(* an accepted token is in its agent's index and in its key's, whatever    *)
(* sweeps, failures and exchanges overlap, unless it entered the index     *)
(* after a sweep had read it and before that sweep deleted it.             *)
(***************************************************************************)
IndexComplete ==
    \A j \in Accepted :
        /\ j \in agentIndex[token[j].agent] \/ j \in agentMissed
        /\ j \in keyIndex[token[j].key] \/ j \in keyMissed

(***************************************************************************)
(* "Any access token already exchanged from this key stops working right   *)
(* now too": once the revocation of a key has committed, be it by          *)
(* revoke_key or by a decommission, and be the key rotated before or not,  *)
(* no token of it is accepted that its sweep could have found.  What       *)
(* escapes entered the key's index after the sweep had read it, or was     *)
(* left in it by an error that the reaper swallows.                        *)
(***************************************************************************)
RevokedKeyDead == \A j \in Accepted : token[j].key \in revoked => j \in keyMissed

(***************************************************************************)
(* decommission "revoke[s] all credentials": a decommissioned agent has no *)
(* active key but those committed after decommission listed the keys, and  *)
(* no accepted token but those that entered its index after the sweep had  *)
(* read it, or that an error the reaper swallows left there.               *)
(***************************************************************************)
DecommissionedDead ==
    \A a \in Agent :
        status[a] = "DECOMMISSIONED" =>
            /\ ActiveKeys(a) \subseteq lateKeys
            /\ \A j \in Accepted : token[j].agent = a => j \in agentMissed

(***************************************************************************)
(* When suspend commits, every token the agent held has stopped working,   *)
(* the ones from a key that was rotated away since included: all but what  *)
(* was indexed after the sweep had read the index.                         *)
(***************************************************************************)
SuspendCutsOff ==
    [][\A a \in Agent :
          (status[a] # "SUSPENDED" /\ status'[a] = "SUSPENDED") =>
              \A j \in Accepted' : token'[j].agent = a => j \in agentMissed]_vars

(***************************************************************************)
(* Requests that looked at a's status before and will overwrite it.        *)
(***************************************************************************)
Overwriters(a) ==
    {r \in Request : /\ req[r] # Idle
                     /\ req[r].op \in {"activate", "suspend"}
                     /\ req[r].agent = a}

(***************************************************************************)
(* "Permanently decommission an agent.  This is irreversible."  The status *)
(* is overwritten by a blind UPDATE, so it can be undone by a request that *)
(* looked before, and jit_activate does not look at all; but nothing else  *)
(* does: while an agent is decommissioned no request joins those that may  *)
(* undo it, and each time it is undone one of them is used up, or a        *)
(* jit_activate commits.                                                   *)
(***************************************************************************)
DecommissionIsFinal ==
    [][\A a \in Agent :
          status[a] = "DECOMMISSIONED" =>
             /\ Overwriters(a)' \subseteq Overwriters(a)
             /\ \/ status'[a] = "DECOMMISSIONED"
                \/ Overwriters(a)' # Overwriters(a)
                \/ \E r \in Request : /\ req[r] # Idle /\ req'[r] = Idle
                                      /\ req[r].op = "jit_activate"
                                      /\ req[r].agent = a]_vars

(***************************************************************************)
(* What escapes the revocation of a key: accepted tokens of a revoked key, *)
(* and exchanges in flight that found the key active before.               *)
(***************************************************************************)
Escaped ==
    {j \in Accepted : token[j].key \in revoked}
        \cup {r \in Request : /\ req[r] # Idle
                              /\ req[r].op = "exchange"
                              /\ req[r].key \in revoked}

(***************************************************************************)
(* What may have escaped when a revocation commits is all that ever will:  *)
(* the tokens RevokedKeyDead lets through and the exchanges under way.     *)
(* Any step that revokes no further key lets nothing more escape, an       *)
(* exchange turning into at most the one token it mints.                   *)
(***************************************************************************)
EscapeIsBounded ==
    [][revoked' = revoked => Cardinality(Escaped') <= Cardinality(Escaped)]_vars
=============================================================================
