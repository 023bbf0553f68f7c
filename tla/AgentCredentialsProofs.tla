----------------------- MODULE AgentCredentialsProofs -----------------------
(***************************************************************************)
(* Proofs about AgentCredentials, for any number of agents, keys, tokens   *)
(* and requests, however they interleave and fail.                         *)
(*                                                                         *)
(* Three invariants.  RequestInv: what a request at a given await holds.   *)
(* SweepInv: the reverse indexes are complete, and the tokens behind a     *)
(* sweep that is past are dead or were missed by it.  RowInv: what the     *)
(* rows say of each other and of the requests that will change them, the   *)
(* keys a cascade has listed included.                                     *)
(***************************************************************************)
EXTENDS AgentCredentials, FiniteSetTheorems, TLAPS

StatusOps == {"register", "activate", "jit_activate", "suspend",
              "decommission", "reap"}

(***************************************************************************)
(* A request at each of its awaits.                                        *)
(***************************************************************************)
Coherent(q) ==
    /\ q.op \in {"rotate_key", "revoke_key", "exchange"} => q.key \in Key
    /\ q.pc \in {"used", "tracked", "indexed"} => q.op = "exchange"
    /\ q.op = "exchange" => /\ q.pc \in {"begun", "used", "tracked", "indexed"}
                            /\ q.new = None
    /\ q.pc \in {"tracked", "indexed"} => q.jti \in Jti
    /\ q.pc = "keys" => q.op \in Cascade
    /\ q.pc \in {"range", "sweep"} => q.op \in {"suspend", "revoke_key"} \cup Cascade

Requests == \A r \in Session : req[r] # Idle => Coherent(req[r])

(***************************************************************************)
(* The token an exchange carries is the one it minted.                     *)
(***************************************************************************)
Carries(q) == q.pc \in {"tracked", "indexed"}
                 => token[q.jti] = [agent |-> q.agent, key |-> q.key]

(***************************************************************************)
(* Row locks belong to requests in flight; an agents row is locked by the  *)
(* request that is to write its status, an api_keys row by one that is to  *)
(* deactivate it.                                                          *)
(***************************************************************************)
AgentLocks ==
    \A a \in Agent : \A r \in Session :
        agentLock[a] = r => /\ req[r] # Idle
                            /\ req[r].op \in StatusOps
                            /\ req[r].agent = a
                            /\ req[r].key = None
                            /\ req[r].pc \in {"range", "sweep", "swept"}

KeyLocks ==
    \A k \in Key : \A r \in Session :
        keyLock[k] = r => /\ req[r] # Idle
                          /\ req[r].op \in {"rotate_key", "revoke_key"} \cup Cascade
                          /\ req[r].op \in {"rotate_key", "revoke_key"} => req[r].key = k

(***************************************************************************)
(* Only minted tokens reach a client; the reaper exchanges no key.         *)
(***************************************************************************)
Minted ==
    /\ \A j \in delivered : token[j] # None
    /\ \A r \in Session :
          req[r] # Idle => /\ Carries(req[r])
                           /\ req[r].op = "exchange" => r \in Request

RequestInv == TypeOK /\ Requests /\ AgentLocks /\ KeyLocks /\ Minted

-----------------------------------------------------------------------------
(***************************************************************************)
(* Who sweeps an index holds the row the sweep is about; only the worker   *)
(* reaps.                                                                  *)
(***************************************************************************)
Holds(r) ==
    LET q == req[r] IN
    /\ q.pc \in {"range", "sweep"} =>
          IF SweepsKey(q) THEN keyLock[q.key] = r ELSE agentLock[q.agent] = r
    /\ (q.pc = "swept" /\ q.op \in Cascade \cup {"suspend"}) => agentLock[q.agent] = r
    /\ q.op = "suspend" => q.key = None
    /\ q.op # "reap" => r \in Request

(***************************************************************************)
(* Tokens of which nothing more is to be said: dead, or missed.            *)
(***************************************************************************)
AgentDone == agentMissed \cup blacklist \cup expired

KeyDone == keyMissed \cup blacklist \cup expired

(***************************************************************************)
(* What a sweep has left to do is all that lives in the index it read.     *)
(***************************************************************************)
ReadAll(r) ==
    LET q == req[r] IN
    q.pc = "sweep" =>
        Members(q) \subseteq q.members \cup (IF SweepsKey(q) THEN KeyDone ELSE AgentDone)

(***************************************************************************)
(* Tokens that are in both indexes and that a client has or may yet get.   *)
(***************************************************************************)
Entered(j) ==
    \/ j \in delivered
    \/ \E r \in Session : req[r].pc = "indexed" /\ req[r].jti = j

(***************************************************************************)
(* The sweep of a key, or of an agent, is over and will not be undone by   *)
(* anything but a rollback.                                                *)
(***************************************************************************)
KeyPast(k) ==
    \/ k \in revoked
    \/ \E s \in Session : /\ keyLock[k] = s
                         /\ req[s].op \in Revoking
                         /\ ~ (req[s].pc \in {"range", "sweep"} /\ req[s].key = k)

AgentPast(a) ==
    \/ status[a] = "DECOMMISSIONED"
    \/ \E s \in Session : /\ agentLock[a] = s
                         /\ req[s].op \in Cascade \cup {"suspend"}
                         /\ req[s].pc = "swept"

KeySwept(k) == \A j \in Jti : (Entered(j) /\ token[j].key = k) => j \in KeyDone

AgentSwept(a) ==
    \A j \in Jti : (token[j] # None /\ token[j].agent = a) => j \in AgentDone

Indexed ==
    \A j \in Jti :
        /\ token[j] # None => j \in agentIndex[token[j].agent] \cup AgentDone
        /\ Entered(j) => j \in keyIndex[token[j].key] \cup KeyDone

SweepInv ==
    /\ \A r \in Session : req[r] # Idle => Holds(r) /\ ReadAll(r)
    /\ Indexed
    /\ \A k \in Key : KeyPast(k) => KeySwept(k)
    /\ \A a \in Agent : AgentPast(a) => AgentSwept(a)

-----------------------------------------------------------------------------
(***************************************************************************)
(* A cascade past its listing: the agent's active keys are those it has    *)
(* still to do, those it has done and those that came too late.            *)
(***************************************************************************)
Listed(r) ==
    LET q == req[r] IN
    (q.op \in Cascade /\ q.pc # "begun") =>
        /\ ActiveKeys(q.agent) \subseteq
              lateKeys \cup q.todo \cup {k \in Key : keyLock[k] = r}
        /\ (q.pc = "swept" \/ (q.pc \in {"range", "sweep"} /\ ~ SweepsKey(q)))
              => q.todo = {}

(***************************************************************************)
(* A register is alone with its agent, every other request has an agents   *)
(* row, and a key that is about to be inserted has no row yet.             *)
(***************************************************************************)
Rooted(r) ==
    LET q == req[r] IN
    /\ IF q.op = "register"
       THEN /\ status[q.agent] = None
            /\ q.new = None
            /\ \A s \in Session \ {r} : req[s] # Idle => req[s].agent # q.agent
       ELSE status[q.agent] # None
    /\ q.key # None => owner[q.key] # None
    /\ q.todo \subseteq KeyRows
    /\ q.new # None =>
          /\ owner[q.new] = None
          /\ \A s \in Session \ {r} : req[s] # Idle => req[s].new # q.new

RowInv ==
    /\ \A r \in Session : req[r] # Idle => Listed(r) /\ Rooted(r)
    /\ \A k \in Key : owner[k] # None => status[owner[k]] # None
    /\ \A k \in Key : keyLock[k] # None => owner[k] # None
    /\ active \cup revoked \subseteq KeyRows
    /\ active \cap revoked = {}
    /\ \A a \in Agent : status[a] = "DECOMMISSIONED" => ActiveKeys(a) \subseteq lateKeys

-----------------------------------------------------------------------------
(***************************************************************************)
(* A request moved on: its operation and its agent never change.           *)
(***************************************************************************)
Moved(q, pc, key, todo, members, new, jti) ==
    [pc |-> pc, op |-> q.op, agent |-> q.agent, key |-> key, todo |-> todo,
     members |-> members, new |-> new, jti |-> jti]

LEMMA MovedOne ==
    ASSUME NEW q \in InFlight, NEW p, NEW m
    PROVE  /\ [q EXCEPT !.pc = p] = Moved(q, p, q.key, q.todo, q.members, q.new, q.jti)
           /\ [q EXCEPT !.members = m] = Moved(q, q.pc, q.key, q.todo, m, q.new, q.jti)
BY DEF InFlight, Moved

LEMMA MovedMembers ==
    ASSUME NEW q \in InFlight, NEW p, NEW m
    PROVE  [q EXCEPT !.pc = p, !.members = m] = Moved(q, p, q.key, q.todo, m, q.new, q.jti)
<1>1. PICK e : e = [q EXCEPT !.pc = p]
  OBVIOUS
<1>2. e = Moved(q, p, q.key, q.todo, q.members, q.new, q.jti)
  BY <1>1, MovedOne
<1>3. [q EXCEPT !.pc = p, !.members = m] = [e EXCEPT !.members = m]
  BY <1>1 DEF InFlight
<1>4. [e EXCEPT !.members = m] = Moved(q, p, q.key, q.todo, m, q.new, q.jti)
  BY <1>2 DEF Moved
<1> QED
  BY <1>3, <1>4

LEMMA MovedTodo ==
    ASSUME NEW q \in InFlight, NEW p, NEW t
    PROVE  [q EXCEPT !.pc = p, !.todo = t] = Moved(q, p, q.key, t, q.members, q.new, q.jti)
<1>1. PICK e : e = [q EXCEPT !.pc = p]
  OBVIOUS
<1>2. e = Moved(q, p, q.key, q.todo, q.members, q.new, q.jti)
  BY <1>1, MovedOne
<1>3. [q EXCEPT !.pc = p, !.todo = t] = [e EXCEPT !.todo = t]
  BY <1>1 DEF InFlight
<1>4. [e EXCEPT !.todo = t] = Moved(q, p, q.key, t, q.members, q.new, q.jti)
  BY <1>2 DEF Moved
<1> QED
  BY <1>3, <1>4

LEMMA MovedNew ==
    ASSUME NEW q \in InFlight, NEW p, NEW n
    PROVE  [q EXCEPT !.pc = p, !.new = n] = Moved(q, p, q.key, q.todo, q.members, n, q.jti)
<1>1. PICK e : e = [q EXCEPT !.pc = p]
  OBVIOUS
<1>2. e = Moved(q, p, q.key, q.todo, q.members, q.new, q.jti)
  BY <1>1, MovedOne
<1>3. [q EXCEPT !.pc = p, !.new = n] = [e EXCEPT !.new = n]
  BY <1>1 DEF InFlight
<1>4. [e EXCEPT !.new = n] = Moved(q, p, q.key, q.todo, q.members, n, q.jti)
  BY <1>2 DEF Moved
<1> QED
  BY <1>3, <1>4

LEMMA MovedJti ==
    ASSUME NEW q \in InFlight, NEW p, NEW j
    PROVE  [q EXCEPT !.pc = p, !.jti = j] = Moved(q, p, q.key, q.todo, q.members, q.new, j)
<1>1. PICK e : e = [q EXCEPT !.pc = p]
  OBVIOUS
<1>2. e = Moved(q, p, q.key, q.todo, q.members, q.new, q.jti)
  BY <1>1, MovedOne
<1>3. [q EXCEPT !.pc = p, !.jti = j] = [e EXCEPT !.jti = j]
  BY <1>1 DEF InFlight
<1>4. [e EXCEPT !.jti = j] = Moved(q, p, q.key, q.todo, q.members, q.new, j)
  BY <1>2 DEF Moved
<1> QED
  BY <1>3, <1>4

LEMMA MovedKey ==
    ASSUME NEW q \in InFlight, NEW p, NEW k
    PROVE  [q EXCEPT !.key = k, !.pc = p] = Moved(q, p, k, q.todo, q.members, q.new, q.jti)
<1>1. PICK e : e = [q EXCEPT !.pc = p]
  OBVIOUS
<1>2. e = Moved(q, p, q.key, q.todo, q.members, q.new, q.jti)
  BY <1>1, MovedOne
<1>3. [q EXCEPT !.key = k, !.pc = p] = [e EXCEPT !.key = k]
  BY <1>1 DEF InFlight
<1>4. [e EXCEPT !.key = k] = Moved(q, p, k, q.todo, q.members, q.new, q.jti)
  BY <1>2 DEF Moved
<1> QED
  BY <1>3, <1>4

LEMMA MovedKeyTodo ==
    ASSUME NEW q \in InFlight, NEW p, NEW k, NEW t
    PROVE  [q EXCEPT !.pc = p, !.key = k, !.todo = t] = Moved(q, p, k, t, q.members, q.new, q.jti)
<1>1. PICK e : e = [q EXCEPT !.key = k, !.pc = p]
  OBVIOUS
<1>2. e = Moved(q, p, k, q.todo, q.members, q.new, q.jti)
  BY <1>1, MovedKey
<1>3. [q EXCEPT !.pc = p, !.key = k, !.todo = t] = [e EXCEPT !.todo = t]
  BY <1>1 DEF InFlight
<1>4. [e EXCEPT !.todo = t] = Moved(q, p, k, t, q.members, q.new, q.jti)
  BY <1>2 DEF Moved
<1> QED
  BY <1>3, <1>4

(***************************************************************************)
(* The idle state is none of a request in flight.                          *)
(***************************************************************************)
LEMMA IdleApart == Idle \notin InFlight /\ \A q : q.pc # "idle" => q # Idle
BY DEF Idle, InFlight

LEMMA TypedRequest ==
    ASSUME TypeOK, NEW r \in Session
    PROVE  /\ req[r] # Idle => req[r] \in InFlight
           /\ req[r].pc # "idle" => req[r] \in InFlight /\ req[r] # Idle
<1>1. req[r] \in RequestState
  BY DEF TypeOK
<1> QED
  BY <1>1 DEF RequestState, Idle, InFlight

(***************************************************************************)
(* A step of one request leaves what is known of the others, as long as it *)
(* takes none of their locks for them and changes no token.                *)
(***************************************************************************)
LEMMA OneRequestMoves ==
    ASSUME RequestInv, TypeOK', NEW r \in Session,
           \A s \in Session \ {r} : req'[s] = req[s],
           \A j \in Jti : token[j] # None => token'[j] = token[j],
           \A a \in Agent : \A s \in Session \ {r} : agentLock'[a] = s => agentLock[a] = s,
           \A k \in Key : \A s \in Session \ {r} : keyLock'[k] = s => keyLock[k] = s,
           req'[r] # Idle => /\ Coherent(req'[r])
                             /\ Carries(req[r])'
                             /\ req'[r].op = "exchange" => r \in Request,
           \A a \in Agent : agentLock'[a] = r =>
               /\ req'[r] # Idle
               /\ req'[r].op \in StatusOps
               /\ req'[r].agent = a
               /\ req'[r].key = None
               /\ req'[r].pc \in {"range", "sweep", "swept"},
           \A k \in Key : keyLock'[k] = r =>
               /\ req'[r] # Idle
               /\ req'[r].op \in {"rotate_key", "revoke_key"} \cup Cascade
               /\ req'[r].op \in {"rotate_key", "revoke_key"} => req'[r].key = k,
           \A j \in delivered' : token'[j] # None
    PROVE  RequestInv'
<1> USE DEF RequestInv
<1>1. Requests'
  BY DEF Requests
<1>2. AgentLocks'
  BY DEF AgentLocks
<1>3. KeyLocks'
  BY DEF KeyLocks
<1>4. Minted'
  <2> SUFFICES ASSUME NEW s \in Session, req'[s] # Idle
               PROVE  Carries(req[s])' /\ (req'[s].op = "exchange" => s \in Request)
    BY DEF Minted
  <2>1. CASE s = r
    BY <2>1
  <2>2. CASE s # r
    <3>1. req'[s] = req[s] /\ Carries(req[s]) /\ Coherent(req[s])
          /\ (req[s].op = "exchange" => s \in Request)
      BY <2>2 DEF Minted, Requests
    <3>2. req[s] \in InFlight
      BY <3>1, TypedRequest
    <3>3. ASSUME req[s].pc \in {"tracked", "indexed"}
          PROVE  token'[req[s].jti] = [agent |-> req[s].agent, key |-> req[s].key]
      <4>1. req[s].jti \in Jti /\ req[s].key \in Key /\ req[s].agent \in Agent
        BY <3>1, <3>2, <3>3 DEF Coherent, InFlight
      <4>2. token[req[s].jti] \in Subject
        BY <4>1, <3>1, <3>3 DEF Carries, Subject
      <4> QED
        BY <4>1, <4>2, <3>1, <3>3, ConstantsAssumption DEF Carries
    <3> QED
      BY <3>1, <3>3 DEF Carries
  <2> QED
    BY <2>1, <2>2
<1> QED
  BY <1>1, <1>2, <1>3, <1>4

(***************************************************************************)
(* A request goes on without writing a row or taking a lock.               *)
(***************************************************************************)
LEMMA Forward ==
    ASSUME RequestInv, NEW r \in Session, req[r] # Idle, NEW q \in InFlight,
           req' = [req EXCEPT ![r] = q],
           q.op = req[r].op, q.agent = req[r].agent,
           q.key = req[r].key,
           \/ q.pc \in {"range", "sweep", "swept"}
           \/ ~ (req[r].pc \in {"range", "sweep", "swept"} /\ req[r].key = None),
           Coherent(q),
           q.pc \in {"tracked", "indexed"} =>
              token'[q.jti] = [agent |-> q.agent, key |-> q.key],
           \A j \in Jti : token[j] # None => token'[j] = token[j],
           token' \in [Jti -> Subject \cup {None}],
           UNCHANGED <<rows, locks, delivered, expired>>,
           agentIndex' \in [Agent -> SUBSET Jti],
           keyIndex' \in [Key -> SUBSET Jti],
           agentMissed' \subseteq Jti, keyMissed' \subseteq Jti,
           blacklist' \subseteq Jti
    PROVE  RequestInv'
<1> USE DEF RequestInv
<1>1. /\ req' \in [Session -> RequestState]
      /\ req'[r] = q
      /\ \A s \in Session \ {r} : req'[s] = req[s]
  BY DEF TypeOK, RequestState
<1>2. TypeOK'
  BY <1>1 DEF TypeOK, rows, locks
<1>3. /\ \A a \in Agent : agentLock'[a] = agentLock[a]
      /\ \A k \in Key : keyLock'[k] = keyLock[k]
  BY DEF locks
<1>4. q # Idle
  BY IdleApart
<1>5. \A a \in Agent : agentLock'[a] = r =>
               /\ req'[r] # Idle
               /\ req'[r].op \in StatusOps
               /\ req'[r].agent = a
               /\ req'[r].key = None
               /\ req'[r].pc \in {"range", "sweep", "swept"}
  BY <1>1, <1>3, <1>4 DEF AgentLocks
<1>6. \A k \in Key : keyLock'[k] = r =>
               /\ req'[r] # Idle
               /\ req'[r].op \in {"rotate_key", "revoke_key"} \cup Cascade
               /\ req'[r].op \in {"rotate_key", "revoke_key"} => req'[r].key = k
  BY <1>1, <1>3, <1>4 DEF KeyLocks
<1>7. req'[r] # Idle => /\ Coherent(req'[r])
                        /\ Carries(req[r])'
                        /\ req'[r].op = "exchange" => r \in Request
  BY <1>1 DEF Carries, Minted
<1>8. \A j \in delivered' : token'[j] # None
  BY DEF Minted, TypeOK
<1> QED
  BY <1>1, <1>2, <1>3, <1>5, <1>6, <1>7, <1>8, OneRequestMoves

(***************************************************************************)
(* Several fields of one element, updated at once.                         *)
(***************************************************************************)
LEMMA NestedUpdates ==
    ASSUME NEW f, NEW r \in DOMAIN f, NEW x, NEW y, NEW z
    PROVE  /\ [f EXCEPT ![r].pc = x, ![r].members = y] =
                 [f EXCEPT ![r] = [f[r] EXCEPT !.pc = x, !.members = y]]
           /\ [f EXCEPT ![r].pc = x, ![r].todo = y] =
                 [f EXCEPT ![r] = [f[r] EXCEPT !.pc = x, !.todo = y]]
           /\ [f EXCEPT ![r].key = x, ![r].pc = y] =
                 [f EXCEPT ![r] = [f[r] EXCEPT !.key = x, !.pc = y]]
           /\ [f EXCEPT ![r].pc = x, ![r].new = y] =
                 [f EXCEPT ![r] = [f[r] EXCEPT !.pc = x, !.new = y]]
           /\ [f EXCEPT ![r].pc = x, ![r].jti = y] =
                 [f EXCEPT ![r] = [f[r] EXCEPT !.pc = x, !.jti = y]]
           /\ [f EXCEPT ![r].pc = x, ![r].key = y, ![r].todo = @ \ {z}] =
                 [f EXCEPT ![r] = [f[r] EXCEPT !.pc = x, !.key = y, !.todo = f[r].todo \ {z}]]
OBVIOUS

(***************************************************************************)
(* The record each step leaves.                                            *)
(***************************************************************************)
LEMMA MovedRequests ==
    ASSUME TypeOK, NEW r \in Session, req[r].pc # "idle"
    PROVE  LET q == req[r] IN
           /\ SweepRange(r) => req' = [req EXCEPT ![r] =
                 Moved(q, "sweep", q.key, q.todo, Members(q) \ expired, q.new, q.jti)]
           /\ \A j \in Jti : SweepRevoke(r, j) => req' = [req EXCEPT ![r] =
                 Moved(q, q.pc, q.key, q.todo, q.members \ {j}, q.new, q.jti)]
           /\ SweepDelete(r) => req' = [req EXCEPT ![r] =
                 Moved(q, IF q.op \in Cascade /\ SweepsKey(q) THEN "keys" ELSE "swept",
                       q.key, q.todo, q.members, q.new, q.jti)]
           /\ DecommissionKeys(r) => req' = [req EXCEPT ![r] =
                 Moved(q, "keys", q.key, ActiveKeys(q.agent), q.members, q.new, q.jti)]
           /\ \A k \in Key : DeactivateKey(r, k) => req' = [req EXCEPT ![r] =
                 Moved(q, "range", k, q.todo \ {k}, q.members, q.new, q.jti)]
           /\ UpdateStatus(r) => req' = [req EXCEPT ![r] =
                 Moved(q, IF q.op \in {"register", "activate", "jit_activate"}
                          THEN "swept" ELSE "range",
                       None, q.todo, q.members, q.new, q.jti)]
           /\ \A k \in Key : InsertKey(r, k) => req' = [req EXCEPT ![r] =
                 Moved(q, "swept", q.key, q.todo, q.members, k, q.jti)]
           /\ ExchangeUse(r) => req' = [req EXCEPT ![r] =
                 Moved(q, "used", q.key, q.todo, q.members, q.new, q.jti)]
           /\ \A j \in Jti : ExchangeMint(r, j) => req' = [req EXCEPT ![r] =
                 Moved(q, "tracked", q.key, q.todo, q.members, q.new, j)]
           /\ ExchangeIndexKey(r) => req' = [req EXCEPT ![r] =
                 Moved(q, "indexed", q.key, q.todo, q.members, q.new, q.jti)]
<1> DEFINE q == req[r]
<1>0. DOMAIN req = Session
  BY DEF TypeOK
<1>1. q \in InFlight
  BY TypedRequest
<1>2. ASSUME SweepRange(r)
      PROVE  req' = [req EXCEPT ![r] =
                Moved(q, "sweep", q.key, q.todo, Members(q) \ expired, q.new, q.jti)]
  <2>0. PICK p, m : p = ("sweep") /\ m = (Members(q) \ expired)
    OBVIOUS
  <2>1. req' = [req EXCEPT ![r].pc = p, ![r].members = m]
    BY <1>2, <2>0 DEF SweepRange
  <2>2. req' = [req EXCEPT ![r] = [q EXCEPT !.pc = p, !.members = m]]
    BY <2>1, <1>0, NestedUpdates
  <2>3. [q EXCEPT !.pc = p, !.members = m] =
           Moved(q, p, q.key, q.todo, m, q.new, q.jti)
    BY <1>1, MovedMembers
  <2> QED
    BY <2>0, <2>2, <2>3
<1>3. ASSUME NEW i \in Jti, SweepRevoke(r, i)
      PROVE  req' = [req EXCEPT ![r] =
                Moved(q, q.pc, q.key, q.todo, q.members \ {i}, q.new, q.jti)]
  <2>0. PICK m : m = (q.members \ {i})
    OBVIOUS
  <2>1. req' = [req EXCEPT ![r].members = m]
    BY <1>3, <2>0 DEF SweepRevoke
  <2>2. req' = [req EXCEPT ![r] = [q EXCEPT !.members = m]]
    BY <2>1
  <2>3. [q EXCEPT !.members = m] =
           Moved(q, q.pc, q.key, q.todo, m, q.new, q.jti)
    BY <1>1, MovedOne
  <2> QED
    BY <2>0, <2>2, <2>3
<1>4. ASSUME SweepDelete(r)
      PROVE  req' = [req EXCEPT ![r] =
                Moved(q, IF q.op \in Cascade /\ SweepsKey(q) THEN "keys" ELSE "swept", q.key, q.todo, q.members, q.new, q.jti)]
  <2>0. PICK p : p = (IF q.op \in Cascade /\ SweepsKey(q) THEN "keys" ELSE "swept")
    OBVIOUS
  <2>1. req' = [req EXCEPT ![r].pc = p]
    BY <1>4, <2>0 DEF SweepDelete, Cascade
  <2>2. req' = [req EXCEPT ![r] = [q EXCEPT !.pc = p]]
    BY <2>1
  <2>3. [q EXCEPT !.pc = p] =
           Moved(q, p, q.key, q.todo, q.members, q.new, q.jti)
    BY <1>1, MovedOne
  <2> QED
    BY <2>0, <2>2, <2>3
<1>5. ASSUME DecommissionKeys(r)
      PROVE  req' = [req EXCEPT ![r] =
                Moved(q, "keys", q.key, ActiveKeys(q.agent), q.members, q.new, q.jti)]
  <2>0. PICK p, t : p = ("keys") /\ t = (ActiveKeys(q.agent))
    OBVIOUS
  <2>1. req' = [req EXCEPT ![r].pc = p, ![r].todo = t]
    BY <1>5, <2>0 DEF DecommissionKeys
  <2>2. req' = [req EXCEPT ![r] = [q EXCEPT !.pc = p, !.todo = t]]
    BY <2>1, <1>0, NestedUpdates
  <2>3. [q EXCEPT !.pc = p, !.todo = t] =
           Moved(q, p, q.key, t, q.members, q.new, q.jti)
    BY <1>1, MovedTodo
  <2> QED
    BY <2>0, <2>2, <2>3
<1>6. ASSUME NEW i \in Key, DeactivateKey(r, i)
      PROVE  req' = [req EXCEPT ![r] =
                Moved(q, "range", i, q.todo \ {i}, q.members, q.new, q.jti)]
  <2>0. PICK p, k, t : p = ("range") /\ k = (i) /\ t = (q.todo \ {i})
    OBVIOUS
  <2>1. req' = [req EXCEPT ![r].pc = p, ![r].key = k, ![r].todo = @ \ {i}]
    BY <1>6, <2>0 DEF DeactivateKey
  <2>2. req' = [req EXCEPT ![r] = [q EXCEPT !.pc = p, !.key = k, !.todo = t]]
    BY <2>0, <2>1, <1>0, NestedUpdates
  <2>3. [q EXCEPT !.pc = p, !.key = k, !.todo = t] =
           Moved(q, p, k, t, q.members, q.new, q.jti)
    BY <1>1, MovedKeyTodo
  <2> QED
    BY <2>0, <2>2, <2>3
<1>7. ASSUME UpdateStatus(r)
      PROVE  req' = [req EXCEPT ![r] =
                Moved(q, IF q.op \in {"register", "activate", "jit_activate"}
                    THEN "swept" ELSE "range", None, q.todo, q.members, q.new, q.jti)]
  <2>0. PICK k, p : k = (None) /\ p = (IF q.op \in {"register", "activate", "jit_activate"}
                    THEN "swept" ELSE "range")
    OBVIOUS
  <2>1. req' = [req EXCEPT ![r].key = k, ![r].pc = p]
    BY <1>7, <2>0 DEF UpdateStatus
  <2>2. req' = [req EXCEPT ![r] = [q EXCEPT !.key = k, !.pc = p]]
    BY <2>1, <1>0, NestedUpdates
  <2>3. [q EXCEPT !.key = k, !.pc = p] =
           Moved(q, p, k, q.todo, q.members, q.new, q.jti)
    BY <1>1, MovedKey
  <2> QED
    BY <2>0, <2>2, <2>3
<1>8. ASSUME NEW i \in Key, InsertKey(r, i)
      PROVE  req' = [req EXCEPT ![r] =
                Moved(q, "swept", q.key, q.todo, q.members, i, q.jti)]
  <2>0. PICK p, n : p = ("swept") /\ n = (i)
    OBVIOUS
  <2>1. req' = [req EXCEPT ![r].pc = p, ![r].new = n]
    BY <1>8, <2>0 DEF InsertKey
  <2>2. req' = [req EXCEPT ![r] = [q EXCEPT !.pc = p, !.new = n]]
    BY <2>1, <1>0, NestedUpdates
  <2>3. [q EXCEPT !.pc = p, !.new = n] =
           Moved(q, p, q.key, q.todo, q.members, n, q.jti)
    BY <1>1, MovedNew
  <2> QED
    BY <2>0, <2>2, <2>3
<1>9. ASSUME ExchangeUse(r)
      PROVE  req' = [req EXCEPT ![r] =
                Moved(q, "used", q.key, q.todo, q.members, q.new, q.jti)]
  <2>0. PICK p : p = ("used")
    OBVIOUS
  <2>1. req' = [req EXCEPT ![r].pc = p]
    BY <1>9, <2>0 DEF ExchangeUse
  <2>2. req' = [req EXCEPT ![r] = [q EXCEPT !.pc = p]]
    BY <2>1
  <2>3. [q EXCEPT !.pc = p] =
           Moved(q, p, q.key, q.todo, q.members, q.new, q.jti)
    BY <1>1, MovedOne
  <2> QED
    BY <2>0, <2>2, <2>3
<1>10. ASSUME NEW i \in Jti, ExchangeMint(r, i)
      PROVE  req' = [req EXCEPT ![r] =
                Moved(q, "tracked", q.key, q.todo, q.members, q.new, i)]
  <2>0. PICK p, j : p = ("tracked") /\ j = (i)
    OBVIOUS
  <2>1. req' = [req EXCEPT ![r].pc = p, ![r].jti = j]
    BY <1>10, <2>0 DEF ExchangeMint
  <2>2. req' = [req EXCEPT ![r] = [q EXCEPT !.pc = p, !.jti = j]]
    BY <2>1, <1>0, NestedUpdates
  <2>3. [q EXCEPT !.pc = p, !.jti = j] =
           Moved(q, p, q.key, q.todo, q.members, q.new, j)
    BY <1>1, MovedJti
  <2> QED
    BY <2>0, <2>2, <2>3
<1>11. ASSUME ExchangeIndexKey(r)
      PROVE  req' = [req EXCEPT ![r] =
                Moved(q, "indexed", q.key, q.todo, q.members, q.new, q.jti)]
  <2>0. PICK p : p = ("indexed")
    OBVIOUS
  <2>1. req' = [req EXCEPT ![r].pc = p]
    BY <1>11, <2>0 DEF ExchangeIndexKey
  <2>2. req' = [req EXCEPT ![r] = [q EXCEPT !.pc = p]]
    BY <2>1
  <2>3. [q EXCEPT !.pc = p] =
           Moved(q, p, q.key, q.todo, q.members, q.new, q.jti)
    BY <1>1, MovedOne
  <2> QED
    BY <2>0, <2>2, <2>3
<1> HIDE DEF q
<1> QED
  BY <1>2, <1>3, <1>4, <1>5, <1>6, <1>7, <1>8, <1>9, <1>10, <1>11 DEF q

(***************************************************************************)
(* What a request in flight consists of.                                   *)
(***************************************************************************)
LEMMA InFlightFields ==
    ASSUME NEW q \in InFlight
    PROVE  /\ q.pc \in {"begun", "keys", "range", "sweep", "swept", "used",
                        "tracked", "indexed"}
           /\ q.op \in Operation \cup {"reap"}
           /\ q.agent \in Agent
           /\ q.key \in Key \cup {None}
           /\ q.todo \in SUBSET Key
           /\ q.members \in SUBSET Jti
           /\ q.new \in Key \cup {None}
           /\ q.jti \in Jti \cup {None}
BY DEF InFlight

-----------------------------------------------------------------------------
LEMMA InitRequestInv == Init => RequestInv
<1> SUFFICES ASSUME Init PROVE RequestInv
  OBVIOUS
<1>1. \A r \in Session : req[r] = Idle
  BY DEF Init
<1>2. TypeOK
  BY DEF Init, TypeOK, RequestState
<1>3. None \notin Session
  BY ConstantsAssumption DEF Session
<1>4. AgentLocks /\ KeyLocks
  BY <1>3 DEF Init, AgentLocks, KeyLocks
<1> QED
  BY <1>1, <1>2, <1>4 DEF RequestInv, Requests, Minted, Init

(***************************************************************************)
(* A request arrives.                                                      *)
(***************************************************************************)
LEMMA BeginStep ==
    ASSUME RequestInv, NEW r \in Session, req[r] = Idle,
           NEW op \in Operation \cup {"reap"}, NEW a \in Agent, NEW k \in Key \cup {None},
           op \in {"rotate_key", "revoke_key", "exchange"} => k \in Key,
           op = "exchange" => r \in Request,
           req' = [req EXCEPT ![r] = Started(op, a, k)],
           UNCHANGED <<rows, locks, tokens, index, blacklist>>
    PROVE  RequestInv'
<1> USE DEF RequestInv
<1> DEFINE q == Started(op, a, k)
<1>1. /\ q \in InFlight /\ q.pc = "begun" /\ q.op = op /\ q.key = k
      /\ q.new = None
  BY DEF Started, InFlight
<1>2. q # Idle
  BY <1>1, IdleApart
<1> HIDE DEF q
<1>3. /\ req' \in [Session -> RequestState]
      /\ req'[r] = q
      /\ \A s \in Session \ {r} : req'[s] = req[s]
  BY <1>1 DEF TypeOK, RequestState, q
<1>4. UNCHANGED <<status, due, owner, active, revoked, lateKeys, agentLock, keyLock, token,
                  delivered, expired, agentIndex, keyIndex,
                    agentMissed, keyMissed, blacklist>>
  BY DEF rows, locks, tokens, index, missed
<1>5. TypeOK'
  BY <1>3, <1>4 DEF TypeOK
<1>6. /\ \A x \in Agent : agentLock'[x] # r
      /\ \A x \in Key : keyLock'[x] # r
  BY <1>4 DEF AgentLocks, KeyLocks
<1>7. Coherent(q)
  BY <1>1 DEF Coherent
<1>8. Carries(req[r])'
  BY <1>1, <1>3 DEF Carries
<1>9. \A j \in delivered' : token'[j] # None
  BY <1>4 DEF Minted
<1>10. q.op = "exchange" => r \in Request
  BY <1>1
<1> QED
  BY <1>3, <1>4, <1>5, <1>6, <1>7, <1>8, <1>9, <1>10, OneRequestMoves

LEMMA BeginRequestInv ==
    ASSUME RequestInv, NEW r \in Session,
           \/ /\ r \in Request
              /\ \E a \in Agent, p \in Registered \cup {None} : BeginRegister(r, a, p)
           \/ r \in Request /\ \E op \in Operation, a \in Agent : BeginAgent(r, op, a)
           \/ r \in Request /\ \E op \in Operation, k \in KeyRows : BeginKey(r, op, k)
           \/ \E a \in Agent : BeginAgent(r, "reap", a)
    PROVE  RequestInv'
<1>1. ASSUME NEW a \in Agent, NEW p \in Registered \cup {None}, BeginRegister(r, a, p)
      PROVE  RequestInv'
  <2>1. PICK op \in Operation \cup {"reap"} : op = "register"
    BY <1>1 DEF BeginRegister
  <2>2. op \notin {"rotate_key", "revoke_key", "exchange"}
    BY <2>1
  <2>3. /\ req[r] = Idle
        /\ req' = [req EXCEPT ![r] = Started(op, a, None)]
        /\ UNCHANGED <<rows, locks, tokens, index, blacklist>>
    BY <1>1, <2>1 DEF BeginRegister, MayBegin
  <2> QED
    BY <2>2, <2>3, BeginStep
<1>2. ASSUME NEW op \in Operation \cup {"reap"}, NEW a \in Agent, BeginAgent(r, op, a)
      PROVE  RequestInv'
  <2>1. op \notin {"rotate_key", "revoke_key", "exchange"}
    BY <1>2 DEF BeginAgent, StatusPermits
  <2> QED
    BY <1>2, <2>1, BeginStep DEF BeginAgent, MayBegin
<1>3. ASSUME NEW op \in Operation, NEW k \in KeyRows, BeginKey(r, op, k), r \in Request
      PROVE  RequestInv'
  <2>1. owner[k] \in Agent /\ k \in Key
    BY DEF KeyRows, RequestInv, TypeOK
  <2> QED
    BY <1>3, <2>1, BeginStep DEF BeginKey, MayBegin
<1>4. "reap" \in Operation \cup {"reap"} /\ Operation \subseteq Operation \cup {"reap"}
  OBVIOUS
<1> QED
  BY <1>1, <1>2, <1>3, <1>4

(***************************************************************************)
(* The sweep of an index.                                                  *)
(***************************************************************************)
LEMMA SweepRequestInv ==
    ASSUME RequestInv, NEW r \in Session,
           SweepRange(r) \/ SweepDelete(r) \/ \E j \in Jti : SweepRevoke(r, j)
    PROVE  RequestInv'
<1> USE DEF RequestInv
<1>1. req[r].pc \in {"range", "sweep"}
  BY DEF SweepRange, SweepDelete, SweepRevoke
<1>2. req[r] # Idle /\ req[r] \in InFlight /\ Coherent(req[r])
  BY <1>1, TypedRequest DEF Requests
<1>3. /\ req[r].pc \in {"begun", "keys", "range", "sweep", "swept", "used",
                        "tracked", "indexed"}
      /\ req[r].op \in Operation \cup {"reap"}
      /\ req[r].agent \in Agent /\ req[r].key \in Key \cup {None}
      /\ req[r].todo \in SUBSET Key /\ req[r].members \in SUBSET Jti
      /\ req[r].new \in Key \cup {None} /\ req[r].jti \in Jti \cup {None}
      /\ req[r].op \in {"suspend", "revoke_key"} \cup Cascade
  BY <1>1, <1>2 DEF InFlight, Coherent
<1>4. /\ UNCHANGED <<rows, locks, delivered, expired>>
      /\ token' \in [Jti -> Subject \cup {None}]
      /\ \A j \in Jti : token'[j] = token[j]
  BY DEF SweepRange, SweepDelete, SweepRevoke, tokens, TypeOK
<1>5. CASE SweepRange(r)
  <2>1. Members(req[r]) \in SUBSET Jti
    BY <1>3 DEF Members, SweepsKey, TypeOK
  <2>2. PICK q : q = Moved(req[r], "sweep", req[r].key, req[r].todo,
                           Members(req[r]) \ expired, req[r].new, req[r].jti)
    OBVIOUS
  <2>3. /\ q \in InFlight /\ q.pc = "sweep" /\ q.op = req[r].op
        /\ q.agent = req[r].agent /\ q.key = req[r].key
    BY <2>1, <2>2, <1>3 DEF Moved, InFlight
  <2>4. req' = [req EXCEPT ![r] = q]
    BY <1>1, <1>5, <2>2, MovedRequests
  <2>5. Coherent(q)
    BY <2>3, <1>2, <1>3 DEF Coherent, Cascade
  <2>6. /\ agentIndex' \in [Agent -> SUBSET Jti]
        /\ keyIndex' \in [Key -> SUBSET Jti]
        /\ agentMissed' \subseteq Jti /\ keyMissed' \subseteq Jti
        /\ blacklist' \subseteq Jti
    BY <1>5 DEF SweepRange, index, missed, TypeOK
  <2>7. /\ q.pc \in {"range", "sweep", "swept"}
        /\ q.pc \notin {"tracked", "indexed"}
    BY <2>3
  <2> QED
    BY <2>3, <2>4, <2>5, <2>6, <2>7, <1>2, <1>4, Forward
<1>6. ASSUME NEW j \in Jti, SweepRevoke(r, j) PROVE RequestInv'
  <2>1. PICK q : q = Moved(req[r], req[r].pc, req[r].key, req[r].todo,
                           req[r].members \ {j}, req[r].new, req[r].jti)
    OBVIOUS
  <2>2. /\ q \in InFlight /\ q.pc = req[r].pc /\ q.op = req[r].op
        /\ q.agent = req[r].agent /\ q.key = req[r].key
    BY <2>1, <1>3 DEF Moved, InFlight
  <2>3. req' = [req EXCEPT ![r] = q]
    BY <1>1, <1>6, <2>1, MovedRequests
  <2>4. Coherent(q)
    BY <2>2, <1>1, <1>2, <1>3 DEF Coherent, Cascade
  <2>5. /\ agentIndex' \in [Agent -> SUBSET Jti]
        /\ keyIndex' \in [Key -> SUBSET Jti]
        /\ agentMissed' \subseteq Jti /\ keyMissed' \subseteq Jti
        /\ blacklist' \subseteq Jti
    BY <1>6 DEF SweepRevoke, Forget, TypeOK
  <2> QED
    BY <2>2, <2>3, <2>4, <2>5, <1>1, <1>2, <1>4, Forward
<1>7. CASE SweepDelete(r)
  <2>1. PICK p : p = IF req[r].op \in Cascade /\ SweepsKey(req[r]) THEN "keys" ELSE "swept"
    OBVIOUS
  <2>2. PICK q : q = Moved(req[r], p, req[r].key, req[r].todo,
                           req[r].members, req[r].new, req[r].jti)
    OBVIOUS
  <2>3. /\ q \in InFlight /\ q.pc = p /\ q.op = req[r].op
        /\ q.agent = req[r].agent /\ q.key = req[r].key
    BY <2>1, <2>2, <1>3 DEF Moved, InFlight
  <2>4. req' = [req EXCEPT ![r] = q]
    BY <1>1, <1>7, <2>1, <2>2, MovedRequests
  <2>5. Coherent(q)
    BY <2>1, <2>3, <1>2, <1>3 DEF Coherent, Cascade
  <2>6. /\ agentIndex' \in [Agent -> SUBSET Jti]
        /\ keyIndex' \in [Key -> SUBSET Jti]
        /\ agentMissed' \subseteq Jti /\ keyMissed' \subseteq Jti
        /\ blacklist' \subseteq Jti
    BY <1>3, <1>7 DEF SweepDelete, SweepsKey, missed, TypeOK
  <2>7. q.pc = "keys" => req[r].key # None
    BY <2>1, <2>3 DEF SweepsKey
  <2> QED
    BY <2>1, <2>3, <2>4, <2>5, <2>6, <2>7, <1>1, <1>2, <1>4, Forward
<1> QED
  BY <1>5, <1>6, <1>7

(***************************************************************************)
(* The exchange, and the list of keys a decommission starts with.          *)
(***************************************************************************)
LEMMA ReadRequestInv ==
    ASSUME RequestInv, NEW r \in Session,
           DecommissionKeys(r) \/ ExchangeUse(r) \/ ExchangeIndexKey(r)
    PROVE  RequestInv'
<1> USE DEF RequestInv
<1>1. req[r].pc \in {"begun", "tracked"}
  BY DEF DecommissionKeys, ExchangeUse, ExchangeIndexKey
<1>2. req[r] # Idle /\ req[r] \in InFlight /\ Coherent(req[r]) /\ Carries(req[r])
  BY <1>1, TypedRequest DEF Requests, Minted
<1>3. /\ req[r].op \in Operation \cup {"reap"}
      /\ req[r].agent \in Agent /\ req[r].key \in Key \cup {None}
      /\ req[r].todo \in SUBSET Key /\ req[r].members \in SUBSET Jti
      /\ req[r].new \in Key \cup {None} /\ req[r].jti \in Jti \cup {None}
  BY <1>2, InFlightFields
<1>4. /\ UNCHANGED <<rows, locks, delivered, expired>>
      /\ token' \in [Jti -> Subject \cup {None}]
      /\ \A j \in Jti : token'[j] = token[j]
      /\ blacklist' \subseteq Jti
  BY DEF DecommissionKeys, ExchangeUse, ExchangeIndexKey, tokens, TypeOK
<1>5. CASE DecommissionKeys(r)
  <2>1. ActiveKeys(req[r].agent) \in SUBSET Key
    BY DEF ActiveKeys, TypeOK
  <2>2. PICK q : q = Moved(req[r], "keys", req[r].key, ActiveKeys(req[r].agent),
                           req[r].members, req[r].new, req[r].jti)
    OBVIOUS
  <2>3. /\ q \in InFlight /\ q.pc = "keys" /\ q.op = req[r].op
        /\ q.agent = req[r].agent /\ q.key = req[r].key
    BY <2>1, <2>2, <1>3 DEF Moved, InFlight
  <2>4. req' = [req EXCEPT ![r] = q]
    BY <1>1, <1>5, <2>2, MovedRequests
  <2>5. Coherent(q)
    BY <2>3, <1>2, <1>5 DEF Coherent, Cascade, DecommissionKeys
  <2>6. /\ agentIndex' \in [Agent -> SUBSET Jti] /\ keyIndex' \in [Key -> SUBSET Jti]
        /\ agentMissed' \subseteq Jti /\ keyMissed' \subseteq Jti
    BY <1>5 DEF DecommissionKeys, index, missed, TypeOK
  <2> QED
    BY <2>3, <2>4, <2>5, <2>6, <1>1, <1>2, <1>4, Forward
<1>6. CASE ExchangeUse(r)
  <2>2. PICK q : q = Moved(req[r], "used", req[r].key, req[r].todo,
                           req[r].members, req[r].new, req[r].jti)
    OBVIOUS
  <2>3. /\ q \in InFlight /\ q.pc = "used" /\ q.op = req[r].op
        /\ q.agent = req[r].agent /\ q.key = req[r].key /\ q.new = req[r].new
    BY <2>2, <1>3 DEF Moved, InFlight
  <2>4. req' = [req EXCEPT ![r] = q]
    BY <1>1, <1>6, <2>2, MovedRequests
  <2>5. Coherent(q)
    BY <2>3, <1>2, <1>6 DEF Coherent, Cascade, ExchangeUse
  <2>6. /\ agentIndex' \in [Agent -> SUBSET Jti] /\ keyIndex' \in [Key -> SUBSET Jti]
        /\ agentMissed' \subseteq Jti /\ keyMissed' \subseteq Jti
    BY <1>6 DEF ExchangeUse, index, missed, TypeOK
  <2> QED
    BY <2>3, <2>4, <2>5, <2>6, <1>1, <1>2, <1>4, Forward
<1>7. CASE ExchangeIndexKey(r)
  <2>1. /\ req[r].op = "exchange" /\ req[r].key \in Key /\ req[r].jti \in Jti
        /\ req[r].pc = "tracked"
    BY <1>2, <1>7 DEF Coherent, ExchangeIndexKey
  <2>2. PICK q : q = Moved(req[r], "indexed", req[r].key, req[r].todo,
                           req[r].members, req[r].new, req[r].jti)
    OBVIOUS
  <2>3. /\ q \in InFlight /\ q.pc = "indexed" /\ q.op = req[r].op
        /\ q.agent = req[r].agent /\ q.key = req[r].key /\ q.new = req[r].new
        /\ q.jti = req[r].jti
    BY <2>2, <1>3 DEF Moved, InFlight
  <2>4. req' = [req EXCEPT ![r] = q]
    BY <1>1, <1>7, <2>2, MovedRequests
  <2>5. Coherent(q)
    BY <2>1, <2>3, <1>2 DEF Coherent, Cascade
  <2>6. /\ agentIndex' \in [Agent -> SUBSET Jti] /\ keyIndex' \in [Key -> SUBSET Jti]
        /\ agentMissed' \subseteq Jti /\ keyMissed' \subseteq Jti
    BY <2>1, <1>7 DEF ExchangeIndexKey, TypeOK
  <2>7. token'[q.jti] = [agent |-> q.agent, key |-> q.key]
    BY <2>1, <2>3, <1>2, <1>4 DEF Carries
  <2> QED
    BY <2>1, <2>3, <2>4, <2>5, <2>6, <2>7, <1>2, <1>4, Forward
<1> QED
  BY <1>5, <1>6, <1>7

LEMMA MintRequestInv ==
    ASSUME RequestInv, NEW r \in Session, NEW j \in Jti, ExchangeMint(r, j)
    PROVE  RequestInv'
<1> USE DEF RequestInv
<1>1. req[r].pc = "used"
  BY DEF ExchangeMint
<1>2. req[r] # Idle /\ req[r] \in InFlight /\ Coherent(req[r])
  BY <1>1, TypedRequest DEF Requests
<1>3. /\ req[r].op \in Operation \cup {"reap"}
      /\ req[r].agent \in Agent /\ req[r].key \in Key
      /\ req[r].todo \in SUBSET Key /\ req[r].members \in SUBSET Jti
      /\ req[r].new \in Key \cup {None}
      /\ req[r].op = "exchange"
  BY <1>1, <1>2, InFlightFields DEF Coherent
<1>4. PICK x \in Subject : x = [agent |-> req[r].agent, key |-> req[r].key]
  BY <1>3 DEF Subject
<1>5. /\ UNCHANGED <<rows, locks, delivered, expired>>
      /\ token' = [token EXCEPT ![j] = x]
      /\ token[j] = None
      /\ blacklist' \subseteq Jti
      /\ agentIndex' \in [Agent -> SUBSET Jti]
      /\ keyIndex' \in [Key -> SUBSET Jti]
      /\ agentMissed' \subseteq Jti /\ keyMissed' \subseteq Jti
  BY <1>3, <1>4 DEF ExchangeMint, FreshJti, TypeOK
<1>6. /\ token' \in [Jti -> Subject \cup {None}]
      /\ token'[j] = x
      /\ \A i \in Jti : token[i] # None => token'[i] = token[i]
  BY <1>5 DEF TypeOK
<1>7. PICK q : q = Moved(req[r], "tracked", req[r].key, req[r].todo,
                         req[r].members, req[r].new, j)
  OBVIOUS
<1>8. /\ q \in InFlight /\ q.pc = "tracked" /\ q.op = req[r].op
      /\ q.agent = req[r].agent /\ q.key = req[r].key /\ q.new = req[r].new
      /\ q.jti = j
  BY <1>3, <1>7 DEF Moved, InFlight
<1>9. req' = [req EXCEPT ![r] = q]
  BY <1>1, <1>7, MovedRequests
<1>10. Coherent(q)
  BY <1>2, <1>3, <1>8 DEF Coherent, Cascade
<1> QED
  BY <1>1, <1>2, <1>4, <1>5, <1>6, <1>8, <1>9, <1>10, Forward

(***************************************************************************)
(* UPDATEs and INSERTs that wait for a row lock.                           *)
(***************************************************************************)
LEMMA LockRequestInv ==
    ASSUME RequestInv, NEW r \in Session,
           UpdateStatus(r) \/ \E k \in Key : DeactivateKey(r, k) \/ InsertKey(r, k)
    PROVE  RequestInv'
<1> USE DEF RequestInv
<1>1. req[r].pc \in {"begun", "keys"}
  BY DEF UpdateStatus, DeactivateKey, InsertKey
<1>2. req[r] # Idle /\ req[r] \in InFlight /\ Coherent(req[r])
  BY <1>1, TypedRequest DEF Requests
<1>3. /\ req[r].op \in Operation \cup {"reap"}
      /\ req[r].agent \in Agent /\ req[r].key \in Key \cup {None}
      /\ req[r].todo \in SUBSET Key /\ req[r].members \in SUBSET Jti
      /\ req[r].new \in Key \cup {None} /\ req[r].jti \in Jti \cup {None}
  BY <1>2, InFlightFields
<1>4. UNCHANGED <<status, due, owner, active, revoked, lateKeys, token, delivered, expired,
                  agentIndex, keyIndex, agentMissed, keyMissed, blacklist>>
  BY DEF UpdateStatus, DeactivateKey, InsertKey, rows, tokens, index, missed
<1>5. \A a \in Agent : agentLock[a] # r
  BY <1>1 DEF AgentLocks
<1>6. \A j \in delivered' : token'[j] # None
  BY <1>4 DEF Minted
<1>7. None # r
  BY ConstantsAssumption DEF Session
<1>8. CASE UpdateStatus(r)
  <2>1. PICK p : p = IF req[r].op \in {"register", "activate", "jit_activate"}
                     THEN "swept" ELSE "range"
    OBVIOUS
  <2>2. PICK q : q = Moved(req[r], p, None, req[r].todo, req[r].members,
                           req[r].new, req[r].jti)
    OBVIOUS
  <2>3. /\ q \in InFlight /\ q.pc = p /\ q.op = req[r].op
        /\ q.agent = req[r].agent /\ q.key = None
    BY <2>1, <2>2, <1>3 DEF Moved, InFlight
  <2>4. req' = [req EXCEPT ![r] = q]
    BY <1>1, <1>8, <2>1, <2>2, MovedRequests
  <2>5. /\ req[r].op \in StatusOps
        /\ req[r].pc = "keys" => req[r].op \in Cascade
    BY <1>2, <1>8 DEF UpdateStatus, Coherent, StatusOps, Cascade
  <2>6. Coherent(q)
    BY <2>1, <2>3, <2>5, <1>8 DEF Coherent, Cascade, StatusOps
  <2>7. /\ agentLock' = [agentLock EXCEPT ![req[r].agent] = r]
        /\ keyLock' = keyLock
    BY <1>8 DEF UpdateStatus
  <2>8. /\ req' \in [Session -> RequestState]
        /\ req'[r] = q
        /\ \A s \in Session \ {r} : req'[s] = req[s]
    BY <2>3, <2>4 DEF TypeOK, RequestState
  <2>9. TypeOK'
    BY <2>7, <2>8, <1>3, <1>4 DEF TypeOK
  <2>10. /\ \A a \in Agent : \A s \in Session \ {r} : agentLock'[a] = s => agentLock[a] = s
         /\ \A a \in Agent : agentLock'[a] = r => a = req[r].agent
    BY <2>7, <1>5 DEF TypeOK
  <2>11. q # Idle
    BY <2>3, IdleApart
  <2>12. Carries(req[r])'
    BY <2>1, <2>3, <2>8 DEF Carries
  <2>13. q.op # "exchange"
    BY <2>3, <2>5 DEF StatusOps
  <2>14. \A k \in Key : keyLock'[k] = r =>
               /\ q.op \in {"rotate_key", "revoke_key"} \cup Cascade
               /\ q.op \in {"rotate_key", "revoke_key"} => q.key = k
    BY <2>3, <2>5, <2>7 DEF KeyLocks, StatusOps
  <2>15. \A a \in Agent : agentLock'[a] = r =>
               /\ q.op \in StatusOps
               /\ q.agent = a
               /\ q.key = None
               /\ q.pc \in {"range", "sweep", "swept"}
    BY <2>1, <2>3, <2>5, <2>10
  <2>16. \A k \in Key : \A s \in Session \ {r} : keyLock'[k] = s => keyLock[k] = s
    BY <2>7
  <2> QED
    BY <2>6, <2>8, <2>9, <2>10, <2>11, <2>12, <2>13, <2>14, <2>15, <2>16,
       <1>4, <1>6, OneRequestMoves
<1>9. ASSUME NEW k \in Key, DeactivateKey(r, k) PROVE RequestInv'
  <2>1. PICK q : q = Moved(req[r], "range", k, req[r].todo \ {k}, req[r].members,
                           req[r].new, req[r].jti)
    OBVIOUS
  <2>2. /\ q \in InFlight /\ q.pc = "range" /\ q.op = req[r].op
        /\ q.agent = req[r].agent /\ q.key = k
    BY <2>1, <1>3 DEF Moved, InFlight
  <2>3. req' = [req EXCEPT ![r] = q]
    BY <1>1, <1>9, <2>1, MovedRequests
  <2>4. /\ req[r].op \in {"revoke_key"} \cup Cascade
        /\ req[r].op = "revoke_key" => k = req[r].key
    BY <1>2, <1>9 DEF DeactivateKey, Coherent, Cascade
  <2>5. Coherent(q)
    BY <2>2, <2>4 DEF Coherent, Cascade
  <2>6. /\ keyLock' = [keyLock EXCEPT ![k] = r]
        /\ agentLock' = agentLock
    BY <1>9 DEF DeactivateKey
  <2>7. /\ req' \in [Session -> RequestState]
        /\ req'[r] = q
        /\ \A s \in Session \ {r} : req'[s] = req[s]
    BY <2>2, <2>3 DEF TypeOK, RequestState
  <2>8. TypeOK'
    BY <2>6, <2>7, <1>3, <1>4 DEF TypeOK
  <2>9. /\ \A x \in Key : \A s \in Session \ {r} : keyLock'[x] = s => keyLock[x] = s
        /\ \A x \in Key : keyLock'[x] = r => x = k \/ keyLock[x] = r
    BY <2>6 DEF TypeOK
  <2>10. q # Idle
    BY <2>2, IdleApart
  <2>11. Carries(req[r])'
    BY <2>2, <2>7 DEF Carries
  <2>12. q.op # "exchange"
    BY <2>2, <2>4 DEF Cascade
  <2>13. \A x \in Key : keyLock'[x] = r =>
               /\ q.op \in {"rotate_key", "revoke_key"} \cup Cascade
               /\ q.op \in {"rotate_key", "revoke_key"} => q.key = x
    BY <2>2, <2>4, <2>9 DEF KeyLocks, Cascade
  <2>14. \A a \in Agent : agentLock'[a] # r
    BY <2>6, <1>5
  <2>15. \A a \in Agent : \A s \in Session \ {r} : agentLock'[a] = s => agentLock[a] = s
    BY <2>6
  <2> QED
    BY <2>5, <2>7, <2>8, <2>9, <2>10, <2>11, <2>12, <2>13, <2>14, <2>15,
       <1>4, <1>6, OneRequestMoves
<1>10. ASSUME NEW k \in Key, InsertKey(r, k) PROVE RequestInv'
  <2>1. PICK q : q = Moved(req[r], "swept", req[r].key, req[r].todo, req[r].members,
                           k, req[r].jti)
    OBVIOUS
  <2>2. /\ q \in InFlight /\ q.pc = "swept" /\ q.op = req[r].op
        /\ q.agent = req[r].agent /\ q.key = req[r].key
    BY <2>1, <1>3 DEF Moved, InFlight
  <2>3. req' = [req EXCEPT ![r] = q]
    BY <1>1, <1>10, <2>1, MovedRequests
  <2>4. req[r].op \in {"issue_key", "rotate_key"}
    BY <1>10 DEF InsertKey
  <2>5. Coherent(q)
    BY <2>2, <2>4, <1>2 DEF Coherent, Cascade
  <2>6. /\ IF req[r].op = "rotate_key" THEN keyLock' = [keyLock EXCEPT ![req[r].key] = r]
                                       ELSE keyLock' = keyLock
        /\ agentLock' = agentLock
    BY <1>10 DEF InsertKey
  <2>7. req[r].op = "rotate_key" => req[r].key \in Key
    BY <1>2 DEF Coherent
  <2>8. /\ req' \in [Session -> RequestState]
        /\ req'[r] = q
        /\ \A s \in Session \ {r} : req'[s] = req[s]
    BY <2>2, <2>3 DEF TypeOK, RequestState
  <2>9. TypeOK'
    BY <2>6, <2>7, <2>8, <1>3, <1>4 DEF TypeOK
  <2>10. /\ \A x \in Key : \A s \in Session \ {r} : keyLock'[x] = s => keyLock[x] = s
         /\ \A x \in Key : keyLock'[x] = r =>
               (req[r].op = "rotate_key" /\ x = req[r].key) \/ keyLock[x] = r
    BY <2>6, <2>7 DEF TypeOK
  <2>11. q # Idle
    BY <2>2, IdleApart
  <2>12. Carries(req[r])'
    BY <2>2, <2>8 DEF Carries
  <2>13. q.op # "exchange"
    BY <2>2, <2>4
  <2>14. \A x \in Key : keyLock'[x] = r =>
               /\ q.op \in {"rotate_key", "revoke_key"} \cup Cascade
               /\ q.op \in {"rotate_key", "revoke_key"} => q.key = x
    BY <2>2, <2>4, <2>10 DEF KeyLocks, Cascade
  <2>15. \A a \in Agent : agentLock'[a] # r
    BY <2>6, <1>5
  <2>16. \A a \in Agent : \A s \in Session \ {r} : agentLock'[a] = s => agentLock[a] = s
    BY <2>6
  <2> QED
    BY <2>5, <2>8, <2>9, <2>10, <2>11, <2>12, <2>13, <2>14, <2>15, <2>16,
       <1>4, <1>6, OneRequestMoves
<1> QED
  BY <1>8, <1>9, <1>10

(***************************************************************************)
(* A request ends: its locks are gone, the other locks stay.               *)
(***************************************************************************)
LEMMA ReleaseLocks ==
    ASSUME TypeOK, NEW r \in Session, Release(r)
    PROVE  /\ agentLock' \in [Agent -> Session \cup {None}]
           /\ keyLock' \in [Key -> Session \cup {None}]
           /\ \A a \in Agent : /\ agentLock'[a] # r
                               /\ \A s \in Session \ {r} : agentLock'[a] = s <=> agentLock[a] = s
           /\ \A k \in Key : /\ keyLock'[k] # r
                             /\ \A s \in Session \ {r} : keyLock'[k] = s <=> keyLock[k] = s
           /\ req' \in [Session -> RequestState]
           /\ req'[r] = Idle
           /\ \A s \in Session \ {r} : req'[s] = req[s]
<1>1. None \notin Session
  BY ConstantsAssumption DEF Session
<1>2. /\ agentLock' = [a \in Agent |-> IF agentLock[a] = r THEN None ELSE agentLock[a]]
      /\ keyLock' = [k \in Key |-> IF keyLock[k] = r THEN None ELSE keyLock[k]]
      /\ req' = [req EXCEPT ![r] = Idle]
  BY DEF Release, Unlocked, TypeOK
<1> QED
  BY <1>1, <1>2 DEF TypeOK, RequestState

LEMMA EndStep ==
    ASSUME RequestInv, NEW r \in Session, Release(r), UNCHANGED <<token, expired,
           agentIndex, keyIndex, blacklist>>,
           agentMissed' \subseteq Jti, keyMissed' \subseteq Jti,
           status' \in [Agent -> Status \cup {None}], due' \subseteq Ephemeral,
           owner' \in [Key -> Agent \cup {None}], active' \subseteq Key,
           revoked' \subseteq Key, lateKeys' \subseteq Key, delivered' \subseteq Jti,
           \A j \in delivered' : token'[j] # None
    PROVE  RequestInv'
<1> USE DEF RequestInv
<1>1. /\ agentLock' \in [Agent -> Session \cup {None}]
      /\ keyLock' \in [Key -> Session \cup {None}]
      /\ \A a \in Agent : /\ agentLock'[a] # r
                          /\ \A s \in Session \ {r} : agentLock'[a] = s <=> agentLock[a] = s
      /\ \A k \in Key : /\ keyLock'[k] # r
                        /\ \A s \in Session \ {r} : keyLock'[k] = s <=> keyLock[k] = s
      /\ req' \in [Session -> RequestState]
      /\ req'[r] = Idle
      /\ \A s \in Session \ {r} : req'[s] = req[s]
  BY ReleaseLocks
<1>2. TypeOK'
  BY <1>1 DEF TypeOK
<1>3. \A j \in Jti : token'[j] = token[j]
  OBVIOUS
<1> QED
  BY <1>1, <1>2, <1>3, OneRequestMoves

LEMMA EndRequestInv ==
    ASSUME RequestInv, NEW r \in Session,
           \/ Commit(r) \/ (r = Reaper /\ ReapDespiteError)
           \/ Abort(r) \/ ExchangeAnswer(r)
    PROVE  RequestInv'
<1> USE DEF RequestInv
<1>1. req[r] # Idle
  BY TypedRequest DEF Commit, ReapDespiteError, Abort, ExchangeAnswer
<1>2. req[r] \in InFlight /\ Coherent(req[r])
  BY <1>1, TypedRequest DEF Requests
<1>3. CASE Abort(r)
  <2>1. UNCHANGED <<status, due, owner, active, revoked, lateKeys, token, delivered, expired,
                    agentIndex, keyIndex, agentMissed, keyMissed, blacklist>>
    BY <1>3 DEF Abort, rows, tokens, index, missed
  <2>2. Release(r)
    BY <1>3 DEF Abort
  <2> QED
    BY <2>1, <2>2, EndStep DEF TypeOK, Minted
<1>4. CASE ExchangeAnswer(r)
  <2>1. req[r].op = "exchange" /\ req[r].jti \in Jti /\ Carries(req[r])
        /\ req[r].pc = "indexed" /\ req[r].key \in Key /\ req[r].agent \in Agent
    BY <1>1, <1>2, <1>4, InFlightFields DEF ExchangeAnswer, Coherent, Minted
  <2>2. token[req[r].jti] \in Subject
    BY <2>1 DEF Carries, Subject
  <2>3. token[req[r].jti] # None
    BY <2>2, ConstantsAssumption
  <2>4. /\ \A a \in Agent : agentLock[a] # r
        /\ \A k \in Key : keyLock[k] # r
    BY <2>1 DEF AgentLocks, KeyLocks, StatusOps, Cascade
  <2>5. Release(r)
    <3>1. Unlocked(agentLock, r) = agentLock /\ Unlocked(keyLock, r) = keyLock
      BY <2>4 DEF Unlocked, TypeOK
    <3>2. req' = [req EXCEPT ![r] = Idle] /\ UNCHANGED <<agentLock, keyLock>>
      BY <1>4 DEF ExchangeAnswer, locks
    <3> QED
      BY <3>1, <3>2 DEF Release
  <2>6. /\ UNCHANGED <<status, due, owner, active, revoked, lateKeys, token, expired,
                       agentIndex, keyIndex, agentMissed, keyMissed, blacklist>>
        /\ delivered' = delivered \cup {req[r].jti}
    BY <1>4 DEF ExchangeAnswer, rows, index, missed
  <2>7. delivered' \subseteq Jti /\ \A j \in delivered' : token'[j] # None
    BY <2>1, <2>3, <2>6 DEF Minted, TypeOK
  <2> QED
    BY <2>5, <2>6, <2>7, EndStep DEF TypeOK
<1>5. CASE Commit(r) \/ (r = Reaper /\ ReapDespiteError)
  <2>0. Apply(r) /\ req[r].pc \in {"range", "sweep", "swept"}
    BY <1>5 DEF Commit, ReapDespiteError
  <2>1. Release(r) /\ UNCHANGED <<token, delivered, expired, agentIndex, keyIndex,
                    blacklist>>
    BY <2>0 DEF Apply, tokens
  <2>2. status' \in [Agent -> Status \cup {None}]
    <3>1. \A a \in Agent : agentLock[a] = r => NewStatus(req[r].op) \in Status
      BY DEF AgentLocks, StatusOps, NewStatus, Status, Cascade
    <3> QED
      BY <3>1, <2>0 DEF Apply, TypeOK
  <2>3. req[r].agent \in Agent
    BY <1>2, InFlightFields
  <2>4. /\ due' \subseteq Ephemeral
        /\ owner' \in [Key -> Agent \cup {None}]
        /\ active' \subseteq Key
    BY <2>3, <2>0 DEF Apply, TypeOK
  <2>5. revoked' \subseteq Key /\ lateKeys' \subseteq Key
    BY <2>0, <2>4 DEF Apply, TypeOK
  <2>6. agentMissed' \subseteq Jti /\ keyMissed' \subseteq Jti
    <3>1. Members(req[r]) \subseteq Jti /\ req[r].members \subseteq Jti
      BY <1>2, InFlightFields DEF Members, SweepsKey, TypeOK
    <3> QED
      BY <1>5, <3>1 DEF Commit, missed, ReapDespiteError, TypeOK
  <2> QED
    BY <2>1, <2>2, <2>4, <2>5, <2>6, EndStep DEF TypeOK, Minted
<1> QED
  BY <1>3, <1>4, <1>5

LEMMA ClockRequestInv ==
    ASSUME RequestInv,
           (\E j \in Jti : Expire(j)) \/ \E a \in Ephemeral : DecommissionAtPasses(a)
    PROVE  RequestInv'
<1> USE DEF RequestInv
<1>1. /\ UNCHANGED <<status, owner, active, revoked, lateKeys, agentLock, keyLock, token,
                     delivered, agentIndex, keyIndex, blacklist, req>>
      /\ agentMissed' \subseteq Jti /\ keyMissed' \subseteq Jti
      /\ due' \subseteq Ephemeral /\ expired' \subseteq Jti
  BY DEF Expire, DecommissionAtPasses, rows, locks, tokens, index, missed,
         Forget, TypeOK
<1>2. TypeOK'
  BY <1>1 DEF TypeOK
<1>3. Requests' /\ AgentLocks' /\ KeyLocks' /\ Minted'
  BY <1>1 DEF Requests, AgentLocks, KeyLocks, Minted, Carries
<1> QED
  BY <1>2, <1>3

(***************************************************************************)
(* However requests, the reaper and the clocks interleave.                 *)
(***************************************************************************)
LEMMA RequestInvStep == RequestInv /\ [Next]_vars => RequestInv'
<1> SUFFICES ASSUME RequestInv, [Next]_vars PROVE RequestInv'
  OBVIOUS
<1>1. ASSUME NEW r \in Request,
             \/ \E a \in Agent, p \in Registered \cup {None} : BeginRegister(r, a, p)
             \/ \E op \in Operation, a \in Agent : BeginAgent(r, op, a)
             \/ \E op \in Operation, k \in KeyRows : BeginKey(r, op, k)
      PROVE  RequestInv'
  <2>1. r \in Session
    BY DEF Session
  <2> QED
    BY <1>1, <2>1, BeginRequestInv
<1>2. CASE \E a \in Agent : BeginAgent(Reaper, "reap", a)
  <2>1. Reaper \in Session
    BY DEF Session
  <2> QED
    BY <1>2, <2>1, BeginRequestInv
<1>3. ASSUME NEW r \in Session, Continue(r) PROVE RequestInv'
  BY <1>3, SweepRequestInv, ReadRequestInv, MintRequestInv, LockRequestInv, EndRequestInv
  DEF Continue
<1>4. ASSUME NEW r \in Session, Abort(r) PROVE RequestInv'
  BY <1>4, EndRequestInv
<1>5. CASE ReapDespiteError
  <2>1. Reaper \in Session
    BY DEF Session
  <2> QED
    BY <1>5, <2>1, EndRequestInv
<1>6. CASE (\E j \in Jti : Expire(j)) \/ \E a \in Ephemeral : DecommissionAtPasses(a)
  BY <1>6, ClockRequestInv
<1>7. CASE UNCHANGED vars
  BY <1>7 DEF vars, RequestInv, TypeOK, Requests, AgentLocks, KeyLocks, Minted, Carries
<1> QED
  BY <1>1, <1>2, <1>3, <1>4, <1>5, <1>6, <1>7 DEF Next

(***************************************************************************)
(* The invariant of requests in flight, however agent_service,             *)
(* api_key_service and /token/exchange interleave.                         *)
(***************************************************************************)
THEOREM RequestInvariance == Spec => []RequestInv
BY InitRequestInv, RequestInvStep, PTL DEF Spec

(***************************************************************************)
(* Type correctness of the rows, the locks, Redis and the requests.        *)
(***************************************************************************)
THEOREM TypeCorrect == Spec => []TypeOK
BY RequestInvariance, PTL DEF RequestInv

-----------------------------------------------------------------------------
(***************************************************************************)
(* A request that went on, field by field.                                 *)
(***************************************************************************)
Went(r, pc, key, todo, members, new, jti) ==
    /\ req[r] # Idle /\ req'[r] # Idle
    /\ \A s \in Session \ {r} : req'[s] = req[s]
    /\ req'[r].op = req[r].op
    /\ req'[r].agent = req[r].agent
    /\ req'[r].pc = pc
    /\ req'[r].key = key
    /\ req'[r].todo = todo
    /\ req'[r].members = members
    /\ req'[r].new = new
    /\ req'[r].jti = jti

LEMMA MovedFields ==
    ASSUME TypeOK, NEW r \in Session, req[r] # Idle, NEW p, p # "idle",
           NEW k, NEW t, NEW m, NEW n, NEW j,
           req' = [req EXCEPT ![r] = Moved(req[r], p, k, t, m, n, j)]
    PROVE  Went(r, p, k, t, m, n, j)
<1>1. PICK q : q = Moved(req[r], p, k, t, m, n, j)
  OBVIOUS
<1>2. /\ q.op = req[r].op /\ q.agent = req[r].agent /\ q.pc = p /\ q.key = k
      /\ q.todo = t /\ q.members = m /\ q.new = n /\ q.jti = j
  BY <1>1 DEF Moved
<1>3. q # Idle
  BY <1>2, IdleApart
<1>4. req'[r] = q /\ \A s \in Session \ {r} : req'[s] = req[s]
  BY <1>1 DEF TypeOK
<1> QED
  BY <1>2, <1>3, <1>4 DEF Went

LEMMA StepsGo ==
    ASSUME TypeOK, NEW r \in Session
    PROVE  LET q == req[r] IN
           /\ SweepRange(r) =>
                 Went(r, "sweep", q.key, q.todo, Members(q) \ expired, q.new, q.jti)
           /\ \A j \in Jti : SweepRevoke(r, j) =>
                 Went(r, "sweep", q.key, q.todo, q.members \ {j}, q.new, q.jti)
           /\ SweepDelete(r) =>
                 Went(r, IF q.op \in Cascade /\ SweepsKey(q) THEN "keys" ELSE "swept",
                      q.key, q.todo, q.members, q.new, q.jti)
           /\ DecommissionKeys(r) =>
                 Went(r, "keys", q.key, ActiveKeys(q.agent), q.members, q.new, q.jti)
           /\ \A k \in Key : DeactivateKey(r, k) =>
                 Went(r, "range", k, q.todo \ {k}, q.members, q.new, q.jti)
           /\ UpdateStatus(r) =>
                 Went(r, IF q.op \in {"register", "activate", "jit_activate"}
                         THEN "swept" ELSE "range",
                      None, q.todo, q.members, q.new, q.jti)
           /\ \A k \in Key : InsertKey(r, k) =>
                 Went(r, "swept", q.key, q.todo, q.members, k, q.jti)
           /\ ExchangeUse(r) =>
                 Went(r, "used", q.key, q.todo, q.members, q.new, q.jti)
           /\ \A j \in Jti : ExchangeMint(r, j) =>
                 Went(r, "tracked", q.key, q.todo, q.members, q.new, j)
           /\ ExchangeIndexKey(r) =>
                 Went(r, "indexed", q.key, q.todo, q.members, q.new, q.jti)
<1> DEFINE q == req[r]
<1>1. req[r].pc # "idle" => req[r] # Idle
  BY IdleApart
<1>2. SweepRange(r) =>
         Went(r, "sweep", q.key, q.todo, Members(q) \ expired, q.new, q.jti)
  <2> SUFFICES ASSUME SweepRange(r)
               PROVE  Went(r, "sweep", q.key, q.todo, Members(q) \ expired, q.new, q.jti)
    OBVIOUS
  <2>1. req[r].pc # "idle"
    BY DEF SweepRange
  <2> QED
    BY <1>1, <2>1, MovedRequests, MovedFields
<1>3. ASSUME NEW j \in Jti, SweepRevoke(r, j)
      PROVE  Went(r, "sweep", q.key, q.todo, q.members \ {j}, q.new, q.jti)
  <2>1. req[r].pc = "sweep"
    BY <1>3 DEF SweepRevoke
  <2>2. req' = [req EXCEPT ![r] =
                  Moved(q, "sweep", q.key, q.todo, q.members \ {j}, q.new, q.jti)]
    BY <1>3, <2>1, MovedRequests
  <2> QED
    BY <1>1, <2>1, <2>2, MovedFields
<1>4. ASSUME SweepDelete(r)
      PROVE  Went(r, IF q.op \in Cascade /\ SweepsKey(q) THEN "keys" ELSE "swept",
                  q.key, q.todo, q.members, q.new, q.jti)
  <2>1. PICK p : p = IF q.op \in Cascade /\ SweepsKey(q) THEN "keys" ELSE "swept"
    OBVIOUS
  <2>2. req[r].pc = "sweep" /\ p # "idle"
    BY <1>4, <2>1 DEF SweepDelete
  <2>3. req' = [req EXCEPT ![r] = Moved(q, p, q.key, q.todo, q.members, q.new, q.jti)]
    BY <1>4, <2>1, <2>2, MovedRequests
  <2>4. Went(r, p, q.key, q.todo, q.members, q.new, q.jti)
    BY <1>1, <2>2, <2>3, MovedFields
  <2> QED
    BY <2>1, <2>4
<1>5. ASSUME DecommissionKeys(r)
      PROVE  Went(r, "keys", q.key, ActiveKeys(q.agent), q.members, q.new, q.jti)
  <2>1. req[r].pc = "begun"
    BY <1>5 DEF DecommissionKeys
  <2>2. req' = [req EXCEPT ![r] =
                  Moved(q, "keys", q.key, ActiveKeys(q.agent), q.members, q.new, q.jti)]
    BY <1>5, <2>1, MovedRequests
  <2> QED
    BY <1>1, <2>1, <2>2, MovedFields
<1>6. ASSUME NEW k \in Key, DeactivateKey(r, k)
      PROVE  Went(r, "range", k, q.todo \ {k}, q.members, q.new, q.jti)
  <2>1. req[r].pc \in {"begun", "keys"}
    BY <1>6 DEF DeactivateKey
  <2>2. req' = [req EXCEPT ![r] = Moved(q, "range", k, q.todo \ {k}, q.members, q.new, q.jti)]
    BY <1>6, <2>1, MovedRequests
  <2> QED
    BY <1>1, <2>1, <2>2, MovedFields
<1>7. ASSUME UpdateStatus(r)
      PROVE  Went(r, IF q.op \in {"register", "activate", "jit_activate"}
                     THEN "swept" ELSE "range",
                  None, q.todo, q.members, q.new, q.jti)
  <2>1. PICK p : p = IF q.op \in {"register", "activate", "jit_activate"}
                     THEN "swept" ELSE "range"
    OBVIOUS
  <2>2. req[r].pc \in {"begun", "keys"} /\ p # "idle"
    BY <1>7, <2>1 DEF UpdateStatus
  <2>3. req' = [req EXCEPT ![r] = Moved(q, p, None, q.todo, q.members, q.new, q.jti)]
    BY <1>7, <2>1, <2>2, MovedRequests
  <2>4. Went(r, p, None, q.todo, q.members, q.new, q.jti)
    BY <1>1, <2>2, <2>3, MovedFields
  <2> QED
    BY <2>1, <2>4
<1>8. ASSUME NEW k \in Key, InsertKey(r, k)
      PROVE  Went(r, "swept", q.key, q.todo, q.members, k, q.jti)
  <2>1. req[r].pc = "begun"
    BY <1>8 DEF InsertKey
  <2>2. req' = [req EXCEPT ![r] = Moved(q, "swept", q.key, q.todo, q.members, k, q.jti)]
    BY <1>8, <2>1, MovedRequests
  <2> QED
    BY <1>1, <2>1, <2>2, MovedFields
<1>9. ASSUME ExchangeUse(r)
      PROVE  Went(r, "used", q.key, q.todo, q.members, q.new, q.jti)
  <2>1. req[r].pc = "begun"
    BY <1>9 DEF ExchangeUse
  <2>2. req' = [req EXCEPT ![r] = Moved(q, "used", q.key, q.todo, q.members, q.new, q.jti)]
    BY <1>9, <2>1, MovedRequests
  <2> QED
    BY <1>1, <2>1, <2>2, MovedFields
<1>10. ASSUME NEW j \in Jti, ExchangeMint(r, j)
       PROVE  Went(r, "tracked", q.key, q.todo, q.members, q.new, j)
  <2>1. req[r].pc = "used"
    BY <1>10 DEF ExchangeMint
  <2>2. req' = [req EXCEPT ![r] = Moved(q, "tracked", q.key, q.todo, q.members, q.new, j)]
    BY <1>10, <2>1, MovedRequests
  <2> QED
    BY <1>1, <2>1, <2>2, MovedFields
<1>11. ASSUME ExchangeIndexKey(r)
       PROVE  Went(r, "indexed", q.key, q.todo, q.members, q.new, q.jti)
  <2>1. req[r].pc = "tracked"
    BY <1>11 DEF ExchangeIndexKey
  <2>2. req' = [req EXCEPT ![r] = Moved(q, "indexed", q.key, q.todo, q.members, q.new, q.jti)]
    BY <1>11, <2>1, MovedRequests
  <2> QED
    BY <1>1, <2>1, <2>2, MovedFields
<1> HIDE DEF q
<1> QED
  BY <1>2, <1>3, <1>4, <1>5, <1>6, <1>7, <1>8, <1>9, <1>10, <1>11 DEF q

(***************************************************************************)
(* A request that begins, and one that ends.                               *)
(***************************************************************************)
LEMMA BegunFields ==
    ASSUME TypeOK, NEW r \in Session, NEW op, NEW a, NEW k,
           req' = [req EXCEPT ![r] = Started(op, a, k)]
    PROVE  /\ \A s \in Session \ {r} : req'[s] = req[s]
           /\ req'[r] # Idle
           /\ req'[r].pc = "begun" /\ req'[r].op = op /\ req'[r].agent = a
           /\ req'[r].key = k /\ req'[r].todo = {} /\ req'[r].new = None
<1>1. PICK q : q = Started(op, a, k)
  OBVIOUS
<1>2. /\ q.op = op /\ q.agent = a /\ q.pc = "begun" /\ q.key = k
      /\ q.todo = {} /\ q.new = None
  BY <1>1 DEF Started
<1>3. q # Idle
  BY <1>2, IdleApart
<1>4. req'[r] = q /\ \A s \in Session \ {r} : req'[s] = req[s]
  BY <1>1 DEF TypeOK
<1> QED
  BY <1>2, <1>3, <1>4

-----------------------------------------------------------------------------
(***************************************************************************)
(* The tokens of SweepInv are minted ones.                                 *)
(***************************************************************************)
LEMMA EnteredMinted ==
    ASSUME RequestInv, NEW j \in Jti, Entered(j)
    PROVE  token[j] \in Subject
<1>1. CASE j \in delivered
  BY <1>1 DEF RequestInv, Minted, TypeOK
<1>2. ASSUME NEW r \in Session, req[r].pc = "indexed", req[r].jti = j
      PROVE  token[j] \in Subject
  <2>1. req[r] # Idle /\ req[r] \in InFlight /\ Carries(req[r]) /\ Coherent(req[r])
    BY <1>2, TypedRequest DEF RequestInv, Requests, Minted
  <2>2. req[r].agent \in Agent /\ req[r].key \in Key
    BY <1>2, <2>1, InFlightFields DEF Coherent
  <2> QED
    BY <1>2, <2>1, <2>2 DEF Carries, Subject
<1> QED
  BY <1>1, <1>2 DEF Entered

(***************************************************************************)
(* A step of request r that mints and indexes no token, as long as it      *)
(* keeps r's own promises.                                                 *)
(***************************************************************************)
LEMMA SweepFrame ==
    ASSUME RequestInv, RequestInv', SweepInv, NEW r \in Session,
           \A s \in Session \ {r} : req'[s] = req[s],
           \A a \in Agent : \A s \in Session \ {r} : agentLock'[a] = s <=> agentLock[a] = s,
           \A k \in Key : \A s \in Session \ {r} : keyLock'[k] = s <=> keyLock[k] = s,
           token' = token,
           AgentDone \subseteq AgentDone', KeyDone \subseteq KeyDone',
           \A a \in Agent : /\ agentIndex'[a] \subseteq agentIndex[a]
                            /\ agentIndex[a] \subseteq agentIndex'[a] \cup AgentDone',
           \A k \in Key : /\ keyIndex'[k] \subseteq keyIndex[k]
                          /\ keyIndex[k] \subseteq keyIndex'[k] \cup KeyDone',
           \A j \in Jti : Entered(j)' => Entered(j),
           req'[r] # Idle => Holds(r)' /\ ReadAll(r)',
           \A k \in Key :
               (\/ k \in revoked'
                \/ /\ keyLock'[k] = r
                   /\ req'[r].op \in Revoking
                   /\ ~ (req'[r].pc \in {"range", "sweep"} /\ req'[r].key = k))
                  => KeyPast(k) \/ KeySwept(k)',
           \A a \in Agent :
               (\/ status'[a] = "DECOMMISSIONED"
                \/ /\ agentLock'[a] = r
                   /\ req'[r].op \in Cascade \cup {"suspend"}
                   /\ req'[r].pc = "swept")
                  => AgentPast(a) \/ AgentSwept(a)'
    PROVE  SweepInv'
<1>1. ASSUME NEW s \in Session, req'[s] # Idle, s # r
      PROVE  Holds(s)' /\ ReadAll(s)'
  <2>1. req'[s] = req[s] /\ Holds(s) /\ ReadAll(s)
    BY <1>1 DEF SweepInv
  <2>2. /\ req[s] \in InFlight
        /\ req[s].agent \in Agent /\ req[s].key \in Key \cup {None}
    BY <1>1, <2>1, TypedRequest, InFlightFields DEF RequestInv
  <2>3. Holds(s)'
    BY <1>1, <2>1, <2>2 DEF Holds, SweepsKey
  <2>4. ASSUME req[s].key # None PROVE ReadAll(s)'
    <3>1. keyIndex'[req[s].key] \subseteq keyIndex[req[s].key]
      BY <2>2, <2>4
    <3> QED
      BY <2>1, <2>4, <3>1 DEF ReadAll, Members, SweepsKey
  <2>5. ASSUME req[s].key = None PROVE ReadAll(s)'
    <3>1. agentIndex'[req[s].agent] \subseteq agentIndex[req[s].agent]
      BY <2>2
    <3> QED
      BY <2>1, <2>5, <3>1 DEF ReadAll, Members, SweepsKey
  <2>6. ReadAll(s)'
    BY <2>4, <2>5
  <2> QED
    BY <2>3, <2>6
<1>2. Indexed'
  <2>1. ASSUME NEW j \in Jti, token[j] # None
        PROVE  j \in agentIndex'[token[j].agent] \cup AgentDone'
    <3>1. token[j].agent \in Agent
      BY <2>1 DEF RequestInv, TypeOK, Subject
    <3>2. j \in agentIndex[token[j].agent] \cup AgentDone
      BY <2>1 DEF SweepInv, Indexed
    <3> QED
      BY <3>1, <3>2
  <2>2. ASSUME NEW j \in Jti, Entered(j)
        PROVE  j \in keyIndex'[token[j].key] \cup KeyDone'
    <3>1. token[j].key \in Key
      BY <2>2, EnteredMinted DEF Subject
    <3>2. j \in keyIndex[token[j].key] \cup KeyDone
      BY <2>2 DEF SweepInv, Indexed
    <3> QED
      BY <3>1, <3>2
  <2> QED
    BY <2>1, <2>2 DEF Indexed
<1>3. ASSUME NEW k \in Key, KeyPast(k)' PROVE KeySwept(k)'
  <2>1. CASE KeyPast(k)
    BY <2>1 DEF SweepInv, KeySwept
  <2>2. CASE KeySwept(k)'
    BY <2>2
  <2>3. ASSUME NEW s \in Session, s # r, keyLock'[k] = s, req'[s].op \in Revoking,
               ~ (req'[s].pc \in {"range", "sweep"} /\ req'[s].key = k)
        PROVE  KeyPast(k)
    <3>1. keyLock[k] = s /\ req[s] = req'[s]
      BY <2>3
    <3> QED
      BY <2>3, <3>1 DEF KeyPast
  <2> QED
    BY <1>3, <2>1, <2>2, <2>3 DEF KeyPast
<1>4. ASSUME NEW a \in Agent, AgentPast(a)' PROVE AgentSwept(a)'
  <2>1. CASE AgentPast(a)
    BY <2>1 DEF SweepInv, AgentSwept
  <2>2. CASE AgentSwept(a)'
    BY <2>2
  <2>3. ASSUME NEW s \in Session, s # r, agentLock'[a] = s,
               req'[s].op \in Cascade \cup {"suspend"}, req'[s].pc = "swept"
        PROVE  AgentPast(a)
    <3>1. agentLock[a] = s /\ req[s] = req'[s]
      BY <2>3
    <3> QED
      BY <2>3, <3>1 DEF AgentPast
  <2> QED
    BY <1>4, <2>1, <2>2, <2>3 DEF AgentPast
<1> QED
  BY <1>1, <1>2, <1>3, <1>4 DEF SweepInv

(***************************************************************************)
(* Steps that touch neither tokens nor indexes.                            *)
(***************************************************************************)
LEMMA QuietFrame ==
    ASSUME RequestInv, RequestInv', SweepInv, NEW r \in Session,
           \A s \in Session \ {r} : req'[s] = req[s],
           \A a \in Agent : \A s \in Session \ {r} : agentLock'[a] = s <=> agentLock[a] = s,
           \A k \in Key : \A s \in Session \ {r} : keyLock'[k] = s <=> keyLock[k] = s,
           UNCHANGED <<tokens, index, blacklist>>,
           req'[r].pc = "indexed" => req'[r] = req[r],
           req'[r] # Idle => Holds(r)' /\ ReadAll(r)',
           \A k \in Key :
               (\/ k \in revoked'
                \/ /\ keyLock'[k] = r
                   /\ req'[r].op \in Revoking
                   /\ ~ (req'[r].pc \in {"range", "sweep"} /\ req'[r].key = k))
                  => KeyPast(k),
           \A a \in Agent :
               (\/ status'[a] = "DECOMMISSIONED"
                \/ /\ agentLock'[a] = r
                   /\ req'[r].op \in Cascade \cup {"suspend"}
                   /\ req'[r].pc = "swept")
                  => AgentPast(a)
    PROVE  SweepInv'
<1>1. UNCHANGED <<token, delivered, expired, agentIndex, keyIndex, agentMissed,
                  keyMissed, blacklist>>
  BY DEF tokens, index, missed
<1>2. AgentDone' = AgentDone /\ KeyDone' = KeyDone
  BY <1>1 DEF AgentDone, KeyDone
<1>3. \A j \in Jti : Entered(j)' => Entered(j)
  BY <1>1 DEF Entered
<1> QED
  BY <1>1, <1>2, <1>3, SweepFrame

LEMMA BeginSweepInv ==
    ASSUME RequestInv, RequestInv', SweepInv, NEW r \in Session, req[r] = Idle,
           NEW op \in Operation \cup {"reap"}, NEW a \in Agent, NEW k \in Key \cup {None},
           op = "suspend" => k = None,
           op # "reap" => r \in Request,
           req' = [req EXCEPT ![r] = Started(op, a, k)],
           UNCHANGED <<rows, locks, tokens, index, blacklist>>
    PROVE  SweepInv'
<1>1. /\ \A s \in Session \ {r} : req'[s] = req[s]
      /\ req'[r] # Idle
      /\ req'[r].pc = "begun" /\ req'[r].op = op /\ req'[r].key = k
  BY BegunFields DEF RequestInv
<1>2. UNCHANGED <<status, revoked, agentLock, keyLock>>
  BY DEF rows, locks
<1>3. /\ \A x \in Agent : agentLock[x] # r
      /\ \A x \in Key : keyLock[x] # r
  BY DEF RequestInv, AgentLocks, KeyLocks
<1>4. Holds(r)' /\ ReadAll(r)'
  BY <1>1 DEF Holds, ReadAll
<1>5. /\ \A x \in Key : x \in revoked' => KeyPast(x)
      /\ \A x \in Agent : status'[x] = "DECOMMISSIONED" => AgentPast(x)
  BY <1>2 DEF KeyPast, AgentPast
<1> QED
  BY <1>1, <1>2, <1>3, <1>4, <1>5, QuietFrame

LEMMA BeginningSweepInv ==
    ASSUME RequestInv, RequestInv', SweepInv, NEW r \in Session,
           \/ /\ r \in Request
              /\ \E a \in Agent, p \in Registered \cup {None} : BeginRegister(r, a, p)
           \/ r \in Request /\ \E op \in Operation, a \in Agent : BeginAgent(r, op, a)
           \/ r \in Request /\ \E op \in Operation, k \in KeyRows : BeginKey(r, op, k)
           \/ \E a \in Agent : BeginAgent(r, "reap", a)
    PROVE  SweepInv'
<1>1. ASSUME NEW a \in Agent, NEW p \in Registered \cup {None}, BeginRegister(r, a, p),
             r \in Request
      PROVE  SweepInv'
  <2>1. PICK op \in Operation \cup {"reap"} : op = "register"
    BY <1>1 DEF BeginRegister
  <2>2. /\ req[r] = Idle
        /\ req' = [req EXCEPT ![r] = Started(op, a, None)]
        /\ UNCHANGED <<rows, locks, tokens, index, blacklist>>
    BY <1>1, <2>1 DEF BeginRegister, MayBegin
  <2> QED
    BY <1>1, <2>1, <2>2, BeginSweepInv
<1>2. ASSUME NEW op \in Operation \cup {"reap"}, NEW a \in Agent, BeginAgent(r, op, a),
             op # "reap" => r \in Request
      PROVE  SweepInv'
  BY <1>2, BeginSweepInv DEF BeginAgent, MayBegin
<1>3. ASSUME NEW op \in Operation, NEW k \in KeyRows, BeginKey(r, op, k), r \in Request
      PROVE  SweepInv'
  <2>1. owner[k] \in Agent /\ k \in Key
    BY DEF KeyRows, RequestInv, TypeOK
  <2>2. op # "suspend"
    BY <1>3 DEF BeginKey, KeyPermits
  <2> QED
    BY <1>3, <2>1, <2>2, BeginSweepInv DEF BeginKey, MayBegin
<1>4. "reap" \in Operation \cup {"reap"} /\ Operation \subseteq Operation \cup {"reap"}
  OBVIOUS
<1> QED
  BY <1>1, <1>2, <1>3, <1>4

(***************************************************************************)
(* A request that goes on without touching tokens and indexes.             *)
(***************************************************************************)
LEMMA QuietSweepInv ==
    ASSUME RequestInv, RequestInv', SweepInv, NEW r \in Session,
           DecommissionKeys(r) \/ ExchangeUse(r) \/ SweepRange(r) \/ UpdateStatus(r)
              \/ \E k \in Key : DeactivateKey(r, k) \/ InsertKey(r, k)
    PROVE  SweepInv'
<1> USE DEF RequestInv
<1>1. req[r].pc \in {"begun", "keys", "range"}
  BY DEF DecommissionKeys, ExchangeUse, SweepRange, UpdateStatus, DeactivateKey, InsertKey
<1>2. req[r] # Idle /\ req[r] \in InFlight /\ Coherent(req[r]) /\ Holds(r)
  BY <1>1, TypedRequest DEF Requests, SweepInv
<1>3. req[r].agent \in Agent /\ req[r].key \in Key \cup {None}
  BY <1>2, InFlightFields
<1>4. /\ UNCHANGED <<tokens, index, blacklist>>
      /\ UNCHANGED <<status, revoked>>
  BY DEF DecommissionKeys, ExchangeUse, SweepRange, UpdateStatus, DeactivateKey, InsertKey,
         rows
<1>5. /\ \A x \in Key : x \in revoked' => KeyPast(x)
      /\ \A x \in Agent : status'[x] = "DECOMMISSIONED" => AgentPast(x)
  BY <1>4 DEF KeyPast, AgentPast
<1>6. r # None
  BY ConstantsAssumption DEF Session
<1>7. \A x \in Agent : agentLock[x] = r => req[r].pc = "range"
  BY <1>1 DEF AgentLocks
<1>8. CASE DecommissionKeys(r)
  <2>1. Went(r, "keys", req[r].key, ActiveKeys(req[r].agent), req[r].members,
             req[r].new, req[r].jti)
    BY <1>8, StepsGo
  <2>2. UNCHANGED <<agentLock, keyLock>> /\ req[r].pc = "begun" /\ req[r].op \in Cascade
    BY <1>8 DEF DecommissionKeys, locks
  <2>3. Holds(r)' /\ ReadAll(r)'
    BY <1>2, <2>1 DEF Went, Holds, ReadAll
  <2>4. \A x \in Key : (keyLock[x] = r /\ req[r].op \in Revoking) => KeyPast(x)
    BY <2>2 DEF KeyPast
  <2> QED
    BY <1>4, <1>5, <1>7, <2>1, <2>2, <2>3, <2>4, QuietFrame DEF Went
<1>9. CASE ExchangeUse(r)
  <2>1. Went(r, "used", req[r].key, req[r].todo, req[r].members, req[r].new, req[r].jti)
    BY <1>9, StepsGo
  <2>2. UNCHANGED <<agentLock, keyLock>> /\ req[r].op = "exchange"
    BY <1>9 DEF ExchangeUse, locks
  <2>3. Holds(r)' /\ ReadAll(r)'
    BY <1>2, <2>1 DEF Went, Holds, ReadAll
  <2> QED
    BY <1>4, <1>5, <2>1, <2>2, <2>3, QuietFrame DEF Went, Revoking, Cascade
<1>10. CASE SweepRange(r)
  <2>1. Went(r, "sweep", req[r].key, req[r].todo, Members(req[r]) \ expired,
             req[r].new, req[r].jti)
    BY <1>10, StepsGo
  <2>2. UNCHANGED <<agentLock, keyLock>> /\ req[r].pc = "range"
    BY <1>10 DEF SweepRange, locks
  <2>3. UNCHANGED <<agentIndex, keyIndex, agentMissed, keyMissed, expired>>
    BY <1>4 DEF index, missed, tokens
  <2>4. Holds(r)'
    BY <1>2, <2>1, <2>2 DEF Went, Holds, SweepsKey
  <2>5. ReadAll(r)'
    BY <2>1, <2>3 DEF Went, ReadAll, Members, SweepsKey, AgentDone, KeyDone
  <2>6. \A x \in Key : (/\ keyLock[x] = r /\ req[r].op \in Revoking
                        /\ req[r].key # x) => KeyPast(x)
    BY DEF KeyPast
  <2> QED
    BY <1>4, <1>5, <2>1, <2>2, <2>4, <2>5, <2>6, QuietFrame DEF Went
<1>11. CASE UpdateStatus(r)
  <2>1. PICK p : p = IF req[r].op \in {"register", "activate", "jit_activate"}
                     THEN "swept" ELSE "range"
    OBVIOUS
  <2>2. Went(r, p, None, req[r].todo, req[r].members, req[r].new, req[r].jti)
    BY <1>11, <2>1, StepsGo
  <2>3. /\ agentLock' = [agentLock EXCEPT ![req[r].agent] = r] /\ keyLock' = keyLock
        /\ agentLock[req[r].agent] = None
        /\ req[r].pc \in {"begun", "keys"}
    BY <1>11 DEF UpdateStatus
  <2>4. /\ agentLock'[req[r].agent] = r
        /\ \A x \in Agent : \A s \in Session \ {r} : agentLock'[x] = s <=> agentLock[x] = s
    BY <1>3, <1>6, <2>3, ConstantsAssumption DEF TypeOK, Session
  <2>5. Holds(r)' /\ ReadAll(r)'
    BY <1>2, <2>1, <2>2, <2>4 DEF Went, Holds, ReadAll, SweepsKey, Cascade
  <2>6. \A x \in Key : (keyLock[x] = r /\ req[r].op \in Revoking) => KeyPast(x)
    BY <2>3 DEF KeyPast
  <2>7. p = "swept" => req[r].op \notin Cascade \cup {"suspend"}
    BY <2>1 DEF Cascade
  <2>8. p # "indexed"
    BY <2>1
  <2> QED
    BY <1>4, <1>5, <2>2, <2>3, <2>4, <2>5, <2>6, <2>7, <2>8, QuietFrame DEF Went
<1>12. ASSUME NEW k \in Key, DeactivateKey(r, k) PROVE SweepInv'
  <2>1. Went(r, "range", k, req[r].todo \ {k}, req[r].members, req[r].new, req[r].jti)
    BY <1>12, StepsGo
  <2>2. /\ keyLock' = [keyLock EXCEPT ![k] = r] /\ agentLock' = agentLock
        /\ keyLock[k] = None
        /\ req[r].pc \in {"begun", "keys"}
        /\ req[r].op # "suspend"
    BY <1>2, <1>12 DEF DeactivateKey, Coherent, Cascade
  <2>3. /\ keyLock'[k] = r
        /\ \A x \in Key : \A s \in Session \ {r} : keyLock'[x] = s <=> keyLock[x] = s
        /\ \A x \in Key : x # k => keyLock'[x] = keyLock[x]
    BY <2>2, ConstantsAssumption DEF TypeOK, Session
  <2>4. k # None
    BY ConstantsAssumption
  <2>5. Holds(r)' /\ ReadAll(r)'
    BY <1>2, <2>1, <2>2, <2>3, <2>4 DEF Went, Holds, ReadAll, SweepsKey
  <2>6. \A x \in Key : (keyLock[x] = r /\ req[r].op \in Revoking) => KeyPast(x)
    BY <2>2 DEF KeyPast
  <2> QED
    BY <1>4, <1>5, <2>1, <2>2, <2>3, <2>5, <2>6, QuietFrame DEF Went
<1>13. ASSUME NEW k \in Key, InsertKey(r, k) PROVE SweepInv'
  <2>1. Went(r, "swept", req[r].key, req[r].todo, req[r].members, k, req[r].jti)
    BY <1>13, StepsGo
  <2>2. /\ agentLock' = agentLock
        /\ req[r].op \in {"issue_key", "rotate_key"}
        /\ keyLock' = keyLock \/ /\ keyLock' = [keyLock EXCEPT ![req[r].key] = r]
                                 /\ keyLock[req[r].key] = None /\ req[r].key \in Key
    BY <1>2, <1>13 DEF InsertKey, Coherent
  <2>3. \A x \in Key : \A s \in Session \ {r} : keyLock'[x] = s <=> keyLock[x] = s
    BY <2>2, ConstantsAssumption DEF TypeOK, Session
  <2>4. Holds(r)' /\ ReadAll(r)'
    BY <1>2, <2>1, <2>2 DEF Went, Holds, ReadAll, Cascade
  <2> QED
    BY <1>4, <1>5, <2>1, <2>2, <2>3, <2>4, QuietFrame DEF Went, Revoking, Cascade
<1> QED
  BY <1>8, <1>9, <1>10, <1>11, <1>12, <1>13

(***************************************************************************)
(* The blacklisting of one token, and the end of a sweep.                  *)
(***************************************************************************)
LEMMA SweepingSweepInv ==
    ASSUME RequestInv, RequestInv', SweepInv, NEW r \in Session,
           SweepDelete(r) \/ \E j \in Jti : SweepRevoke(r, j)
    PROVE  SweepInv'
<1> USE DEF RequestInv
<1>1. req[r].pc = "sweep"
  BY DEF SweepDelete, SweepRevoke
<1>2. req[r] # Idle /\ req[r] \in InFlight /\ Coherent(req[r]) /\ Holds(r) /\ ReadAll(r)
  BY <1>1, TypedRequest DEF Requests, SweepInv
<1>3. /\ req[r].agent \in Agent /\ req[r].key \in Key \cup {None}
      /\ req[r].members \subseteq Jti
      /\ req[r].op \in {"suspend", "revoke_key"} \cup Cascade
  BY <1>1, <1>2, InFlightFields DEF Coherent
<1>4. UNCHANGED <<status, revoked, agentLock, keyLock, token, delivered, expired>>
  BY DEF SweepDelete, SweepRevoke, rows, locks, tokens
<1>5. /\ \A x \in Key : x \in revoked' => KeyPast(x)
      /\ \A x \in Agent : status'[x] = "DECOMMISSIONED" => AgentPast(x)
  BY <1>4 DEF KeyPast, AgentPast
<1>6. \A x \in Key : (/\ keyLock[x] = r /\ req[r].op \in Revoking
                      /\ req[r].key # x) => KeyPast(x)
  BY DEF KeyPast
<1>7. ASSUME NEW j \in Jti, SweepRevoke(r, j) PROVE SweepInv'
  <2>1. Went(r, "sweep", req[r].key, req[r].todo, req[r].members \ {j},
             req[r].new, req[r].jti)
    BY <1>7, StepsGo
  <2>2. /\ UNCHANGED <<agentIndex, keyIndex>>
        /\ agentMissed' = agentMissed \ {j} /\ keyMissed' = keyMissed \ {j}
        /\ blacklist' = blacklist \cup {j}
    BY <1>7 DEF SweepRevoke, Forget
  <2>3. AgentDone' = AgentDone \cup {j} /\ KeyDone' = KeyDone \cup {j}
    BY <1>4, <2>2 DEF AgentDone, KeyDone
  <2>4. \A i \in Jti : Entered(i)' => Entered(i)
    BY <1>4, <2>1 DEF Went, Entered
  <2>5. Holds(r)'
    BY <1>1, <1>2, <1>4, <2>1 DEF Went, Holds, SweepsKey
  <2>6. ReadAll(r)'
    BY <1>1, <1>2, <2>1, <2>2, <2>3 DEF Went, ReadAll, Members, SweepsKey
  <2> QED
    BY <1>4, <1>5, <1>6, <2>1, <2>2, <2>3, <2>4, <2>5, <2>6, SweepFrame DEF Went
<1>8. CASE SweepDelete(r)
  <2>1. PICK p : p = IF req[r].op \in Cascade /\ SweepsKey(req[r]) THEN "keys" ELSE "swept"
    OBVIOUS
  <2>2. Went(r, p, req[r].key, req[r].todo, req[r].members, req[r].new, req[r].jti)
    BY <1>8, <2>1, StepsGo
  <2>3. /\ UNCHANGED <<agentMissed, keyMissed, blacklist>>
        /\ req[r].members = {}
    BY <1>8 DEF SweepDelete, missed
  <2>4. AgentDone' = AgentDone /\ KeyDone' = KeyDone
    BY <1>4, <2>3 DEF AgentDone, KeyDone
  <2>5. \A i \in Jti : Entered(i)' => Entered(i)
    BY <1>4, <2>1, <2>2 DEF Went, Entered
  <2>6. Holds(r)' /\ ReadAll(r)'
    <3>1. p = "swept" /\ req[r].op \in Cascade \cup {"suspend"} => ~ SweepsKey(req[r])
      BY <1>2, <2>1 DEF Holds, SweepsKey
    <3> QED
      BY <1>1, <1>2, <1>4, <2>1, <2>2, <3>1 DEF Went, Holds, ReadAll, SweepsKey
  <2>7. CASE SweepsKey(req[r])
    <3>1. req[r].key \in Key /\ keyIndex[req[r].key] \subseteq KeyDone
      BY <1>1, <1>2, <1>3, <2>3, <2>7 DEF ReadAll, Members, SweepsKey
    <3>2. /\ agentIndex' = agentIndex
          /\ keyIndex' = [keyIndex EXCEPT ![req[r].key] = {}]
      BY <1>8, <2>7 DEF SweepDelete
    <3>3. \A k \in Key : /\ keyIndex'[k] \subseteq keyIndex[k]
                         /\ keyIndex[k] \subseteq keyIndex'[k] \cup KeyDone'
      BY <2>4, <3>1, <3>2 DEF TypeOK
    <3>0. PICK x \in Key : x = req[r].key
      BY <3>1
    <3>4. KeySwept(x)'
      <4>1. ASSUME NEW j \in Jti, Entered(j)', token'[j].key = x
            PROVE  j \in KeyDone'
        <5>1. Entered(j) /\ token[j].key = req[r].key
          BY <1>4, <2>5, <3>0, <4>1
        <5>2. j \in keyIndex[req[r].key] \cup KeyDone
          BY <5>1 DEF SweepInv, Indexed
        <5> QED
          BY <2>4, <3>1, <5>2
      <4> QED
        BY <4>1 DEF KeySwept
    <3>5. \A k \in Key : (keyLock'[k] = r /\ req[r].op \in Revoking)
                            => KeyPast(k) \/ KeySwept(k)'
      <4> SUFFICES ASSUME NEW k \in Key, keyLock'[k] = r, req[r].op \in Revoking
                   PROVE  KeyPast(k) \/ KeySwept(k)'
        OBVIOUS
      <4>1. keyLock[k] = r
        BY <1>4
      <4>2. CASE req[r].key = k
        BY <3>0, <3>4, <4>2
      <4>3. CASE req[r].key # k
        BY <1>6, <4>1, <4>3
      <4> QED
        BY <4>2, <4>3
    <3>6. p = "swept" => \A a \in Agent : agentLock[a] # r
      <4>1. req[r].key # None
        BY <2>7 DEF SweepsKey
      <4> QED
        BY <4>1 DEF AgentLocks
    <3> QED
      BY <1>4, <1>5, <2>2, <2>4, <2>5, <2>6, <3>2, <3>3, <3>5, <3>6, SweepFrame DEF Went
  <2>8. CASE ~ SweepsKey(req[r])
    <3>1. req[r].key = None /\ agentIndex[req[r].agent] \subseteq AgentDone
      BY <1>1, <1>2, <1>3, <2>3, <2>8 DEF ReadAll, Members, SweepsKey
    <3>2. /\ keyIndex' = keyIndex
          /\ agentIndex' = [agentIndex EXCEPT ![req[r].agent] = {}]
      BY <1>8, <2>8 DEF SweepDelete
    <3>3. \A a \in Agent : /\ agentIndex'[a] \subseteq agentIndex[a]
                           /\ agentIndex[a] \subseteq agentIndex'[a] \cup AgentDone'
      BY <1>3, <2>4, <3>1, <3>2 DEF TypeOK
    <3>0. PICK x \in Agent : x = req[r].agent
      BY <1>3
    <3>4. AgentSwept(x)'
      <4>1. ASSUME NEW j \in Jti, token'[j] # None, token'[j].agent = x
            PROVE  j \in AgentDone'
        <5>1. j \in agentIndex[req[r].agent] \cup AgentDone
          BY <1>4, <3>0, <4>1 DEF SweepInv, Indexed
        <5> QED
          BY <2>4, <3>1, <5>1
      <4> QED
        BY <4>1 DEF AgentSwept
    <3>5. \A a \in Agent : agentLock'[a] = r => AgentSwept(a)'
      BY <1>4, <3>0, <3>4 DEF AgentLocks
    <3>6. \A k \in Key : (keyLock'[k] = r /\ req[r].op \in Revoking) => KeyPast(k)
      <4>1. \A k \in Key : req[r].key # k
        BY <3>1, ConstantsAssumption
      <4> QED
        BY <1>4, <1>6, <4>1
    <3> QED
      BY <1>4, <1>5, <2>2, <2>4, <2>5, <2>6, <3>2, <3>3, <3>5, <3>6, SweepFrame DEF Went
  <2> QED
    BY <2>7, <2>8
<1> QED
  BY <1>7, <1>8

(***************************************************************************)
(* A token enters its agent's index: unmissed unless a sweep has read it.  *)
(***************************************************************************)
LEMMA MintSweepInv ==
    ASSUME RequestInv, RequestInv', SweepInv, NEW r \in Session, NEW j \in Jti,
           ExchangeMint(r, j)
    PROVE  SweepInv'
<1> USE DEF RequestInv
<1>1. req[r].pc = "used"
  BY DEF ExchangeMint
<1>2. req[r] # Idle /\ req[r] \in InFlight /\ Coherent(req[r]) /\ Holds(r)
  BY <1>1, TypedRequest DEF Requests, SweepInv
<1>3. /\ req[r].op = "exchange"
      /\ req[r].agent \in Agent /\ req[r].key \in Key
  BY <1>1, <1>2, InFlightFields DEF Coherent
<1>4. PICK a \in Agent, k \in Key : a = req[r].agent /\ k = req[r].key
  BY <1>3
<1>5. /\ Went(r, "tracked", req[r].key, req[r].todo, req[r].members, req[r].new, j)
      /\ token[j] = None
      /\ token' = [token EXCEPT ![j] = [agent |-> a, key |-> k]]
      /\ agentIndex' = [agentIndex EXCEPT ![a] = (@ \cup {j}) \ expired]
      /\ agentMissed' = IF AgentIndexRead(a) THEN agentMissed \cup {j} ELSE agentMissed
      /\ UNCHANGED <<status, revoked, agentLock, keyLock, delivered, expired, keyIndex,
                     keyMissed, blacklist>>
  BY <1>4, StepsGo DEF ExchangeMint, FreshJti, rows, locks
<1>6. /\ token'[j].agent = a
      /\ \A i \in Jti \ {j} : token'[i] = token[i]
  BY <1>5 DEF TypeOK
<1>7. /\ \A x \in Agent \ {a} : agentIndex'[x] = agentIndex[x]
      /\ agentIndex'[a] = (agentIndex[a] \cup {j}) \ expired
  BY <1>5 DEF TypeOK
<1>8. AgentDone \subseteq AgentDone' /\ KeyDone' = KeyDone /\ expired \subseteq AgentDone'
  BY <1>5 DEF AgentDone, KeyDone
<1>9. AgentIndexRead(a) => j \in AgentDone'
  BY <1>5 DEF AgentDone
<1>10. \A i \in Jti : Entered(i)' => Entered(i)
  BY <1>5 DEF Went, Entered
<1>11. ~ Entered(j)
  BY <1>5, EnteredMinted, ConstantsAssumption
<1>12. /\ \A x \in Key : KeyPast(x)' => KeyPast(x)
       /\ \A x \in Agent : AgentPast(x)' => AgentPast(x)
  BY <1>3, <1>5 DEF Went, KeyPast, AgentPast, Revoking, Cascade
<1>13. ASSUME NEW s \in Session, req'[s] # Idle PROVE Holds(s)' /\ ReadAll(s)'
  <2>1. CASE s = r
    BY <1>2, <1>3, <1>5, <2>1 DEF Went, Holds, ReadAll, Cascade
  <2>2. CASE s # r
    <3>1. req'[s] = req[s] /\ Holds(s) /\ ReadAll(s) /\ req[s] \in InFlight /\ Coherent(req[s])
      BY <1>5, <1>13, <2>2, TypedRequest DEF Went, SweepInv, Requests
    <3>2. req[s].agent \in Agent /\ req[s].key \in Key \cup {None}
      BY <3>1, InFlightFields
    <3>3. Holds(s)'
      BY <1>5, <3>1 DEF Holds, SweepsKey
    <3>4. ASSUME req[s].pc = "sweep" PROVE ReadAll(s)'
      <4>1. CASE req[s].key # None
        BY <1>5, <1>8, <3>1, <4>1 DEF ReadAll, Members, SweepsKey
      <4>2. CASE req[s].key = None /\ req[s].agent # a
        <5>1. agentIndex'[req[s].agent] = agentIndex[req[s].agent]
          BY <1>7, <3>2, <4>2
        <5> QED
          BY <1>8, <3>1, <4>2, <5>1 DEF ReadAll, Members, SweepsKey
      <4>3. CASE req[s].key = None /\ req[s].agent = a
        <5>1. agentLock[a] = s /\ req[s].op \in Cascade \cup {"suspend"}
          BY <3>1, <3>4, <4>3, ConstantsAssumption DEF Holds, SweepsKey, Coherent
        <5>2. AgentIndexRead(a)
          BY <3>4, <5>1 DEF AgentIndexRead
        <5>3. j \in AgentDone'
          BY <1>9, <5>2
        <5> QED
          BY <1>7, <1>8, <3>1, <4>3, <5>3 DEF ReadAll, Members, SweepsKey
      <4> QED
        BY <4>1, <4>2, <4>3
    <3>5. ReadAll(s)'
      BY <3>1, <3>4 DEF ReadAll
    <3> QED
      BY <3>3, <3>5
  <2> QED
    BY <2>1, <2>2
<1>14. Indexed'
  <2>1. ASSUME NEW i \in Jti, token'[i] # None
        PROVE  i \in agentIndex'[token'[i].agent] \cup AgentDone'
    <3>1. CASE i = j
      BY <1>6, <1>7, <1>8, <3>1
    <3>2. CASE i # j
      <4>1. token'[i] = token[i] /\ token[i].agent \in Agent
        BY <1>6, <2>1, <3>2 DEF TypeOK, Subject
      <4>2. i \in agentIndex[token[i].agent] \cup AgentDone
        BY <2>1, <4>1 DEF SweepInv, Indexed
      <4> QED
        BY <1>7, <1>8, <4>1, <4>2
    <3> QED
      BY <3>1, <3>2
  <2>2. ASSUME NEW i \in Jti, Entered(i)'
        PROVE  i \in keyIndex'[token'[i].key] \cup KeyDone'
    <3>1. Entered(i) /\ token'[i] = token[i]
      BY <1>6, <1>10, <1>11, <2>2
    <3> QED
      BY <1>5, <1>8, <3>1 DEF SweepInv, Indexed
  <2> QED
    BY <2>1, <2>2 DEF Indexed
<1>15. ASSUME NEW x \in Key, KeyPast(x)' PROVE KeySwept(x)'
  <2>1. KeySwept(x)
    BY <1>12, <1>15 DEF SweepInv
  <2> QED
    BY <1>6, <1>8, <1>10, <1>11, <2>1 DEF KeySwept
<1>16. ASSUME NEW x \in Agent, AgentPast(x)' PROVE AgentSwept(x)'
  <2>1. AgentPast(x) /\ AgentSwept(x)
    BY <1>12, <1>16 DEF SweepInv
  <2>2. x = a => j \in AgentDone'
    <3>1. x = a => AgentIndexRead(a)
      BY <2>1 DEF AgentPast, AgentIndexRead
    <3> QED
      BY <1>9, <3>1
  <2> QED
    BY <1>6, <1>8, <2>1, <2>2 DEF AgentSwept
<1> QED
  BY <1>13, <1>14, <1>15, <1>16 DEF SweepInv

(***************************************************************************)
(* It enters its key's index: unmissed unless a sweep has read it.         *)
(***************************************************************************)
LEMMA IndexKeySweepInv ==
    ASSUME RequestInv, RequestInv', SweepInv, NEW r \in Session, ExchangeIndexKey(r)
    PROVE  SweepInv'
<1> USE DEF RequestInv
<1>1. req[r].pc = "tracked"
  BY DEF ExchangeIndexKey
<1>2. /\ req[r] # Idle /\ req[r] \in InFlight /\ Coherent(req[r]) /\ Holds(r)
      /\ Carries(req[r])
  BY <1>1, TypedRequest DEF Requests, SweepInv, Minted
<1>3. /\ req[r].op = "exchange" /\ req[r].jti \in Jti
      /\ req[r].agent \in Agent /\ req[r].key \in Key
  BY <1>1, <1>2, InFlightFields DEF Coherent
<1>4. PICK j \in Jti, k \in Key : j = req[r].jti /\ k = req[r].key
  BY <1>3
<1>5. /\ Went(r, "indexed", req[r].key, req[r].todo, req[r].members, req[r].new, req[r].jti)
      /\ keyIndex' = [keyIndex EXCEPT ![k] = (@ \cup {j}) \ expired]
      /\ keyMissed' = IF KeyIndexRead(k) THEN keyMissed \cup {j} ELSE keyMissed
      /\ UNCHANGED <<status, revoked, agentLock, keyLock, token, delivered, expired,
                     agentIndex, agentMissed, blacklist>>
  BY <1>4, StepsGo DEF ExchangeIndexKey, rows, locks, tokens
<1>6. token[j].key = k
  BY <1>1, <1>2, <1>4 DEF Carries
<1>7. /\ \A x \in Key \ {k} : keyIndex'[x] = keyIndex[x]
      /\ keyIndex'[k] = (keyIndex[k] \cup {j}) \ expired
  BY <1>5 DEF TypeOK
<1>8. KeyDone \subseteq KeyDone' /\ AgentDone' = AgentDone /\ expired \subseteq KeyDone'
  BY <1>5 DEF AgentDone, KeyDone
<1>9. KeyIndexRead(k) => j \in KeyDone'
  BY <1>5 DEF KeyDone
<1>10. \A i \in Jti \ {j} : Entered(i)' => Entered(i)
  BY <1>4, <1>5 DEF Went, Entered
<1>12. /\ \A x \in Key : KeyPast(x)' => KeyPast(x)
       /\ \A x \in Agent : AgentPast(x)' => AgentPast(x)
  BY <1>3, <1>5 DEF Went, KeyPast, AgentPast, Revoking, Cascade
<1>13. ASSUME NEW s \in Session, req'[s] # Idle PROVE Holds(s)' /\ ReadAll(s)'
  <2>1. CASE s = r
    BY <1>2, <1>3, <1>5, <2>1 DEF Went, Holds, ReadAll, Cascade
  <2>2. CASE s # r
    <3>1. req'[s] = req[s] /\ Holds(s) /\ ReadAll(s) /\ req[s] \in InFlight /\ Coherent(req[s])
      BY <1>5, <1>13, <2>2, TypedRequest DEF Went, SweepInv, Requests
    <3>2. req[s].agent \in Agent /\ req[s].key \in Key \cup {None}
      BY <3>1, InFlightFields
    <3>3. Holds(s)'
      BY <1>5, <3>1 DEF Holds, SweepsKey
    <3>4. ASSUME req[s].pc = "sweep" PROVE ReadAll(s)'
      <4>1. CASE req[s].key = None
        BY <1>5, <1>8, <3>1, <4>1 DEF ReadAll, Members, SweepsKey
      <4>2. CASE req[s].key # None /\ req[s].key # k
        <5>1. keyIndex'[req[s].key] = keyIndex[req[s].key]
          BY <1>7, <3>2, <4>2
        <5> QED
          BY <1>8, <3>1, <4>2, <5>1 DEF ReadAll, Members, SweepsKey
      <4>3. CASE req[s].key # None /\ req[s].key = k
        <5>1. keyLock[k] = s /\ req[s].op \in Revoking
          BY <3>1, <3>4, <4>3 DEF Holds, SweepsKey, Coherent, Revoking
        <5>2. KeyIndexRead(k)
          BY <3>4, <5>1 DEF KeyIndexRead
        <5>3. j \in KeyDone'
          BY <1>9, <5>2
        <5> QED
          BY <1>7, <1>8, <3>1, <4>3, <5>3 DEF ReadAll, Members, SweepsKey
      <4> QED
        BY <4>1, <4>2, <4>3
    <3>5. ReadAll(s)'
      BY <3>1, <3>4 DEF ReadAll
    <3> QED
      BY <3>3, <3>5
  <2> QED
    BY <2>1, <2>2
<1>14. Indexed'
  <2>1. ASSUME NEW i \in Jti, Entered(i)'
        PROVE  i \in keyIndex'[token'[i].key] \cup KeyDone'
    <3>1. CASE i = j
      BY <1>5, <1>6, <1>7, <1>8, <3>1
    <3>2. CASE i # j
      <4>1. Entered(i)
        BY <1>10, <2>1, <3>2
      <4>2. token[i].key \in Key
        BY <4>1, EnteredMinted DEF Subject
      <4>3. i \in keyIndex[token[i].key] \cup KeyDone
        BY <4>1 DEF SweepInv, Indexed
      <4> QED
        BY <1>5, <1>7, <1>8, <4>2, <4>3
    <3> QED
      BY <3>1, <3>2
  <2> QED
    BY <1>5, <1>8, <2>1 DEF SweepInv, Indexed
<1>15. ASSUME NEW x \in Key, KeyPast(x)' PROVE KeySwept(x)'
  <2>1. KeyPast(x) /\ KeySwept(x)
    BY <1>12, <1>15 DEF SweepInv
  <2>2. x = k => j \in KeyDone'
    <3>1. x = k => KeyIndexRead(k)
      BY <2>1 DEF KeyPast, KeyIndexRead
    <3> QED
      BY <1>9, <3>1
  <2> QED
    BY <1>5, <1>6, <1>8, <1>10, <2>1, <2>2 DEF KeySwept
<1>16. ASSUME NEW x \in Agent, AgentPast(x)' PROVE AgentSwept(x)'
  <2>1. AgentSwept(x)
    BY <1>12, <1>16 DEF SweepInv
  <2> QED
    BY <1>5, <1>8, <2>1 DEF AgentSwept
<1> QED
  BY <1>13, <1>14, <1>15, <1>16 DEF SweepInv

(***************************************************************************)
(* A request ends: with its answer, at its commit, or by a rollback.       *)
(***************************************************************************)
LEMMA CommitRows ==
    ASSUME RequestInv, NEW r \in Session, req[r] # Idle, Apply(r)
    PROVE  /\ \A a \in Agent : status'[a] = "DECOMMISSIONED" =>
                 status[a] = "DECOMMISSIONED"
                    \/ (agentLock[a] = r /\ req[r].op \in Cascade)
           /\ \A k \in revoked' : k \in revoked
                 \/ (k \in Key /\ keyLock[k] = r /\ req[r].op \in Revoking)
<1>1. ASSUME NEW a \in Agent, status'[a] = "DECOMMISSIONED", agentLock[a] = r
      PROVE  req[r].op \in Cascade
  <2>1. NewStatus(req[r].op) = "DECOMMISSIONED"
    BY <1>1 DEF Apply
  <2>2. req[r].op \in StatusOps
    BY <1>1 DEF RequestInv, AgentLocks
  <2> QED
    BY <2>1, <2>2 DEF NewStatus, StatusOps, Cascade
<1>2. \A a \in Agent : agentLock[a] # r => status'[a] = status[a]
  BY DEF Apply
<1>3. \A k \in revoked' : k \in revoked
         \/ (k \in Key /\ keyLock[k] = r /\ req[r].op \in Revoking)
  BY DEF Apply
<1> QED
  BY <1>1, <1>2, <1>3

LEMMA CommitSweepInv ==
    ASSUME RequestInv, RequestInv', SweepInv, NEW r \in Session,
           Commit(r) \/ Abort(r)
    PROVE  SweepInv'
<1> USE DEF RequestInv
<1>1. Release(r) /\ UNCHANGED <<tokens, index, blacklist>>
  BY DEF Commit, Abort, Apply, index, tokens
<1>2. /\ \A a \in Agent : /\ agentLock'[a] # r
                          /\ \A s \in Session \ {r} : agentLock'[a] = s <=> agentLock[a] = s
      /\ \A k \in Key : /\ keyLock'[k] # r
                        /\ \A s \in Session \ {r} : keyLock'[k] = s <=> keyLock[k] = s
      /\ req'[r] = Idle
      /\ \A s \in Session \ {r} : req'[s] = req[s]
  BY <1>1, ReleaseLocks
<1>3. req'[r].pc # "indexed"
  BY <1>2 DEF Idle
<1>4. CASE Commit(r)
  <2>1. Apply(r) /\ req[r].pc = "swept" /\ req[r] # Idle
    BY <1>4, TypedRequest DEF Commit
  <2>2. /\ \A a \in Agent : status'[a] = "DECOMMISSIONED" => AgentPast(a)
        /\ \A k \in Key : k \in revoked' => KeyPast(k)
    BY <2>1, CommitRows DEF AgentPast, KeyPast
  <2> QED
    BY <1>1, <1>2, <1>3, <2>2, QuietFrame
<1>5. CASE Abort(r)
  <2>1. status' = status /\ revoked' = revoked
    BY <1>5 DEF Abort, rows
  <2>2. /\ \A a \in Agent : status'[a] = "DECOMMISSIONED" => AgentPast(a)
        /\ \A k \in Key : k \in revoked' => KeyPast(k)
    BY <2>1 DEF AgentPast, KeyPast
  <2> QED
    BY <1>1, <1>2, <1>3, <2>2, QuietFrame
<1> QED
  BY <1>4, <1>5

LEMMA AnswerSweepInv ==
    ASSUME RequestInv, RequestInv', SweepInv, NEW r \in Session, ExchangeAnswer(r)
    PROVE  SweepInv'
<1> USE DEF RequestInv
<1>1. /\ req' = [req EXCEPT ![r] = Idle] /\ req[r].pc = "indexed"
      /\ delivered' = delivered \cup {req[r].jti}
      /\ UNCHANGED <<status, revoked, agentLock, keyLock, token, expired, agentIndex,
                     keyIndex, agentMissed, keyMissed, blacklist>>
  BY DEF ExchangeAnswer, rows, locks, index, missed
<1>2. /\ req'[r] = Idle
      /\ \A s \in Session \ {r} : req'[s] = req[s]
  BY <1>1 DEF TypeOK
<1>3. AgentDone' = AgentDone /\ KeyDone' = KeyDone
  BY <1>1 DEF AgentDone, KeyDone
<1>4. \A j \in Jti : Entered(j)' => Entered(j)
  BY <1>1, <1>2 DEF Entered, Idle
<1>5. /\ \A a \in Agent : agentLock'[a] # r
      /\ \A k \in Key : keyLock'[k] # r
  BY <1>2 DEF AgentLocks, KeyLocks
<1>6. /\ \A a \in Agent : status'[a] = "DECOMMISSIONED" => AgentPast(a)
      /\ \A k \in Key : k \in revoked' => KeyPast(k)
  BY <1>1 DEF AgentPast, KeyPast
<1> QED
  BY <1>1, <1>2, <1>3, <1>4, <1>5, <1>6, SweepFrame

(***************************************************************************)
(* A cycle of the reaper cut short: what its sweep left is missed.         *)
(***************************************************************************)
LEMMA ReapSweepInv ==
    ASSUME RequestInv, RequestInv', SweepInv, ReapDespiteError
    PROVE  SweepInv'
<1> USE DEF RequestInv
<1>0. PICK r \in Session : r = Reaper
  BY DEF Session
<1>1. Apply(r) /\ req[r].pc \in {"range", "sweep"}
  BY <1>0 DEF ReapDespiteError
<1>2. req[r] # Idle /\ Holds(r) /\ ReadAll(r) /\ req[r] \in InFlight
  BY <1>1, TypedRequest DEF SweepInv
<1>3. req[r].agent \in Agent /\ req[r].key \in Key \cup {None}
  BY <1>2, InFlightFields
<1>4. PICK left : left = (IF req[r].pc = "range" THEN Members(req[r]) ELSE req[r].members)
                            \ (blacklist \cup expired)
  OBVIOUS
<1>5. IF SweepsKey(req[r])
      THEN keyMissed' = keyMissed \cup left /\ agentMissed' = agentMissed
      ELSE agentMissed' = agentMissed \cup left /\ keyMissed' = keyMissed
  BY <1>0, <1>4 DEF ReapDespiteError
<1>6. Release(r) /\ UNCHANGED <<token, delivered, expired, agentIndex, keyIndex, blacklist>>
  BY <1>1 DEF Apply, tokens
<1>7. /\ \A a \in Agent : /\ agentLock'[a] # r
                          /\ \A s \in Session \ {r} : agentLock'[a] = s <=> agentLock[a] = s
      /\ \A k \in Key : /\ keyLock'[k] # r
                        /\ \A s \in Session \ {r} : keyLock'[k] = s <=> keyLock[k] = s
      /\ req'[r] = Idle
      /\ \A s \in Session \ {r} : req'[s] = req[s]
  BY <1>6, ReleaseLocks
<1>8. AgentDone \subseteq AgentDone' /\ KeyDone \subseteq KeyDone'
  BY <1>5, <1>6 DEF AgentDone, KeyDone
<1>9. \A j \in Jti : Entered(j)' => Entered(j)
  BY <1>6, <1>7 DEF Entered, Idle
<1>10. ASSUME NEW k \in Key, k \in revoked' PROVE KeyPast(k) \/ KeySwept(k)'
  <2>1. k \in revoked \/ (keyLock[k] = r /\ req[r].op \in Revoking)
    BY <1>1, <1>2, <1>10, CommitRows
  <2>2. ASSUME req[r].key = k PROVE KeySwept(k)'
    <3>1. SweepsKey(req[r]) /\ Members(req[r]) = keyIndex[k]
      BY <2>2, ConstantsAssumption DEF SweepsKey, Members
    <3>2. keyIndex[k] \subseteq KeyDone'
      BY <1>1, <1>2, <1>4, <1>5, <1>6, <3>1 DEF ReadAll, KeyDone
    <3>3. ASSUME NEW j \in Jti, Entered(j)', token'[j].key = k PROVE j \in KeyDone'
      <4>1. j \in keyIndex[k] \cup KeyDone
        BY <1>6, <1>9, <3>3 DEF SweepInv, Indexed
      <4> QED
        BY <1>8, <3>2, <4>1
    <3> QED
      BY <3>3 DEF KeySwept
  <2> QED
    BY <2>1, <2>2 DEF KeyPast
<1>11. ASSUME NEW a \in Agent, status'[a] = "DECOMMISSIONED"
       PROVE  AgentPast(a) \/ AgentSwept(a)'
  <2>1. status[a] = "DECOMMISSIONED" \/ (agentLock[a] = r /\ req[r].op \in Cascade)
    BY <1>1, <1>2, <1>11, CommitRows
  <2>2. ASSUME agentLock[a] = r PROVE AgentSwept(a)'
    <3>1. ~ SweepsKey(req[r]) /\ Members(req[r]) = agentIndex[a]
      BY <2>2 DEF AgentLocks, SweepsKey, Members
    <3>2. agentIndex[a] \subseteq AgentDone'
      BY <1>1, <1>2, <1>4, <1>5, <1>6, <3>1 DEF ReadAll, AgentDone
    <3>3. ASSUME NEW j \in Jti, token'[j] # None, token'[j].agent = a PROVE j \in AgentDone'
      <4>1. j \in agentIndex[a] \cup AgentDone
        BY <1>6, <3>3 DEF SweepInv, Indexed
      <4> QED
        BY <1>8, <3>2, <4>1
    <3> QED
      BY <3>3 DEF AgentSwept
  <2> QED
    BY <2>1, <2>2 DEF AgentPast
<1> QED
  BY <1>6, <1>7, <1>8, <1>9, <1>10, <1>11, SweepFrame

LEMMA ClockSweepInv ==
    ASSUME RequestInv, RequestInv', SweepInv,
           \/ \E j \in Jti : Expire(j)
           \/ \E a \in Ephemeral : DecommissionAtPasses(a)
           \/ UNCHANGED vars
    PROVE  SweepInv'
<1>1. /\ UNCHANGED <<status, revoked, agentLock, keyLock, token, delivered, agentIndex,
                     keyIndex, blacklist, req>>
      /\ AgentDone \subseteq AgentDone' /\ KeyDone \subseteq KeyDone'
  BY DEF Expire, DecommissionAtPasses, vars, rows, locks, tokens, index, missed, Forget,
         AgentDone, KeyDone
<1>2. PICK r \in Session : r = Reaper
  BY DEF Session
<1>3. req'[r] # Idle => Holds(r)' /\ ReadAll(r)'
  <2> SUFFICES ASSUME req[r] # Idle PROVE Holds(r)' /\ ReadAll(r)'
    BY <1>1
  <2>1. Holds(r) /\ ReadAll(r)
    BY DEF SweepInv
  <2> QED
    BY <1>1, <2>1 DEF Holds, ReadAll, Members, SweepsKey
<1>4. /\ \A k \in Key : (\/ k \in revoked'
                         \/ /\ keyLock'[k] = r
                            /\ req'[r].op \in Revoking
                            /\ ~ (req'[r].pc \in {"range", "sweep"} /\ req'[r].key = k))
                           => KeyPast(k)
      /\ \A a \in Agent : (\/ status'[a] = "DECOMMISSIONED"
                           \/ /\ agentLock'[a] = r
                              /\ req'[r].op \in Cascade \cup {"suspend"}
                              /\ req'[r].pc = "swept")
                             => AgentPast(a)
  BY <1>1 DEF KeyPast, AgentPast
<1>5. \A j \in Jti : Entered(j)' => Entered(j)
  BY <1>1 DEF Entered
<1> QED
  BY <1>1, <1>3, <1>4, <1>5, SweepFrame

LEMMA SweepInvStep == RequestInv /\ RequestInv' /\ SweepInv /\ [Next]_vars => SweepInv'
<1> SUFFICES ASSUME RequestInv, RequestInv', SweepInv, [Next]_vars PROVE SweepInv'
  OBVIOUS
<1>1. Request \subseteq Session /\ Reaper \in Session
  BY DEF Session
<1>2. ASSUME NEW r \in Request,
             \/ \E a \in Agent, p \in Registered \cup {None} : BeginRegister(r, a, p)
             \/ \E op \in Operation, a \in Agent : BeginAgent(r, op, a)
             \/ \E op \in Operation, k \in KeyRows : BeginKey(r, op, k)
      PROVE  SweepInv'
  BY <1>1, <1>2, BeginningSweepInv
<1>3. CASE \E a \in Agent : BeginAgent(Reaper, "reap", a)
  BY <1>1, <1>3, BeginningSweepInv
<1>4. ASSUME NEW r \in Session, Continue(r) PROVE SweepInv'
  BY <1>4, QuietSweepInv, SweepingSweepInv, MintSweepInv, IndexKeySweepInv, CommitSweepInv,
     AnswerSweepInv DEF Continue
<1>5. ASSUME NEW r \in Session, Abort(r) PROVE SweepInv'
  BY <1>5, CommitSweepInv
<1>6. CASE ReapDespiteError
  BY <1>6, ReapSweepInv
<1>7. CASE \/ \E j \in Jti : Expire(j)
           \/ \E a \in Ephemeral : DecommissionAtPasses(a)
           \/ UNCHANGED vars
  BY <1>7, ClockSweepInv
<1> QED
  BY <1>2, <1>3, <1>4, <1>5, <1>6, <1>7 DEF Next

LEMMA InitSweepInv == Init => SweepInv
<1> SUFFICES ASSUME Init PROVE SweepInv
  OBVIOUS
<1>1. /\ \A r \in Session : req[r] = Idle
      /\ delivered = {} /\ revoked = {}
      /\ \A j \in Jti : token[j] = None
      /\ \A k \in Key : keyLock[k] = None
      /\ \A a \in Agent : agentLock[a] = None /\ status[a] = None
  BY DEF Init
<1>2. None \notin Session /\ None # "DECOMMISSIONED"
  BY ConstantsAssumption DEF Session, Status
<1>3. \A j \in Jti : ~ Entered(j)
  BY <1>1 DEF Entered, Idle
<1> QED
  BY <1>1, <1>2, <1>3 DEF SweepInv, Indexed, KeyPast, AgentPast

(***************************************************************************)
(* The invariant of the reverse indexes and of the sweeps that read them   *)
(* (core/revocation.py).                                                   *)
(***************************************************************************)
THEOREM SweepInvariance == Spec => []SweepInv
BY InitSweepInv, SweepInvStep, RequestInvariance, PTL DEF Spec

(***************************************************************************)
(* "So a later cascade revoke can find every token": however exchanges,    *)
(* sweeps and failures overlap, an accepted token is in both indexes or    *)
(* was missed by a sweep that had read the index before.                   *)
(***************************************************************************)
THEOREM IndexesComplete == Spec => []IndexComplete
<1>1. ASSUME RequestInv, SweepInv PROVE IndexComplete
  <2>1. ASSUME NEW j \in Accepted
        PROVE  /\ j \in agentIndex[token[j].agent] \/ j \in agentMissed
               /\ j \in keyIndex[token[j].key] \/ j \in keyMissed
    <3>1. j \in Jti /\ token[j] # None /\ Entered(j) /\ j \notin blacklist \cup expired
      BY <1>1 DEF Accepted, Entered, RequestInv, Minted, TypeOK
    <3> QED
      BY <1>1, <3>1 DEF SweepInv, Indexed, AgentDone, KeyDone
  <2> QED
    BY <2>1 DEF IndexComplete
<1> QED
  BY <1>1, RequestInvariance, SweepInvariance, PTL

(***************************************************************************)
(* "Any access token already exchanged from this key stops working right   *)
(* now too": under any overlap of revoke_key, decommissions, rotations and *)
(* exchanges, all tokens but those the sweep missed.                       *)
(***************************************************************************)
THEOREM RevokedKeysDead == Spec => []RevokedKeyDead
<1>1. ASSUME RequestInv, SweepInv PROVE RevokedKeyDead
  <2>1. ASSUME NEW j \in Accepted, token[j].key \in revoked PROVE j \in keyMissed
    <3>1. j \in Jti /\ Entered(j) /\ j \notin blacklist \cup expired
      BY <1>1 DEF Accepted, Entered, RequestInv, TypeOK
    <3>2. PICK k \in Key : k = token[j].key
      BY <1>1, <2>1 DEF RequestInv, TypeOK
    <3>3. KeySwept(k)
      BY <1>1, <2>1, <3>2 DEF SweepInv, KeyPast
    <3> QED
      BY <3>1, <3>2, <3>3 DEF KeySwept, KeyDone
  <2> QED
    BY <2>1 DEF RevokedKeyDead
<1> QED
  BY <1>1, RequestInvariance, SweepInvariance, PTL

(***************************************************************************)
(* Only a commit changes the status of an agent.                           *)
(***************************************************************************)
LEMMA WhoWritesStatus ==
    ASSUME RequestInv, [Next]_vars, NEW a \in Agent, status'[a] # status[a]
    PROVE  \E r \in Session :
              /\ Commit(r) \/ (r = Reaper /\ ReapDespiteError)
              /\ agentLock[a] = r
              /\ status'[a] = NewStatus(req[r].op)
<1>1. ASSUME NEW r \in Session, Commit(r) \/ (r = Reaper /\ ReapDespiteError)
      PROVE  agentLock[a] = r /\ status'[a] = NewStatus(req[r].op)
  BY <1>1 DEF Commit, ReapDespiteError, Apply
<1>2. Reaper \in Session
  BY DEF Session
<1>3. CASE \E r \in Session : Commit(r)
  BY <1>1, <1>3
<1>4. CASE ReapDespiteError
  BY <1>1, <1>2, <1>4
<1>5. CASE \/ \E r \in Request : \/ \E x \in Agent, p \in Registered \cup {None} : BeginRegister(r, x, p)
                                 \/ \E op \in Operation, x \in Agent : BeginAgent(r, op, x)
                                 \/ \E op \in Operation, k \in KeyRows : BeginKey(r, op, k)
           \/ \E x \in Agent : BeginAgent(Reaper, "reap", x)
           \/ \E r \in Session : Abort(r)
           \/ \E j \in Jti : Expire(j)
           \/ \E x \in Ephemeral : DecommissionAtPasses(x)
           \/ UNCHANGED vars
  BY <1>5 DEF BeginRegister, BeginAgent, BeginKey, Abort, Expire, DecommissionAtPasses, vars,
              rows
<1>6. CASE \E r \in Session : Continue(r) /\ ~ Commit(r)
  BY <1>6 DEF Continue, DecommissionKeys, DeactivateKey, InsertKey, UpdateStatus, SweepRange,
              SweepRevoke, ExchangeMint, SweepDelete, ExchangeUse, ExchangeIndexKey,
              ExchangeAnswer, rows
<1> QED
  BY <1>3, <1>4, <1>5, <1>6 DEF Next

(***************************************************************************)
(* suspend_agent: at its commit all the agent's tokens are dead, but for   *)
(* those its sweep missed.                                                 *)
(***************************************************************************)
THEOREM SuspensionCutsOff == Spec => SuspendCutsOff
<1>1. ASSUME RequestInv, RequestInv', SweepInv, [Next]_vars,
             NEW a \in Agent, status[a] # "SUSPENDED", status'[a] = "SUSPENDED",
             NEW j \in Accepted', token'[j].agent = a
      PROVE  j \in agentMissed
  <2>1. PICK r \in Session :
              /\ Commit(r) \/ (r = Reaper /\ ReapDespiteError)
              /\ agentLock[a] = r
              /\ status'[a] = NewStatus(req[r].op)
    BY <1>1, WhoWritesStatus
  <2>2. req[r].op \in StatusOps /\ req[r] # Idle
    BY <1>1, <2>1 DEF RequestInv, AgentLocks
  <2>3. req[r].op = "suspend"
    BY <1>1, <2>1, <2>2 DEF NewStatus, StatusOps, Cascade
  <2>4. r # Reaper
    <3>1. Holds(r)
      BY <1>1, <2>2 DEF SweepInv
    <3> QED
      BY <2>3, <3>1, ConstantsAssumption DEF Holds
  <2>5. req[r].pc = "swept" /\ UNCHANGED <<tokens, blacklist>>
    BY <2>1, <2>4 DEF Commit, Apply
  <2>6. AgentSwept(a)
    BY <1>1, <2>1, <2>3, <2>5 DEF SweepInv, AgentPast
  <2>7. j \in Accepted /\ token[j].agent = a
    BY <1>1, <2>5 DEF Accepted, tokens
  <2>8. j \in Jti /\ token[j] # None /\ j \notin blacklist \cup expired
    BY <1>1, <2>7 DEF Accepted, RequestInv, Minted, TypeOK
  <2> QED
    BY <2>6, <2>7, <2>8 DEF AgentSwept, AgentDone
<1>2. ASSUME RequestInv, RequestInv', SweepInv, [Next]_vars
      PROVE  [\A a \in Agent :
                 (status[a] # "SUSPENDED" /\ status'[a] = "SUSPENDED") =>
                     \A j \in Accepted' : token'[j].agent = a => j \in agentMissed]_vars
  BY <1>1, <1>2
<1> QED
  BY <1>2, RequestInvariance, SweepInvariance, PTL DEF Spec, SuspendCutsOff

-----------------------------------------------------------------------------
(***************************************************************************)
(* A step of request r that changes no row.                                *)
(***************************************************************************)
LEMMA RowFrame ==
    ASSUME RequestInv, RequestInv', RowInv, NEW r \in Session,
           \A s \in Session \ {r} : req'[s] = req[s],
           \A k \in Key : \A s \in Session \ {r} : keyLock'[k] = s <=> keyLock[k] = s,
           UNCHANGED <<status, owner, active, revoked, lateKeys>>,
           req'[r] # Idle => Listed(r)' /\ Rooted(r)',
           req'[r] # Idle =>
              \A s \in Session \ {r} : req[s] # Idle =>
                  /\ req[s].op = "register" => req'[r].agent # req[s].agent
                  /\ req[s].new # None => req'[r].new # req[s].new,
           \A k \in Key : keyLock'[k] # None => owner[k] # None
    PROVE  RowInv'
<1>1. ASSUME NEW s \in Session, req'[s] # Idle, s # r
      PROVE  Listed(s)' /\ Rooted(s)'
  <2>1. req'[s] = req[s] /\ Listed(s) /\ Rooted(s)
    BY <1>1 DEF RowInv
  <2>2. Listed(s)'
    <3>1. ActiveKeys(req[s].agent) = {k \in active' : owner'[k] = req[s].agent}
      BY DEF ActiveKeys
    <3>2. {k \in Key : keyLock[k] = s} = {k \in Key : keyLock'[k] = s}
      BY <1>1
    <3> QED
      BY <2>1, <3>1, <3>2 DEF Listed, ActiveKeys, SweepsKey
  <2>3. Rooted(s)'
    BY <1>1, <2>1 DEF Rooted, KeyRows
  <2> QED
    BY <2>2, <2>3
<1> QED
  BY <1>1 DEF RowInv, KeyRows, ActiveKeys

LEMMA BeginRowInv ==
    ASSUME RequestInv, RequestInv', RowInv, NEW r \in Session, req[r] = Idle,
           NEW op, NEW a \in Agent, NEW k \in Key \cup {None},
           IF op = "register" THEN FreshAgent(a) ELSE status[a] # None,
           k # None => owner[k] # None,
           req' = [req EXCEPT ![r] = Started(op, a, k)],
           UNCHANGED <<rows, locks, tokens, index, blacklist>>
    PROVE  RowInv'
<1>1. /\ \A s \in Session \ {r} : req'[s] = req[s]
      /\ req'[r] # Idle
      /\ req'[r].pc = "begun" /\ req'[r].op = op /\ req'[r].agent = a
      /\ req'[r].key = k /\ req'[r].todo = {} /\ req'[r].new = None
  BY BegunFields DEF RequestInv
<1>2. UNCHANGED <<status, owner, active, revoked, lateKeys, agentLock, keyLock>>
  BY DEF rows, locks
<1>3. Listed(r)'
  BY <1>1 DEF Listed
<1>4. Rooted(r)'
  <2>1. op = "register" => /\ status[a] = None
                           /\ \A s \in Session : req[s] # Idle => req[s].agent # a
    BY DEF FreshAgent, Registered
  <2> QED
    BY <1>1, <1>2, <2>1 DEF Rooted
<1>5. \A s \in Session \ {r} : req[s] # Idle =>
          /\ req[s].op = "register" => a # req[s].agent
          /\ req[s].new # None => None # req[s].new
  <2> SUFFICES ASSUME NEW s \in Session \ {r}, req[s] # Idle, req[s].op = "register"
               PROVE  a # req[s].agent
    OBVIOUS
  <2>1. status[req[s].agent] = None
    BY DEF RowInv, Rooted
  <2> QED
    BY <2>1 DEF FreshAgent
<1>6. \A x \in Key : keyLock'[x] # None => owner[x] # None
  BY <1>2 DEF RowInv
<1> QED
  BY <1>1, <1>2, <1>3, <1>4, <1>5, <1>6, RowFrame

LEMMA BeginningRowInv ==
    ASSUME RequestInv, RequestInv', RowInv, NEW r \in Session,
           \/ \E a \in Agent, p \in Registered \cup {None} : BeginRegister(r, a, p)
           \/ \E op \in Operation \cup {"reap"}, a \in Agent : BeginAgent(r, op, a)
           \/ \E op \in Operation, k \in KeyRows : BeginKey(r, op, k)
    PROVE  RowInv'
<1>1. ASSUME NEW a \in Agent, NEW p \in Registered \cup {None}, BeginRegister(r, a, p)
      PROVE  RowInv'
  <2>1. PICK op : op = "register"
    OBVIOUS
  <2>2. /\ req[r] = Idle /\ FreshAgent(a)
        /\ req' = [req EXCEPT ![r] = Started(op, a, None)]
        /\ UNCHANGED <<rows, locks, tokens, index, blacklist>>
    BY <1>1, <2>1 DEF BeginRegister, MayBegin
  <2> QED
    BY <2>1, <2>2, BeginRowInv
<1>2. ASSUME NEW op \in Operation \cup {"reap"}, NEW a \in Agent, BeginAgent(r, op, a)
      PROVE  RowInv'
  <2>1. status[a] # None /\ op # "register"
    BY <1>2 DEF BeginAgent, Registered, StatusPermits
  <2> QED
    BY <1>2, <2>1, BeginRowInv DEF BeginAgent, MayBegin
<1>3. ASSUME NEW op \in Operation, NEW k \in KeyRows, BeginKey(r, op, k)
      PROVE  RowInv'
  <2>1. owner[k] \in Agent /\ k \in Key /\ owner[k] # None
    BY DEF KeyRows, RequestInv, TypeOK
  <2>2. op # "register" /\ status[owner[k]] # None
    BY <1>3, <2>1 DEF BeginKey, KeyPermits, RowInv
  <2> QED
    BY <1>3, <2>1, <2>2, BeginRowInv DEF BeginKey, MayBegin
<1> QED
  BY <1>1, <1>2, <1>3

(***************************************************************************)
(* A request that goes on.                                                 *)
(***************************************************************************)
LEMMA GoingRowInv ==
    ASSUME RequestInv, RequestInv', RowInv, NEW r \in Session,
           \/ DecommissionKeys(r) \/ ExchangeUse(r) \/ SweepRange(r) \/ UpdateStatus(r)
           \/ SweepDelete(r) \/ ExchangeIndexKey(r)
           \/ \E j \in Jti : SweepRevoke(r, j) \/ ExchangeMint(r, j)
           \/ \E k \in Key : DeactivateKey(r, k) \/ InsertKey(r, k)
    PROVE  RowInv'
<1> USE DEF RequestInv
<1>1. req[r].pc \in {"begun", "keys", "range", "sweep", "used", "tracked"}
  BY DEF DecommissionKeys, ExchangeUse, SweepRange, UpdateStatus, SweepDelete,
         ExchangeIndexKey, SweepRevoke, ExchangeMint, DeactivateKey, InsertKey
<1>2. req[r] # Idle /\ req[r] \in InFlight /\ Coherent(req[r]) /\ Listed(r) /\ Rooted(r)
  BY <1>1, TypedRequest DEF Requests, RowInv
<1>3. req[r].agent \in Agent /\ req[r].key \in Key \cup {None} /\ req[r].todo \subseteq Key
  BY <1>2, InFlightFields
<1>4. UNCHANGED <<status, owner, active, revoked, lateKeys>>
  BY DEF DecommissionKeys, ExchangeUse, SweepRange, UpdateStatus, SweepDelete,
         ExchangeIndexKey, SweepRevoke, ExchangeMint, DeactivateKey, InsertKey, rows
<1>5. ActiveKeys(req[r].agent) \subseteq KeyRows
  BY DEF ActiveKeys, RowInv
<1>6. \A s \in Session \ {r} : req[s] # Idle =>
          /\ req[s].op = "register" => req[r].agent # req[s].agent
          /\ req[s].new # None => req[r].new # req[s].new
  BY <1>2 DEF RowInv, Rooted
<1>7. \A k \in Key : keyLock[k] # None => owner[k] # None
  BY DEF RowInv
<1>8. CASE DecommissionKeys(r)
  <2>1. Went(r, "keys", req[r].key, ActiveKeys(req[r].agent), req[r].members,
             req[r].new, req[r].jti)
    BY <1>8, StepsGo
  <2>2. keyLock' = keyLock
    BY <1>8 DEF DecommissionKeys, locks
  <2>3. Listed(r)'
    BY <1>4, <2>1 DEF Went, Listed, ActiveKeys
  <2>4. Rooted(r)'
    BY <1>2, <1>4, <1>5, <2>1 DEF Went, Rooted, KeyRows
  <2> QED
    BY <1>4, <1>6, <1>7, <2>1, <2>2, <2>3, <2>4, RowFrame DEF Went
<1>9. CASE ExchangeUse(r) \/ ExchangeIndexKey(r) \/ \E j \in Jti : ExchangeMint(r, j)
  <2>1. PICK p, j : Went(r, p, req[r].key, req[r].todo, req[r].members, req[r].new, j)
    BY <1>9, StepsGo
  <2>2. keyLock' = keyLock /\ req[r].op \notin Cascade
    <3>1. req[r].op = "exchange"
      BY <1>2, <1>9 DEF Coherent, ExchangeUse, ExchangeIndexKey, ExchangeMint
    <3> QED
      BY <1>9, <3>1 DEF ExchangeUse, ExchangeIndexKey, ExchangeMint, locks, Cascade
  <2>3. Listed(r)'
    BY <2>1, <2>2 DEF Went, Listed
  <2>4. Rooted(r)'
    BY <1>2, <1>4, <2>1 DEF Went, Rooted, KeyRows
  <2> QED
    BY <1>4, <1>6, <1>7, <2>1, <2>2, <2>3, <2>4, RowFrame DEF Went
<1>10. CASE SweepRange(r) \/ SweepDelete(r) \/ \E j \in Jti : SweepRevoke(r, j)
  <2>1. PICK p, m : /\ Went(r, p, req[r].key, req[r].todo, m, req[r].new, req[r].jti)
                    /\ p = "swept" => req[r].op \notin Cascade \/ ~ SweepsKey(req[r])
    <3>1. CASE SweepRange(r)
      <4>1. Went(r, "sweep", req[r].key, req[r].todo, Members(req[r]) \ expired,
                 req[r].new, req[r].jti)
        BY <3>1, StepsGo
      <4> QED
        BY <4>1
    <3>2. ASSUME NEW j \in Jti, SweepRevoke(r, j)
          PROVE  \E p, m :
                    /\ Went(r, p, req[r].key, req[r].todo, m, req[r].new, req[r].jti)
                    /\ p = "swept" => req[r].op \notin Cascade \/ ~ SweepsKey(req[r])
      <4>1. Went(r, "sweep", req[r].key, req[r].todo, req[r].members \ {j},
                 req[r].new, req[r].jti)
        BY <3>2, StepsGo
      <4> QED
        BY <4>1
    <3>3. CASE SweepDelete(r)
      <4>1. PICK p : p = IF req[r].op \in Cascade /\ SweepsKey(req[r])
                         THEN "keys" ELSE "swept"
        OBVIOUS
      <4>2. Went(r, p, req[r].key, req[r].todo, req[r].members, req[r].new, req[r].jti)
        BY <3>3, <4>1, StepsGo
      <4> QED
        BY <4>1, <4>2
    <3> QED
      BY <1>10, <3>1, <3>2, <3>3
  <2>2. keyLock' = keyLock /\ req[r].pc \in {"range", "sweep"}
    BY <1>10 DEF SweepRange, SweepDelete, SweepRevoke, locks
  <2>3. Listed(r)'
    BY <1>2, <1>4, <2>1, <2>2 DEF Went, Listed, ActiveKeys, SweepsKey
  <2>4. Rooted(r)'
    BY <1>2, <1>4, <2>1 DEF Went, Rooted, KeyRows
  <2> QED
    BY <1>4, <1>6, <1>7, <2>1, <2>2, <2>3, <2>4, RowFrame DEF Went
<1>11. CASE UpdateStatus(r)
  <2>1. PICK p : p = IF req[r].op \in {"register", "activate", "jit_activate"}
                     THEN "swept" ELSE "range"
    OBVIOUS
  <2>2. Went(r, p, None, req[r].todo, req[r].members, req[r].new, req[r].jti)
    BY <1>11, <2>1, StepsGo
  <2>3. /\ keyLock' = keyLock
        /\ req[r].op \in Cascade => req[r].pc = "keys" /\ req[r].todo = {}
    BY <1>11 DEF UpdateStatus, Cascade
  <2>4. Listed(r)'
    BY <1>2, <1>4, <2>2, <2>3 DEF Went, Listed, ActiveKeys, SweepsKey
  <2>5. Rooted(r)'
    BY <1>2, <1>4, <2>2 DEF Went, Rooted, KeyRows
  <2> QED
    BY <1>4, <1>6, <1>7, <2>2, <2>3, <2>4, <2>5, RowFrame DEF Went
<1>12. ASSUME NEW k \in Key, DeactivateKey(r, k) PROVE RowInv'
  <2>1. Went(r, "range", k, req[r].todo \ {k}, req[r].members, req[r].new, req[r].jti)
    BY <1>12, StepsGo
  <2>2. /\ keyLock' = [keyLock EXCEPT ![k] = r] /\ keyLock[k] = None
        /\ req[r].op \in Cascade => req[r].pc = "keys" /\ k \in req[r].todo
        /\ k \in req[r].todo \/ k = req[r].key
    BY <1>12 DEF DeactivateKey, Revoking, Cascade
  <2>3. /\ keyLock'[k] = r
        /\ \A x \in Key \ {k} : keyLock'[x] = keyLock[x]
        /\ \A x \in Key : \A s \in Session \ {r} : keyLock'[x] = s <=> keyLock[x] = s
    BY <2>2, ConstantsAssumption DEF TypeOK, Session
  <2>4. k # None /\ owner[k] # None
    BY <1>2, <2>2, ConstantsAssumption DEF Rooted, KeyRows
  <2>5. Listed(r)'
    BY <1>2, <1>4, <2>1, <2>2, <2>3, <2>4 DEF Went, Listed, ActiveKeys, SweepsKey
  <2>6. Rooted(r)'
    BY <1>2, <1>4, <2>1, <2>4 DEF Went, Rooted, KeyRows
  <2> QED
    BY <1>4, <1>6, <1>7, <2>1, <2>3, <2>4, <2>5, <2>6, RowFrame DEF Went
<1>13. ASSUME NEW k \in Key, InsertKey(r, k) PROVE RowInv'
  <2>1. Went(r, "swept", req[r].key, req[r].todo, req[r].members, k, req[r].jti)
    BY <1>13, StepsGo
  <2>2. /\ req[r].op \in {"issue_key", "rotate_key"} /\ FreshKey(k)
        /\ keyLock' = keyLock \/ /\ keyLock' = [keyLock EXCEPT ![req[r].key] = r]
                                 /\ keyLock[req[r].key] = None /\ req[r].key \in Key
    BY <1>2, <1>13 DEF InsertKey, Coherent
  <2>3. \A x \in Key : \A s \in Session \ {r} : keyLock'[x] = s <=> keyLock[x] = s
    BY <2>2, ConstantsAssumption DEF TypeOK, Session
  <2>4. \A x \in Key : keyLock'[x] # None => owner[x] # None
    BY <1>2, <1>7, <2>2, ConstantsAssumption DEF TypeOK, Rooted
  <2>5. Listed(r)'
    BY <2>1, <2>2 DEF Went, Listed, Cascade
  <2>6. owner[k] = None /\ \A s \in Session : req[s] # Idle => req[s].new # k
    BY <2>2 DEF FreshKey, KeyRows
  <2>7. Rooted(r)'
    BY <1>2, <1>4, <2>1, <2>2, <2>6 DEF Went, Rooted, KeyRows
  <2> QED
    BY <1>4, <1>6, <2>1, <2>3, <2>4, <2>5, <2>6, <2>7, RowFrame DEF Went
<1> QED
  BY <1>8, <1>9, <1>10, <1>11, <1>12, <1>13

(***************************************************************************)
(* A request ends and leaves the rows as they are.                         *)
(***************************************************************************)
LEMMA EndingRowInv ==
    ASSUME RequestInv, RequestInv', RowInv, NEW r \in Session,
           Abort(r) \/ ExchangeAnswer(r)
    PROVE  RowInv'
<1> USE DEF RequestInv
<1>1. UNCHANGED <<status, owner, active, revoked, lateKeys>>
  BY DEF Abort, ExchangeAnswer, rows
<1>2. /\ req'[r] = Idle
      /\ \A s \in Session \ {r} : req'[s] = req[s]
  BY DEF Abort, ExchangeAnswer, Release, TypeOK
<1>3. \A k \in Key : \A s \in Session \ {r} : keyLock'[k] = s <=> keyLock[k] = s
  BY ReleaseLocks DEF Abort, ExchangeAnswer, locks
<1>4. \A k \in Key : keyLock'[k] # None => owner[k] # None
  <2>1. \A k \in Key : keyLock'[k] # None => keyLock[k] # None
    BY DEF Abort, ExchangeAnswer, locks, Release, Unlocked, TypeOK
  <2> QED
    BY <2>1 DEF RowInv
<1> QED
  BY <1>1, <1>2, <1>3, <1>4, RowFrame

(***************************************************************************)
(* COMMIT.                                                                 *)
(***************************************************************************)
LEMMA ApplyRowInv ==
    ASSUME RequestInv, RequestInv', RowInv, NEW r \in Session,
           Apply(r), req[r].pc \in {"range", "sweep", "swept"}
    PROVE  RowInv'
<1> USE DEF RequestInv
<1>1. req[r] # Idle /\ req[r] \in InFlight /\ Listed(r) /\ Rooted(r)
  BY TypedRequest DEF RowInv
<1>2. req[r].agent \in Agent /\ req[r].new \in Key \cup {None}
  BY <1>1, InFlightFields
<1>3. PICK a \in Agent, n \in Key \cup {None} : a = req[r].agent /\ n = req[r].new
  BY <1>2
<1>4. Release(r)
  BY DEF Apply
<1>5. /\ \A x \in Agent : agentLock'[x] # r
      /\ \A k \in Key : /\ keyLock'[k] # r
                        /\ \A s \in Session \ {r} : keyLock'[k] = s <=> keyLock[k] = s
      /\ req'[r] = Idle
      /\ \A s \in Session \ {r} : req'[s] = req[s]
  BY <1>4, ReleaseLocks
<1>6. /\ \A x \in Agent : agentLock[x] # r => status'[x] = status[x]
      /\ \A x \in Agent : agentLock[x] = r => x = a /\ status'[x] = NewStatus(req[r].op)
      /\ \A k \in Key : owner'[k] = IF k = n THEN a ELSE owner[k]
      /\ active' = (active \ {k \in Key : keyLock[k] = r}) \cup ({n} \cap Key)
      /\ revoked' \subseteq revoked \cup {k \in Key : keyLock[k] = r}
      /\ lateKeys \cap active' \subseteq lateKeys'
      /\ KeysListed(a) => {n} \cap Key \subseteq lateKeys'
  BY <1>3 DEF Apply, AgentLocks
<1>7. /\ None \notin Agent /\ None \notin Status /\ None \notin Session
  BY ConstantsAssumption DEF Session
<1>8. \A x \in Agent : status[x] # None => status'[x] # None
  <2>1. \A x \in Agent : agentLock[x] = r => NewStatus(req[r].op) \in Status
    BY DEF AgentLocks, StatusOps, NewStatus, Status, Cascade
  <2> QED
    BY <1>6, <1>7, <2>1
<1>9. \A k \in Key : owner[k] # None => k # n /\ owner'[k] = owner[k]
  <2>1. n \in Key => owner[n] = None
    BY <1>1, <1>3, ConstantsAssumption DEF Rooted
  <2> QED
    BY <1>6, <2>1
<1>10. \A k \in Key : owner[k] # None => owner'[k] # None
  BY <1>9
<1>11. KeyRows \subseteq KeyRows'
  BY <1>10 DEF KeyRows
<1>12. \A x \in Agent : (x = a => KeysListed(x)) =>
           ActiveKeys(x)' \subseteq lateKeys' \cup {k \in ActiveKeys(x) \cap active' :
                                                       k \notin lateKeys /\ keyLock[k] # r}
  <2> SUFFICES ASSUME NEW x \in Agent, x = a => KeysListed(x), NEW k \in Key, k \in active',
                      owner'[k] = x
               PROVE  k \in lateKeys' \/ (/\ k \in active /\ owner[k] = x
                                          /\ k \notin lateKeys /\ keyLock[k] # r)
    BY DEF ActiveKeys, TypeOK
  <2>1. CASE k = n
    BY <1>6, <2>1
  <2>2. CASE k # n
    BY <1>6, <2>2
  <2> QED
    BY <2>1, <2>2
<1>13. ASSUME NEW s \in Session, req'[s] # Idle PROVE Listed(s)' /\ Rooted(s)'
  <2>1. s # r /\ req'[s] = req[s] /\ req[s] # Idle /\ Listed(s) /\ Rooted(s)
    BY <1>5, <1>13 DEF RowInv
  <2>2. req[s] \in InFlight /\ req[s].agent \in Agent /\ req[s].new \in Key \cup {None}
        /\ req[s].key \in Key \cup {None}
    BY <2>1, TypedRequest, InFlightFields
  <2>3. ASSUME req[s].op \in Cascade, req[s].pc # "begun"
        PROVE  Listed(s)'
    <3>1. PICK x \in Agent : x = req[s].agent
      BY <2>2
    <3>2. KeysListed(x)
      BY <2>1, <2>3, <3>1 DEF KeysListed
    <3>3. ActiveKeys(x)' \subseteq
              lateKeys' \cup req[s].todo \cup {k \in Key : keyLock'[k] = s}
      <4>1. ActiveKeys(x) \subseteq lateKeys \cup req[s].todo \cup {k \in Key : keyLock[k] = s}
        BY <2>1, <2>3, <3>1 DEF Listed
      <4>2. {k \in Key : keyLock[k] = s} \subseteq {k \in Key : keyLock'[k] = s}
        BY <1>5, <2>1
      <4> QED
        BY <1>12, <3>2, <4>1, <4>2
    <3> QED
      BY <2>1, <2>3, <3>1, <3>3 DEF Listed, ActiveKeys, SweepsKey
  <2>4. Listed(s)'
    BY <2>1, <2>3 DEF Listed
  <2>5. req[s].op = "register" => status'[req[s].agent] = None
    <3> SUFFICES ASSUME req[s].op = "register"
                 PROVE  status'[req[s].agent] = None
      OBVIOUS
    <3>1. status[req[s].agent] = None /\ req[r].agent # req[s].agent
      BY <1>1, <2>1 DEF Rooted
    <3> QED
      BY <1>3, <1>6, <2>2, <3>1
  <2>6. req[s].new # None => owner'[req[s].new] = None
    <3> SUFFICES ASSUME req[s].new # None
                 PROVE  owner'[req[s].new] = None
      OBVIOUS
    <3>1. owner[req[s].new] = None /\ req[r].new # req[s].new /\ req[s].new \in Key
      BY <1>1, <2>1, <2>2 DEF Rooted
    <3> QED
      BY <1>3, <1>6, <3>1
  <2>7. \A t \in Session \ {s} : req'[t] # Idle => req'[t] = req[t]
    BY <1>5
  <2>8. /\ req[s].op # "register" => status'[req[s].agent] # None
        /\ req[s].key # None => owner'[req[s].key] # None
        /\ req[s].todo \subseteq KeyRows'
    BY <1>8, <1>10, <1>11, <2>1, <2>2 DEF Rooted
  <2>9. Rooted(s)'
    BY <2>1, <2>5, <2>6, <2>7, <2>8 DEF Rooted
  <2> QED
    BY <2>4, <2>9
<1>14. ASSUME NEW k \in Key, owner'[k] # None PROVE status'[owner'[k]] # None
  <2>1. CASE k = n
    <3>1. req[r].op # "register" /\ status[a] # None
      BY <1>1, <1>3, <2>1, ConstantsAssumption DEF Rooted
    <3> QED
      BY <1>6, <1>8, <2>1, <3>1
  <2>2. CASE k # n
    <3>1. owner'[k] = owner[k] /\ owner[k] \in Agent /\ status[owner[k]] # None
      BY <1>6, <1>14, <2>2 DEF RowInv, TypeOK
    <3> QED
      BY <1>8, <3>1
  <2> QED
    BY <2>1, <2>2
<1>15. ASSUME NEW k \in Key, keyLock'[k] # None PROVE owner'[k] # None
  <2>1. keyLock[k] # None
    BY <1>4, <1>15 DEF Release, Unlocked, TypeOK
  <2> QED
    BY <1>10, <2>1 DEF RowInv
<1>16. active' \cup revoked' \subseteq KeyRows' /\ active' \cap revoked' = {}
  <2>1. n \in Key => n \in KeyRows' /\ n \notin KeyRows
    <3>1. n \in Key => owner[n] = None
      BY <1>1, <1>3, ConstantsAssumption DEF Rooted
    <3> QED
      BY <1>6, <1>7, <3>1 DEF KeyRows
  <2>2. {k \in Key : keyLock[k] = r} \subseteq KeyRows
    BY <1>7 DEF RowInv, KeyRows
  <2>3. active \cup revoked \subseteq KeyRows /\ active \cap revoked = {}
    BY DEF RowInv
  <2> QED
    BY <1>6, <1>11, <2>1, <2>2, <2>3
<1>17. ASSUME NEW x \in Agent, status'[x] = "DECOMMISSIONED"
       PROVE  ActiveKeys(x)' \subseteq lateKeys'
  <2>1. ASSUME status[x] = "DECOMMISSIONED" PROVE ActiveKeys(x)' \subseteq lateKeys'
    <3>1. KeysListed(x) /\ ActiveKeys(x) \subseteq lateKeys
      BY <2>1 DEF KeysListed, RowInv
    <3> QED
      BY <1>12, <3>1
  <2>2. ASSUME agentLock[x] = r, req[r].op \in Cascade
        PROVE  ActiveKeys(x)' \subseteq lateKeys'
    <3>1. x = req[r].agent /\ ~ SweepsKey(req[r])
      BY <2>2 DEF AgentLocks, SweepsKey
    <3>2. ActiveKeys(x) \subseteq lateKeys \cup {k \in Key : keyLock[k] = r}
      BY <1>1, <2>2, <3>1 DEF Listed
    <3>3. KeysListed(x)
      BY <1>1, <2>2, <3>1 DEF KeysListed
    <3> QED
      BY <1>12, <3>2, <3>3
  <2> QED
    BY <1>1, <1>17, <2>1, <2>2, CommitRows
<1> QED
  BY <1>13, <1>14, <1>15, <1>16, <1>17 DEF RowInv

LEMMA ClockRowInv ==
    ASSUME RequestInv, RequestInv', RowInv,
           \/ \E j \in Jti : Expire(j)
           \/ \E a \in Ephemeral : DecommissionAtPasses(a)
           \/ UNCHANGED vars
    PROVE  RowInv'
<1>1. UNCHANGED <<status, owner, active, revoked, lateKeys, keyLock, req>>
  BY DEF Expire, DecommissionAtPasses, vars, rows, locks
<1>2. PICK r \in Session : r = Reaper
  BY DEF Session
<1>3. ASSUME req'[r] # Idle PROVE Listed(r)' /\ Rooted(r)'
  <2>1. Listed(r) /\ Rooted(r)
    BY <1>1, <1>3 DEF RowInv
  <2> QED
    BY <1>1, <2>1 DEF Listed, Rooted, ActiveKeys, SweepsKey, KeyRows
<1>4. ASSUME req'[r] # Idle, NEW s \in Session \ {r}, req[s] # Idle
      PROVE  /\ req[s].op = "register" => req'[r].agent # req[s].agent
             /\ req[s].new # None => req'[r].new # req[s].new
  BY <1>1, <1>4 DEF RowInv, Rooted
<1>5. \A k \in Key : keyLock'[k] # None => owner[k] # None
  BY <1>1 DEF RowInv
<1> QED
  BY <1>1, <1>3, <1>4, <1>5, RowFrame

LEMMA RowInvStep == RequestInv /\ RequestInv' /\ RowInv /\ [Next]_vars => RowInv'
<1> SUFFICES ASSUME RequestInv, RequestInv', RowInv, [Next]_vars PROVE RowInv'
  OBVIOUS
<1>1. Request \subseteq Session /\ Reaper \in Session
  BY DEF Session
<1>2. ASSUME NEW r \in Request,
             \/ \E a \in Agent, p \in Registered \cup {None} : BeginRegister(r, a, p)
             \/ \E op \in Operation, a \in Agent : BeginAgent(r, op, a)
             \/ \E op \in Operation, k \in KeyRows : BeginKey(r, op, k)
      PROVE  RowInv'
  BY <1>1, <1>2, BeginningRowInv
<1>3. CASE \E a \in Agent : BeginAgent(Reaper, "reap", a)
  BY <1>1, <1>3, BeginningRowInv
<1>4. ASSUME NEW r \in Session, Continue(r) PROVE RowInv'
  BY <1>4, GoingRowInv, EndingRowInv, ApplyRowInv DEF Continue, Commit
<1>5. ASSUME NEW r \in Session, Abort(r) PROVE RowInv'
  BY <1>5, EndingRowInv
<1>6. CASE ReapDespiteError
  BY <1>1, <1>6, ApplyRowInv DEF ReapDespiteError
<1>7. CASE \/ \E j \in Jti : Expire(j)
           \/ \E a \in Ephemeral : DecommissionAtPasses(a)
           \/ UNCHANGED vars
  BY <1>7, ClockRowInv
<1> QED
  BY <1>2, <1>3, <1>4, <1>5, <1>6, <1>7 DEF Next

LEMMA InitRowInv == Init => RowInv
<1> SUFFICES ASSUME Init PROVE RowInv
  OBVIOUS
<1>1. /\ \A r \in Session : req[r] = Idle
      /\ \A k \in Key : keyLock[k] = None /\ owner[k] = None
      /\ \A a \in Agent : status[a] = None
      /\ active = {} /\ revoked = {}
  BY DEF Init
<1>2. None # "DECOMMISSIONED"
  BY ConstantsAssumption DEF Status
<1> QED
  BY <1>1, <1>2 DEF RowInv

(***************************************************************************)
(* What the agents and api_keys rows say of each other, and of the         *)
(* requests that are about to change them (services/agent_service.py,      *)
(* services/api_key_service.py).                                           *)
(***************************************************************************)
THEOREM RowInvariance == Spec => []RowInv
BY InitRowInv, RowInvStep, RequestInvariance, PTL DEF Spec

(***************************************************************************)
(* decommission_agent: once it has committed, the agent's active keys are  *)
(* the ones committed after it had listed them, and its accepted tokens    *)
(* the ones its sweep missed.                                              *)
(***************************************************************************)
THEOREM DecommissionedAgentsDead == Spec => []DecommissionedDead
<1>1. RequestInv /\ SweepInv /\ RowInv => DecommissionedDead
  <2> SUFFICES ASSUME RequestInv, SweepInv, RowInv,
                      NEW a \in Agent, status[a] = "DECOMMISSIONED"
               PROVE  /\ ActiveKeys(a) \subseteq lateKeys
                      /\ \A j \in Accepted : token[j].agent = a => j \in agentMissed
    BY DEF DecommissionedDead
  <2>1. ActiveKeys(a) \subseteq lateKeys
    BY DEF RowInv
  <2>2. AgentSwept(a)
    BY DEF SweepInv, AgentPast
  <2>3. ASSUME NEW j \in Accepted PROVE j \in Jti /\ token[j] # None
    BY DEF Accepted, RequestInv, Minted, TypeOK
  <2> QED
    BY <2>1, <2>2, <2>3 DEF AgentSwept, AgentDone, Accepted
<1> QED
  BY <1>1, RequestInvariance, SweepInvariance, RowInvariance, PTL

-----------------------------------------------------------------------------
(***************************************************************************)
(* A request that goes on is what it was; which step may start one, end    *)
(* one or go on with one.                                                  *)
(***************************************************************************)
Same(r) == /\ req[r] # Idle
           /\ req'[r].op = req[r].op
           /\ req'[r].agent = req[r].agent
           /\ req[r].op = "exchange" => req'[r].key = req[r].key

Goes(r) ==
    \/ SweepRange(r) \/ SweepDelete(r) \/ DecommissionKeys(r) \/ UpdateStatus(r)
    \/ ExchangeUse(r) \/ ExchangeIndexKey(r)
    \/ \E k \in Key : DeactivateKey(r, k) \/ InsertKey(r, k)
    \/ \E j \in Jti : SweepRevoke(r, j) \/ ExchangeMint(r, j)

Begins(r) ==
    \/ \E a \in Agent, p \in Registered \cup {None} : BeginRegister(r, a, p)
    \/ \E op \in Operation \cup {"reap"}, a \in Agent : BeginAgent(r, op, a)
    \/ \E op \in Operation, k \in KeyRows : BeginKey(r, op, k)

Ends(r) == Commit(r) \/ Abort(r) \/ ExchangeAnswer(r) \/ (r = Reaper /\ ReapDespiteError)

LEMMA Steps ==
    ASSUME [Next]_vars
    PROVE  \/ \E r \in Session : Begins(r) \/ Goes(r) \/ Ends(r)
           \/ \E j \in Jti : Expire(j)
           \/ \E a \in Ephemeral : DecommissionAtPasses(a)
           \/ UNCHANGED vars
<1>1. Request \subseteq Session /\ Reaper \in Session
  BY DEF Session
<1>2. ASSUME NEW r \in Request,
             \/ \E a \in Agent, p \in Registered \cup {None} : BeginRegister(r, a, p)
             \/ \E op \in Operation, a \in Agent : BeginAgent(r, op, a)
             \/ \E op \in Operation, k \in KeyRows : BeginKey(r, op, k)
      PROVE  Begins(r)
  BY <1>2 DEF Begins
<1>3. CASE \E a \in Agent : BeginAgent(Reaper, "reap", a)
  BY <1>1, <1>3 DEF Begins
<1>4. ASSUME NEW r \in Session, Continue(r) \/ Abort(r) PROVE Goes(r) \/ Ends(r)
  BY <1>4 DEF Continue, Goes, Ends
<1>5. CASE ReapDespiteError
  BY <1>1, <1>5 DEF Ends
<1> QED
  BY <1>1, <1>2, <1>3, <1>4, <1>5 DEF Next

LEMMA GoingSame ==
    ASSUME RequestInv, NEW r \in Session, Goes(r)
    PROVE  /\ Same(r) /\ req'[r] # Idle
           /\ \A s \in Session \ {r} : req'[s] = req[s]
           /\ UNCHANGED <<status, revoked>>
<1> USE DEF RequestInv
<1>1. req[r].pc \in {"begun", "keys", "range", "sweep", "used", "tracked"}
  BY DEF Goes, SweepRange, SweepDelete, DecommissionKeys, UpdateStatus, ExchangeUse,
         ExchangeIndexKey, DeactivateKey, InsertKey, SweepRevoke, ExchangeMint
<1>2. req[r] # Idle /\ Coherent(req[r])
  BY <1>1, TypedRequest DEF Requests
<1>3. UNCHANGED <<status, revoked>>
  BY DEF Goes, SweepRange, SweepDelete, DecommissionKeys, UpdateStatus, ExchangeUse, rows,
         ExchangeIndexKey, DeactivateKey, InsertKey, SweepRevoke, ExchangeMint
<1>4. UpdateStatus(r) => req[r].op # "exchange"
  BY <1>2 DEF UpdateStatus, Coherent, Cascade
<1>5. \A k \in Key : DeactivateKey(r, k) => req[r].op # "exchange"
  BY <1>2 DEF DeactivateKey, Coherent, Cascade
<1>6. \E p, k, t, m, n, j : /\ Went(r, p, k, t, m, n, j)
                            /\ req[r].op = "exchange" => k = req[r].key
  <2>1. CASE SweepRange(r) \/ SweepDelete(r) \/ DecommissionKeys(r) \/ ExchangeUse(r)
             \/ ExchangeIndexKey(r) \/ UpdateStatus(r)
    BY <1>4, <2>1, StepsGo
  <2>2. CASE \E k \in Key : DeactivateKey(r, k) \/ InsertKey(r, k)
    BY <1>5, <2>2, StepsGo
  <2>3. CASE \E j \in Jti : SweepRevoke(r, j) \/ ExchangeMint(r, j)
    BY <2>3, StepsGo
  <2> QED
    BY <2>1, <2>2, <2>3 DEF Goes
<1> QED
  BY <1>3, <1>6 DEF Went, Same

LEMMA EndingIdle ==
    ASSUME RequestInv, NEW r \in Session, Ends(r)
    PROVE  /\ req[r] # Idle /\ req'[r] = Idle
           /\ \A s \in Session \ {r} : req'[s] = req[s]
<1>1. req' = [req EXCEPT ![r] = Idle]
  BY DEF Ends, Commit, Abort, ExchangeAnswer, ReapDespiteError, Apply, Release
<1>2. req[r] # Idle
  BY TypedRequest DEF Ends, Commit, Abort, ExchangeAnswer, ReapDespiteError, RequestInv
<1> QED
  BY <1>1, <1>2 DEF RequestInv, TypeOK

-----------------------------------------------------------------------------
(***************************************************************************)
(* Who may undo a decommission looked at the status before it.             *)
(***************************************************************************)
LEMMA NoMoreOverwriters ==
    ASSUME RequestInv, [Next]_vars, NEW a \in Agent, status[a] = "DECOMMISSIONED"
    PROVE  Overwriters(a)' \subseteq Overwriters(a)
<1> USE DEF RequestInv
<1> SUFFICES ASSUME NEW s \in Request, req'[s] # Idle,
                    req'[s].op \in {"activate", "suspend"}, req'[s].agent = a
             PROVE  /\ req[s] # Idle
                    /\ req[s].op \in {"activate", "suspend"}
                    /\ req[s].agent = a
  BY DEF Overwriters
<1>1. s \in Session
  BY DEF Session
<1>2. ASSUME NEW r \in Session, Begins(r) PROVE req'[s] = req[s]
  <2>1. ASSUME NEW op, NEW x, NEW k, req' = [req EXCEPT ![r] = Started(op, x, k)],
               op \in {"activate", "suspend"} => x # a
        PROVE  req'[s] = req[s]
    <3>1. PICK q : q = Started(op, x, k)
      OBVIOUS
    <3>2. q.op = op /\ q.agent = x
      BY <3>1 DEF Started
    <3>3. req'[r] = q /\ \A t \in Session \ {r} : req'[t] = req[t]
      BY <2>1, <3>1 DEF TypeOK
    <3> QED
      BY <1>1, <2>1, <3>2, <3>3
  <2>2. ASSUME NEW x \in Agent, NEW p \in Registered \cup {None}, BeginRegister(r, x, p)
        PROVE  req'[s] = req[s]
    BY <2>1, <2>2 DEF BeginRegister
  <2>3. ASSUME NEW op \in Operation \cup {"reap"}, NEW x \in Agent, BeginAgent(r, op, x)
        PROVE  req'[s] = req[s]
    <3>1. op \in {"activate", "suspend"} => x # a
      BY <2>3 DEF BeginAgent, StatusPermits
    <3> QED
      BY <2>1, <2>3, <3>1 DEF BeginAgent
  <2>4. ASSUME NEW op \in Operation, NEW k \in KeyRows, BeginKey(r, op, k)
        PROVE  req'[s] = req[s]
    <3>1. op \notin {"activate", "suspend"}
      BY <2>4 DEF BeginKey, KeyPermits
    <3> QED
      BY <2>1, <2>4, <3>1 DEF BeginKey
  <2> QED
    BY <1>2, <2>2, <2>3, <2>4 DEF Begins
<1>3. ASSUME NEW r \in Session, Goes(r) \/ Ends(r)
      PROVE  Same(s) \/ req'[s] = req[s]
  BY <1>1, <1>3, GoingSame, EndingIdle
<1>4. CASE \/ \E j \in Jti : Expire(j)
           \/ \E x \in Ephemeral : DecommissionAtPasses(x)
           \/ UNCHANGED vars
  BY <1>4 DEF Expire, DecommissionAtPasses, vars
<1> QED
  BY <1>2, <1>3, <1>4, Steps DEF Same

(***************************************************************************)
(* decommission_agent is irreversible but for the blind writes of requests *)
(* that looked at the status before, and of jit_activate, which does not   *)
(* look: for any number of requests, each undoing uses one of them up.     *)
(***************************************************************************)
THEOREM DecommissionFinal == Spec => DecommissionIsFinal
<1>1. ASSUME RequestInv, SweepInv, RowInv, [Next]_vars, NEW a \in Agent,
             status[a] = "DECOMMISSIONED", status'[a] # "DECOMMISSIONED"
      PROVE  \/ Overwriters(a)' # Overwriters(a)
             \/ \E r \in Request : /\ req[r] # Idle /\ req'[r] = Idle
                                   /\ req[r].op = "jit_activate"
                                   /\ req[r].agent = a
  <2>1. PICK r \in Session : /\ Commit(r) \/ (r = Reaper /\ ReapDespiteError)
                             /\ agentLock[a] = r
                             /\ status'[a] = NewStatus(req[r].op)
    BY <1>1, WhoWritesStatus
  <2>2. req[r] # Idle /\ req'[r] = Idle
    BY <1>1, <2>1, EndingIdle DEF Ends
  <2>3. req[r].op \in StatusOps /\ req[r].agent = a
    BY <1>1, <2>1 DEF RequestInv, AgentLocks
  <2>4. Holds(r) /\ Rooted(r)
    BY <1>1, <2>2 DEF SweepInv, RowInv
  <2>5. req[r].op # "register"
    BY <1>1, <2>3, <2>4, ConstantsAssumption DEF Rooted, Status
  <2>6. req[r].op \notin Cascade
    BY <1>1, <2>1, <2>3 DEF NewStatus, StatusOps, Cascade
  <2>7. req[r].op \in {"activate", "suspend", "jit_activate"} /\ r \in Request
    BY <2>3, <2>4, <2>5, <2>6 DEF StatusOps, Cascade, Holds
  <2>8. req[r].op # "jit_activate" => r \in Overwriters(a) /\ r \notin Overwriters(a)'
    BY <2>2, <2>3, <2>7 DEF Overwriters
  <2> QED
    BY <2>2, <2>3, <2>7, <2>8
<1>2. ASSUME RequestInv, SweepInv, RowInv, [Next]_vars
      PROVE  [\A a \in Agent :
                 status[a] = "DECOMMISSIONED" =>
                    /\ Overwriters(a)' \subseteq Overwriters(a)
                    /\ \/ status'[a] = "DECOMMISSIONED"
                       \/ Overwriters(a)' # Overwriters(a)
                       \/ \E r \in Request : /\ req[r] # Idle /\ req'[r] = Idle
                                             /\ req[r].op = "jit_activate"
                                             /\ req[r].agent = a]_vars
  BY <1>1, <1>2, NoMoreOverwriters
<1> QED
  BY <1>2, RequestInvariance, SweepInvariance, RowInvariance, PTL DEF Spec, DecommissionIsFinal

-----------------------------------------------------------------------------
(***************************************************************************)
(* What no step but the answer of an exchange does, unless it revokes a    *)
(* key: deliver a token, take one back, or make an exchange of a revoked   *)
(* key.                                                                    *)
(***************************************************************************)
SameExchange(s) ==
    (req'[s] # Idle /\ req'[s].op = "exchange" /\ req'[s].key \in revoked')
        => req[s] # Idle /\ req[s].op = "exchange" /\ req[s].key = req'[s].key

TokensKept ==
    /\ delivered' = delivered
    /\ blacklist \subseteq blacklist'
    /\ expired \subseteq expired'
    /\ \A j \in Jti : token[j] # None => token'[j] = token[j]

LEMMA BeginningEscapes ==
    ASSUME RequestInv, RowInv, NEW r \in Session, Begins(r)
    PROVE  TokensKept /\ \A s \in Session : SameExchange(s)
<1>1. TokensKept /\ revoked' = revoked
  BY DEF Begins, BeginRegister, BeginAgent, BeginKey, tokens, TokensKept, rows
<1>2. ASSUME NEW op, NEW x, NEW k, req' = [req EXCEPT ![r] = Started(op, x, k)],
             op = "exchange" => k \in active
      PROVE  \A s \in Session : SameExchange(s)
  <2>1. /\ \A s \in Session \ {r} : req'[s] = req[s]
        /\ req'[r].op = op /\ req'[r].key = k
    <3>1. PICK q : q = Started(op, x, k)
      OBVIOUS
    <3>2. q.op = op /\ q.key = k
      BY <3>1 DEF Started
    <3>3. req'[r] = q /\ \A s \in Session \ {r} : req'[s] = req[s]
      BY <1>2, <3>1 DEF RequestInv, TypeOK
    <3> QED
      BY <3>2, <3>3
  <2>2. op = "exchange" => k \notin revoked'
    BY <1>1, <1>2 DEF RowInv
  <2> QED
    BY <2>1, <2>2 DEF SameExchange
<1>3. ASSUME NEW x \in Agent, NEW p \in Registered \cup {None}, BeginRegister(r, x, p)
      PROVE  \A s \in Session : SameExchange(s)
  BY <1>2, <1>3 DEF BeginRegister
<1>4. ASSUME NEW op \in Operation \cup {"reap"}, NEW x \in Agent, BeginAgent(r, op, x)
      PROVE  \A s \in Session : SameExchange(s)
  <2>1. op # "exchange"
    BY <1>4 DEF BeginAgent, StatusPermits
  <2> QED
    BY <1>2, <1>4, <2>1 DEF BeginAgent
<1>5. ASSUME NEW op \in Operation, NEW k \in KeyRows, BeginKey(r, op, k)
      PROVE  \A s \in Session : SameExchange(s)
  <2>1. op = "exchange" => k \in active
    BY <1>5 DEF BeginKey, KeyPermits
  <2> QED
    BY <1>2, <1>5, <2>1 DEF BeginKey
<1> QED
  BY <1>1, <1>3, <1>4, <1>5 DEF Begins

LEMMA GoingEscapes ==
    ASSUME RequestInv, NEW r \in Session, Goes(r)
    PROVE  TokensKept /\ \A s \in Session : SameExchange(s)
<1>1. \A s \in Session : SameExchange(s)
  BY GoingSame DEF Same, SameExchange
<1>2. /\ delivered' = delivered /\ expired' = expired
      /\ blacklist \subseteq blacklist'
  BY DEF Goes, SweepRange, SweepDelete, DecommissionKeys, UpdateStatus, ExchangeUse, tokens,
         ExchangeIndexKey, DeactivateKey, InsertKey, SweepRevoke, ExchangeMint
<1>3. ASSUME NEW j \in Jti, ExchangeMint(r, j)
      PROVE  \A i \in Jti : token[i] # None => token'[i] = token[i]
  BY <1>3 DEF ExchangeMint, FreshJti, RequestInv, TypeOK
<1>4. \A j \in Jti : token[j] # None => token'[j] = token[j]
  BY <1>3 DEF Goes, SweepRange, SweepDelete, DecommissionKeys, UpdateStatus, ExchangeUse,
              tokens, ExchangeIndexKey, DeactivateKey, InsertKey, SweepRevoke
<1> QED
  BY <1>1, <1>2, <1>4 DEF TokensKept

LEMMA EndingEscapes ==
    ASSUME RequestInv, NEW r \in Session, Ends(r), ~ ExchangeAnswer(r)
    PROVE  TokensKept /\ \A s \in Session : SameExchange(s)
<1>1. TokensKept
  BY DEF Ends, Commit, Abort, ReapDespiteError, Apply, tokens, TokensKept
<1> QED
  BY <1>1, EndingIdle DEF SameExchange

LEMMA ClockEscapes ==
    ASSUME \/ \E j \in Jti : Expire(j)
           \/ \E a \in Ephemeral : DecommissionAtPasses(a)
           \/ UNCHANGED vars
    PROVE  TokensKept /\ \A s \in Session : SameExchange(s)
<1>1. TokensKept /\ req' = req
  BY DEF Expire, DecommissionAtPasses, tokens, vars, TokensKept
<1> QED
  BY <1>1 DEF SameExchange

LEMMA EscapedFinite == TypeOK => IsFiniteSet(Escaped)
<1> SUFFICES ASSUME TypeOK PROVE IsFiniteSet(Escaped)
  OBVIOUS
<1>1. IsFiniteSet(Jti \cup Request)
  BY ConstantsAssumption, FS_Union
<1>2. Escaped \in SUBSET (Jti \cup Request)
  BY DEF Escaped, Accepted, TypeOK
<1> QED
  BY <1>1, <1>2, FS_Subset

LEMMA EscapedKept ==
    ASSUME RequestInv, RequestInv', revoked' = revoked,
           TokensKept, \A s \in Session : SameExchange(s)
    PROVE  Escaped' \subseteq Escaped
<1> USE DEF RequestInv
<1>1. \A j \in delivered : token'[j] = token[j]
  BY DEF TokensKept, Minted, TypeOK
<1>2. Accepted' \subseteq Accepted
  BY DEF Accepted, TokensKept
<1>3. Request \subseteq Session
  BY DEF Session
<1> QED
  BY <1>1, <1>2, <1>3 DEF Escaped, SameExchange, Accepted

(***************************************************************************)
(* The one token an exchange answers with takes its place.                 *)
(***************************************************************************)
LEMMA EscapedAnswer ==
    ASSUME RequestInv, RequestInv', NEW r \in Session, ExchangeAnswer(r)
    PROVE  Cardinality(Escaped') <= Cardinality(Escaped)
<1> USE DEF RequestInv
<1>1. req[r].pc = "indexed"
  BY DEF ExchangeAnswer
<1>2. req[r] # Idle /\ Coherent(req[r]) /\ Carries(req[r])
  BY <1>1, TypedRequest DEF Requests, Minted
<1>3. PICK j \in Jti : j = req[r].jti
  BY <1>1, <1>2 DEF Coherent
<1>4. req[r].op = "exchange" /\ token[j].key = req[r].key /\ r \in Request
  BY <1>1, <1>2, <1>3 DEF Coherent, Carries, Minted
<1>5. /\ delivered' = delivered \cup {j}
      /\ req' = [req EXCEPT ![r] = Idle]
      /\ UNCHANGED <<revoked, token, expired, blacklist>>
  BY <1>3 DEF ExchangeAnswer, rows
<1>6. /\ req'[r] = Idle
      /\ \A s \in Session \ {r} : req'[s] = req[s]
  BY <1>5 DEF TypeOK
<1>7. Accepted' \subseteq Accepted \cup {j}
  BY <1>5 DEF Accepted
<1>8. Request \subseteq Session
  BY DEF Session
<1>9. r \notin Escaped'
  BY <1>4, <1>6, ConstantsAssumption DEF Escaped, Accepted, TypeOK
<1>10. Escaped' \subseteq (Escaped \ {r}) \cup {j}
  BY <1>5, <1>6, <1>7, <1>8, <1>9 DEF Escaped
<1>11. r \in Escaped \/ Escaped' \subseteq Escaped \ {r}
  BY <1>2, <1>4, <1>5, <1>7, <1>8, <1>9, <1>10 DEF Escaped
<1>12. IsFiniteSet(Escaped) /\ IsFiniteSet(Escaped \ {r})
       /\ IsFiniteSet((Escaped \ {r}) \cup {j})
  BY EscapedFinite, FS_RemoveElement, FS_AddElement
<1>13. Cardinality(Escaped) \in Nat
  BY <1>12, FS_CardinalityType
<1>14. CASE r \in Escaped
  <2>1. Cardinality(Escaped \ {r}) = Cardinality(Escaped) - 1
    BY <1>12, <1>14, FS_RemoveElement
  <2>2. PICK R : R = Escaped \ {r}
    OBVIOUS
  <2>3. Cardinality(R) \in Nat
    BY <1>12, <2>2, FS_CardinalityType
  <2>4. Cardinality(R \cup {j}) <= Cardinality(R) + 1
    BY <1>12, <2>2, <2>3, FS_AddElement
  <2>5. /\ Cardinality(Escaped') <= Cardinality(R \cup {j})
        /\ Cardinality(Escaped') \in Nat /\ Cardinality(R \cup {j}) \in Nat
    BY <1>10, <1>12, <2>2, FS_Subset, FS_CardinalityType
  <2> QED
    BY <1>13, <2>1, <2>2, <2>3, <2>4, <2>5
<1>15. CASE r \notin Escaped
  <2>1. Escaped' \in SUBSET Escaped
    BY <1>11, <1>15
  <2> QED
    BY <2>1, <1>12, FS_Subset
<1> QED
  BY <1>14, <1>15

(***************************************************************************)
(* For any number of interleaved exchanges, revocations and cascades: what *)
(* had escaped when a key's revocation committed is all that ever escapes  *)
(* it (services/api_key_service.py, core/revocation.py).                   *)
(***************************************************************************)
THEOREM EscapeBounded == Spec => EscapeIsBounded
<1>1. ASSUME RequestInv, RequestInv', RowInv, [Next]_vars
      PROVE  [revoked' = revoked => Cardinality(Escaped') <= Cardinality(Escaped)]_vars
  <2> SUFFICES ASSUME revoked' = revoked
               PROVE  Cardinality(Escaped') <= Cardinality(Escaped)
    OBVIOUS
  <2>1. ASSUME NEW r \in Session, ExchangeAnswer(r)
        PROVE  Cardinality(Escaped') <= Cardinality(Escaped)
    BY <1>1, <2>1, EscapedAnswer
  <2>2. ASSUME TokensKept, \A s \in Session : SameExchange(s)
        PROVE  Cardinality(Escaped') <= Cardinality(Escaped)
    <3>1. Escaped' \in SUBSET Escaped
      BY <1>1, <2>2, EscapedKept
    <3>2. IsFiniteSet(Escaped)
      BY <1>1, EscapedFinite DEF RequestInv
    <3> QED
      BY <3>1, <3>2, FS_Subset
  <2>3. ASSUME NEW r \in Session, Begins(r) \/ Goes(r) \/ Ends(r)
        PROVE  Cardinality(Escaped') <= Cardinality(Escaped)
    BY <1>1, <2>1, <2>2, <2>3, BeginningEscapes, GoingEscapes, EndingEscapes
  <2>4. CASE \/ \E j \in Jti : Expire(j)
             \/ \E a \in Ephemeral : DecommissionAtPasses(a)
             \/ UNCHANGED vars
    BY <2>2, <2>4, ClockEscapes
  <2> QED
    BY <1>1, <2>3, <2>4, Steps
<1> QED
  BY <1>1, RequestInvariance, RowInvariance, PTL DEF Spec, EscapeIsBounded
=============================================================================
