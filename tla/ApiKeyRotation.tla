--------------------------- MODULE ApiKeyRotation ---------------------------
(***************************************************************************)
(* Zero-downtime rotation of API keys: issue_key, verify_key, rotate_key   *)
(* and revoke_key of services/api_key_service.py over the rows of          *)
(* repositories/api_key_repo.py, and the rotator of                        *)
(* worker/credential_rotator.py behind its advisory lock                   *)
(* (core/worker_lock.py).                                                  *)
(*                                                                         *)
(* The secret of key k is written k: generate_api_key makes a fresh one    *)
(* for every row and nothing but the client knows it.  Time is counted in  *)
(* units of which a transaction is a small part: no request spans a Tick.  *)
(***************************************************************************)
EXTENDS Naturals, FiniteSets

CONSTANTS
    Key,         \* bound: the keys that may ever exist
    Request,     \* bound: rotations requested by users in flight at a time
    Worker,      \* processes that run the rotator loop
    DefaultTtl,  \* API_KEY_DEFAULT_TTL_DAYS
    Ttl,         \* the ttl_days issue_key is called with
    Grace,       \* the grace periods users ask for
    WorkerGrace, \* the rotator's own: grace_period_hours = 2
    MaxTime,     \* bound on the clock
    None

Session == Request \cup Worker

(***************************************************************************)
(* A row of api_keys and, as history, the transaction that rotated to it.  *)
(***************************************************************************)
Row == [created : Nat, expires : Nat, previous : Key \cup {None},
        previousExpires : Nat, by : Session \cup {None}]

ASSUME ConstantsAssumption ==
    /\ DefaultTtl \in Nat \ {0}
    /\ Ttl \subseteq Nat
    /\ Grace \subseteq Nat
    /\ WorkerGrace \in Nat
    /\ MaxTime \in Nat
    /\ None \notin Key \cup Nat \cup Request \cup Worker
    /\ Request \cap Worker = {}
    /\ None \notin Row

VARIABLES
    now,       \* the clock
    row,       \* api_keys: the row of a key, None before it is committed
    active,    \* api_keys.is_active
    rotatedAt, \* api_keys.rotated_at
    lock,      \* row -> the transaction that updated it
    cycleLock, \* who holds the advisory lock _ROTATE_LOCK
    ran,       \* whether a rotator cycle has been run since the last Tick
    req,       \* rotations in flight
    revoked,   \* history: the keys revoke_key was called on
    failed     \* history: <<key, time>> where the rotator failed to rotate it

vars == <<now, row, active, rotatedAt, lock, cycleLock, ran, req, revoked, failed>>

Idle == [open |-> FALSE]

(***************************************************************************)
(* A transaction that rotates: the keys it read and has still to rotate,   *)
(* the grace it gives, the rows it has inserted (new key, old key and the  *)
(* time) and not committed.                                                *)
(***************************************************************************)
Insert == [new : Key, old : Key, at : Nat, by : Session]

Open == [open : {TRUE}, todo : SUBSET Key, grace : Nat,
         inserts : SUBSET Insert]

TypeOK ==
    /\ now \in Nat
    /\ row \in [Key -> Row \cup {None}]
    /\ active \subseteq Key
    /\ rotatedAt \in [Key -> Nat \cup {None}]
    /\ lock \in [Key -> Session \cup {None}]
    /\ cycleLock \in Worker \cup {None}
    /\ ran \in BOOLEAN
    /\ req \in [Session -> {Idle} \cup Open]
    /\ revoked \subseteq Key
    /\ failed \subseteq Key \X Nat

-----------------------------------------------------------------------------
Rows == {k \in Key : row[k] # None}

Inserts(r) == IF req[r] = Idle THEN {} ELSE req[r].inserts

Fresh(k) ==
    /\ k \notin Rows
    /\ \A r \in Session : \A i \in Inserts(r) : i.new # k

(***************************************************************************)
(* is_key_expired.                                                         *)
(***************************************************************************)
is_key_expired(t) == now > t

\* Mutant: rotate once the lifetime is over.
should_rotate_key_Late(k) == now - row[k].created > DefaultTtl

(***************************************************************************)
(* should_rotate_key: the last fifth of a lifetime of DefaultTtl, whatever *)
(* the key's own lifetime is.                                              *)
(***************************************************************************)
should_rotate_key(k) == 5 * (now - row[k].created) >= 4 * DefaultTtl

get_keys_needing_rotation == {k \in active : should_rotate_key(k)}

\* Mutant: the end of the grace period is not looked at.
verify_key_GraceForever(k, s) ==
    /\ k \in active
    /\ ~ is_key_expired(row[k].expires)
    /\ s \in {k, row[k].previous}

(***************************************************************************)
(* verify_key of the compound credential "k:s": the row named k, its own   *)
(* secret or, in the grace period, its predecessor's.                      *)
(***************************************************************************)
verify_key(k, s) ==
    /\ k \in active
    /\ ~ is_key_expired(row[k].expires)
    /\ \/ s = k
       \/ s = row[k].previous /\ ~ is_key_expired(row[k].previousExpires)

(***************************************************************************)
(* A secret that some active row accepts, presented with that row's key_id *)
(* (/token/exchange takes no bare secret: it names no organisation).       *)
(***************************************************************************)
Works(s) == \E k \in active : verify_key(k, s)

-----------------------------------------------------------------------------
issue_key(k, ttl) ==
    /\ Fresh(k)
    /\ row' = [row EXCEPT ![k] = [created |-> now, expires |-> now + ttl,
                                  previous |-> None, previousExpires |-> 0,
                                  by |-> None]]
    /\ active' = active \cup {k}
    /\ UNCHANGED <<now, rotatedAt, lock, cycleLock, ran, req, revoked, failed>>

(***************************************************************************)
(* rotate_key reads the old row and wants it active.                       *)
(***************************************************************************)
RotateRead(r, k, grace) ==
    /\ req[r] = Idle
    /\ k \in active
    /\ req' = [req EXCEPT ![r] = [open |-> TRUE, todo |-> {k},
                                  grace |-> grace, inserts |-> {}]]
    /\ UNCHANGED <<now, row, active, rotatedAt, lock, cycleLock, ran, revoked, failed>>

\* Mutant: every process runs the cycle.
CycleStart_NoLock(w) ==
    /\ req[w] = Idle
    /\ req' = [req EXCEPT ![w] = [open |-> TRUE,
                                  todo |-> get_keys_needing_rotation,
                                  grace |-> WorkerGrace, inserts |-> {}]]
    /\ UNCHANGED <<now, row, active, rotatedAt, lock, cycleLock, ran, revoked, failed>>

(***************************************************************************)
(* rotate_expiring_keys: one process at a time; the batch is read once and *)
(* rotate_key works on the rows of that read.                              *)
(***************************************************************************)
CycleStart(w) ==
    /\ req[w] = Idle
    /\ cycleLock = None
    /\ cycleLock' = w
    /\ req' = [req EXCEPT ![w] = [open |-> TRUE,
                                  todo |-> get_keys_needing_rotation,
                                  grace |-> WorkerGrace, inserts |-> {}]]
    /\ UNCHANGED <<now, row, active, rotatedAt, lock, ran, revoked, failed>>

(***************************************************************************)
(* store_rotation: INSERT the new row, then UPDATE the old one, which      *)
(* waits for the row.                                                      *)
(***************************************************************************)
StoreRotation(r, k, n) ==
    /\ req[r] # Idle
    /\ k \in req[r].todo
    /\ Fresh(n)
    /\ lock[k] = None
    /\ lock' = [lock EXCEPT ![k] = r]
    /\ req' = [req EXCEPT ![r].todo = @ \ {k},
                          ![r].inserts = @ \cup {[new |-> n, old |-> k,
                                                  at |-> now, by |-> r]}]
    /\ UNCHANGED <<now, row, active, rotatedAt, cycleLock, ran, revoked, failed>>

\* Mutant: the grace slot takes the new secret's hash.
NewRow_OwnHash(i, grace) ==
    [created |-> i.at, expires |-> i.at + DefaultTtl,
     previous |-> i.new, previousExpires |-> i.at + grace, by |-> i.by]

(***************************************************************************)
(* The row store_rotation leaves for the new key.                          *)
(***************************************************************************)
NewRow(i, grace) ==
    [created |-> i.at, expires |-> i.at + DefaultTtl,
     previous |-> i.old, previousExpires |-> i.at + grace, by |-> i.by]

Close(r) ==
    /\ lock' = [k \in Key |-> IF lock[k] = r THEN None ELSE lock[k]]
    /\ cycleLock' = IF cycleLock = r THEN None ELSE cycleLock
    /\ req' = [req EXCEPT ![r] = Idle]

RotateCommit(r) ==
    /\ req[r] # Idle
    /\ req[r].todo = {}
    /\ row' = [n \in Key |->
                 IF \E i \in req[r].inserts : i.new = n
                 THEN NewRow(CHOOSE i \in req[r].inserts : i.new = n, req[r].grace)
                 ELSE row[n]]
    /\ active' = (active \ {i.old : i \in req[r].inserts})
                    \cup {i.new : i \in req[r].inserts}
    /\ rotatedAt' = [k \in Key |->
                       IF \E i \in req[r].inserts : i.old = k
                       THEN now ELSE rotatedAt[k]]
    /\ ran' = (ran \/ r \in Worker)
    /\ Close(r)
    /\ UNCHANGED <<now, revoked, failed>>

(***************************************************************************)
(* What the rotation of one key raises is logged; the cycle goes on with   *)
(* the others and commits.  (If it raises after store_rotation, the key is *)
(* rotated all the same.)                                                  *)
(***************************************************************************)
RotateError(w, k) ==
    /\ req[w] # Idle
    /\ k \in req[w].todo
    /\ req' = [req EXCEPT ![w].todo = @ \ {k}]
    /\ failed' = failed \cup {<<k, now>>}
    /\ UNCHANGED <<now, row, active, rotatedAt, lock, cycleLock, ran, revoked>>

(***************************************************************************)
(* The request or the cycle fails and its transaction is rolled back.      *)
(***************************************************************************)
Abort(r) ==
    /\ req[r] # Idle
    /\ Close(r)
    /\ ran' = (ran \/ r \in Worker)
    /\ failed' = IF r \in Worker
                 THEN failed \cup ((req[r].todo \cup {i.old : i \in req[r].inserts})
                                       \X {now})
                 ELSE failed
    /\ UNCHANGED <<now, row, active, rotatedAt, revoked>>

(***************************************************************************)
(* revoke_key deactivates the row, whatever its state (what it does to     *)
(* tokens is in AgentCredentials).                                         *)
(***************************************************************************)
revoke_key(k) ==
    /\ k \in Rows
    /\ lock[k] = None
    /\ active' = active \ {k}
    /\ revoked' = revoked \cup {k}
    /\ UNCHANGED <<now, row, rotatedAt, lock, cycleLock, ran, req, failed>>

(***************************************************************************)
(* Time passes between requests.  The loop's five minutes are far less     *)
(* than a unit, so a cycle has been run in every unit, and may have        *)
(* failed.                                                                 *)
(***************************************************************************)
Tick ==
    /\ now < MaxTime
    /\ ran
    /\ \A r \in Session : req[r] = Idle
    /\ now' = now + 1
    /\ ran' = FALSE
    /\ UNCHANGED <<row, active, rotatedAt, lock, cycleLock, req, revoked, failed>>

Init ==
    /\ now = 0
    /\ row = [k \in Key |-> None]
    /\ active = {}
    /\ rotatedAt = [k \in Key |-> None]
    /\ lock = [k \in Key |-> None]
    /\ cycleLock = None
    /\ ran = FALSE
    /\ req = [r \in Session |-> Idle]
    /\ revoked = {}
    /\ failed = {}

Next ==
    \/ \E k \in Key, ttl \in Ttl : issue_key(k, ttl)
    \/ \E r \in Request, k \in Key, g \in Grace : RotateRead(r, k, g)
    \/ \E w \in Worker : CycleStart(w) \/ \E k \in Key : RotateError(w, k)
    \/ \E r \in Session, k, n \in Key : StoreRotation(r, k, n)
    \/ \E r \in Session : RotateCommit(r) \/ Abort(r)
    \/ \E k \in Key : revoke_key(k)
    \/ Tick

Spec == Init /\ [][Next]_vars
-----------------------------------------------------------------------------
(***************************************************************************)
(* "Keys are rotated BEFORE they expire, not after" (should_rotate_key):   *)
(* in every unit of the last fifth of DefaultTtl, and after, the rotator   *)
(* replaces a key or fails to.  An active key past its expiry has thus     *)
(* been failed by every cycle of those units, or was issued for less than  *)
(* the four fifths: the age that counts is that of the default lifetime.   *)
(***************************************************************************)
RotatedBeforeExpiry ==
    \A k \in active : \A t \in row[k].created .. now :
        (t < now /\ 5 * (t - row[k].created) >= 4 * DefaultTtl)
            => <<k, t>> \in failed

(***************************************************************************)
(* "After grace window expires, only the new key works": the secret of a   *)
(* rotated key is refused under every key_id once the longest grace has    *)
(* passed, however its rotation raced others and whatever became of its    *)
(* successors.                                                             *)
(***************************************************************************)
LongestGrace(t) == \E g \in Grace \cup {WorkerGrace} : now <= t + g

OldSecretBounded ==
    \A k \in Key : rotatedAt[k] # None /\ Works(k) => LongestGrace(rotatedAt[k])

(***************************************************************************)
(* Worker processes do not "race each other" (rotate_expiring_keys): their *)
(* cycles give a key one successor between them, whatever users' rotations *)
(* do meanwhile.  Between a worker and a user, or two users, nothing       *)
(* excludes a second one.                                                  *)
(***************************************************************************)
OneSuccessor ==
    \A n, m \in Rows :
        /\ n # m
        /\ {row[n].by, row[m].by} \subseteq Worker
        => row[n].previous # row[m].previous

(***************************************************************************)
(* A rotated key in its grace, none of the successors it may have got      *)
(* being rotated, revoked or expired in turn.                              *)
(***************************************************************************)
Successors(k) == {n \in Rows : row[n].previous = k}

InGrace(k) ==
    /\ rotatedAt[k] # None
    /\ \A g \in Grace \cup {WorkerGrace} : now <= rotatedAt[k] + g
    /\ \A n \in Successors(k) : /\ rotatedAt[n] = None
                                /\ n \notin revoked
                                /\ ~ is_key_expired(row[n].expires)

(***************************************************************************)
(* The server's half of the grace: however rotations race, the secret that *)
(* was rotated away is accepted by a successor, that is, by a client that  *)
(* has learnt the successor's key_id and still sends the old secret.       *)
(***************************************************************************)
GraceHonoured == \A k \in Key : InGrace(k) => Works(k)

(***************************************************************************)
(* "During the grace window (default: 1 hour), BOTH keys work": a client   *)
(* that has heard of no rotation goes on with the old key_id and secret.   *)
(***************************************************************************)
BothKeysWork ==
    \A k \in Key : InGrace(k) /\ k \notin revoked => verify_key(k, k)

(***************************************************************************)
(* "Immediately revoke a key - no grace period": the secret of a revoked   *)
(* key is refused.                                                         *)
(***************************************************************************)
RevokedIsDead == \A k \in revoked : ~ Works(k)
=============================================================================
