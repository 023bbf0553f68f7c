----------------------------- MODULE AuditChain -----------------------------
(***************************************************************************)
(* The tamper-evident audit trail: AuditRepository.append, _get_chain_tip  *)
(* and verify_chain (repositories/audit_repo.py), compute_entry_hash       *)
(* (core/security.py) and the table audit_logs (models/audit_log.py).      *)
(*                                                                         *)
(* append() runs in a session of its own, whatever the caller's            *)
(* transaction does: take the organisation's advisory lock, read the tip,  *)
(* insert, commit.  Each is a round trip at which other appends can run    *)
(* and at which the append can fail; the lock is transaction scoped, so a  *)
(* rollback or a lost connection releases it.                              *)
(*                                                                         *)
(* The unique index on (org_id, sequence_number) makes an organisation's   *)
(* rows a function of the sequence number.  SHA-256 is taken as injective: *)
(* a digest is the pair it was computed from.                              *)
(***************************************************************************)
EXTENDS Integers, FiniteSets

CONSTANTS
    Org,        \* organisations
    LockKey,    \* hashtext(org_id): organisations may share a key
    Content,    \* the hashed columns: action, actor_id, causal_trace_id,
                \* outcome, details
    Unhashed,   \* the others: agent_id, actor_type, resource_type/id,
                \* parent_event_id, source_ip, user_agent
    Writer,     \* bound: append() calls in flight at a time
    MaxEntries, \* bound: no append starts once a chain has this many rows
    None

ASSUME ConstantsAssumption ==
    /\ MaxEntries \in Nat
    /\ None \notin Writer

VARIABLES
    log,    \* committed rows: org_id -> sequence_number -> row
    lock,   \* advisory locks: key -> the append that holds it
    call    \* append() calls in flight

vars == <<log, lock, call>>

Key == {LockKey[o] : o \in Org}

AUDIT_CHAIN_GENESIS == << >>

compute_entry_hash(content, prev) == <<prev, content>>

(***************************************************************************)
(* The string that is hashed: json.dumps of the hashed columns with org_id *)
(* and sequence_number.  verify_chain builds it from the stored row.  The  *)
(* details are strings, integers, booleans and lists of these in every     *)
(* caller, which JSONB returns as they were.                               *)
(***************************************************************************)
Canonical(o, s, content) == <<o, s, content>>

Seqs(o) == DOMAIN log[o]

Last(S) == CHOOSE s \in S : \A t \in S : t <= s

\* Mutant: the tip query orders the wrong way.
TipHash_Oldest(o) ==
    IF Seqs(o) = {} THEN AUDIT_CHAIN_GENESIS
                    ELSE log[o][CHOOSE s \in Seqs(o) : \A t \in Seqs(o) : s <= t].entry_hash

TipHash(o) ==
    IF Seqs(o) = {} THEN AUDIT_CHAIN_GENESIS
                    ELSE log[o][Last(Seqs(o))].entry_hash

\* Mutant: numbering starts at zero.
NextSeq_FromZero(o) == IF Seqs(o) = {} THEN 0 ELSE Last(Seqs(o)) + 1

NextSeq(o) == IF Seqs(o) = {} THEN 1 ELSE Last(Seqs(o)) + 1

(***************************************************************************)
(* verify_chain streams the rows in sequence order, each checked against   *)
(* the hash stored in the row before it, up to the first that fails.  One  *)
(* SELECT, hence one snapshot, however long the stream takes.              *)
(***************************************************************************)
PrevHash(o, s) ==
    LET before == {t \in Seqs(o) : t < s} IN
    IF before = {} THEN AUDIT_CHAIN_GENESIS
                   ELSE log[o][Last(before)].entry_hash

\* Mutant: the stored previous_hash is trusted.
LinkHolds_StoredLink(o, s) ==
    log[o][s].entry_hash =
        compute_entry_hash(Canonical(o, s, log[o][s].content),
                           log[o][s].previous_hash)

LinkHolds(o, s) ==
    log[o][s].entry_hash =
        compute_entry_hash(Canonical(o, s, log[o][s].content), PrevHash(o, s))

Broken(o) == {s \in Seqs(o) : ~ LinkHolds(o, s)}

FirstBroken(o) == CHOOSE s \in Broken(o) : \A t \in Broken(o) : s <= t

\* Mutant: the position in the stream is reported.
verify_chain_Index(o) ==
    IF Broken(o) = {}
    THEN [is_valid |-> TRUE, broken_at |-> None,
          checked |-> Cardinality(Seqs(o))]
    ELSE [is_valid |-> FALSE,
          broken_at |-> Cardinality({s \in Seqs(o) : s < FirstBroken(o)}),
          checked |-> Cardinality({s \in Seqs(o) : s <= FirstBroken(o)})]

verify_chain(o) ==
    IF Broken(o) = {}
    THEN [is_valid |-> TRUE, broken_at |-> None,
          checked |-> Cardinality(Seqs(o))]
    ELSE [is_valid |-> FALSE, broken_at |-> FirstBroken(o),
          checked |-> Cardinality({s \in Seqs(o) : s <= FirstBroken(o)})]

-----------------------------------------------------------------------------
Idle == [pc |-> "idle"]

AppendStart(w, o, content, unhashed) ==
    /\ call[w] = Idle
    /\ Cardinality(Seqs(o)) < MaxEntries
    /\ call' = [call EXCEPT ![w] = [pc |-> "begun", org |-> o,
                                    content |-> content,
                                    unhashed |-> unhashed]]
    /\ UNCHANGED <<log, lock>>

\* Mutant: the lock is not waited for.
AppendLock_NoWait(w) ==
    /\ call[w].pc = "begun"
    /\ lock' = [lock EXCEPT ![LockKey[call[w].org]] = w]
    /\ call' = [call EXCEPT ![w].pc = "locked"]
    /\ UNCHANGED log

(***************************************************************************)
(* pg_advisory_xact_lock waits until the key is free.                      *)
(***************************************************************************)
AppendLock(w) ==
    /\ call[w].pc = "begun"
    /\ lock[LockKey[call[w].org]] = None
    /\ lock' = [lock EXCEPT ![LockKey[call[w].org]] = w]
    /\ call' = [call EXCEPT ![w].pc = "locked"]
    /\ UNCHANGED log

AppendReadTip(w) ==
    /\ call[w].pc = "locked"
    /\ call' = [call EXCEPT ![w] =
                  [pc |-> "tip", org |-> @.org, content |-> @.content,
                   unhashed |-> @.unhashed, previous_hash |-> TipHash(@.org),
                   sequence_number |-> NextSeq(@.org)]]
    /\ UNCHANGED <<log, lock>>

NewEntry(q) ==
    [content       |-> q.content,
     unhashed      |-> q.unhashed,
     previous_hash |-> q.previous_hash,
     entry_hash    |-> compute_entry_hash(
                          Canonical(q.org, q.sequence_number, q.content),
                          q.previous_hash)]

Released(w) == [k \in Key |-> IF lock[k] = w THEN None ELSE lock[k]]

(***************************************************************************)
(* INSERT and COMMIT.  A row with the same sequence number would make the  *)
(* unique index refuse it.                                                 *)
(***************************************************************************)
AppendCommit(w) ==
    LET q == call[w] IN
    /\ q.pc = "tip"
    /\ q.sequence_number \notin Seqs(q.org)
    /\ log' = [log EXCEPT ![q.org] =
                 [s \in Seqs(q.org) \cup {q.sequence_number} |->
                    IF s = q.sequence_number THEN NewEntry(q)
                                             ELSE log[q.org][s]]]
    /\ lock' = Released(w)
    /\ call' = [call EXCEPT ![w] = Idle]

\* Mutant: the lock outlives the transaction.
AppendFail_KeepsLock(w) ==
    /\ call[w] # Idle
    /\ call' = [call EXCEPT ![w] = Idle]
    /\ UNCHANGED <<log, lock>>

(***************************************************************************)
(* The append fails at one of its awaits: the session rolls back.          *)
(***************************************************************************)
AppendFail(w) ==
    /\ call[w] # Idle
    /\ lock' = Released(w)
    /\ call' = [call EXCEPT ![w] = Idle]
    /\ UNCHANGED log

Init ==
    /\ log = [o \in Org |-> << >>]
    /\ lock = [k \in Key |-> None]
    /\ call = [w \in Writer |-> Idle]

AppendStep(w) ==
    \/ AppendLock(w)
    \/ AppendReadTip(w)
    \/ AppendCommit(w)

Next ==
    \E w \in Writer :
        \/ \E o \in Org, c \in Content, u \in Unhashed : AppendStart(w, o, c, u)
        \/ AppendStep(w)
        \/ AppendFail(w)

Spec == Init /\ [][Next]_vars
-----------------------------------------------------------------------------
CallState ==
    {Idle}
    \cup [pc : {"begun", "locked"}, org : Org, content : Content,
          unhashed : Unhashed]

TipState(q) ==
    /\ q.pc = "tip"
    /\ q.org \in Org
    /\ q.content \in Content
    /\ q.unhashed \in Unhashed
    /\ q.sequence_number \in Nat \ {0}

TypeOK ==
    /\ DOMAIN log = Org
    /\ \A o \in Org :
          /\ Seqs(o) \subseteq Nat \ {0}
          /\ \A s \in Seqs(o) :
                /\ log[o][s].content \in Content
                /\ log[o][s].unhashed \in Unhashed
    /\ lock \in [Key -> Writer \cup {None}]
    /\ DOMAIN call = Writer
    /\ \A w \in Writer : call[w] \in CallState \/ TipState(call[w])

(***************************************************************************)
(* A chain written by append() alone always verifies, however appends      *)
(* interleave and wherever they fail: verify_chain raises no false alarm.  *)
(***************************************************************************)
ChainIntact == \A o \in Org : verify_chain(o).is_valid

(***************************************************************************)
(* The sequence numbers of an organisation are 1..n: a failed append       *)
(* leaves no gap, and none is used twice.                                  *)
(***************************************************************************)
Contiguous ==
    \A o \in Org : \E n \in 0..Cardinality(Seqs(o)) : Seqs(o) = 1..n

(***************************************************************************)
(* The tip an append has read is still the tip when it inserts: the        *)
(* unique index on (org_id, sequence_number) never has to refuse a row,    *)
(* and the row's previous_hash is the hash of the row before it.           *)
(***************************************************************************)
TipIsCurrent ==
    \A w \in Writer :
        call[w].pc = "tip" =>
            /\ call[w].sequence_number = NextSeq(call[w].org)
            /\ call[w].previous_hash = TipHash(call[w].org)

(***************************************************************************)
(* The rows in sequence order, as the ledger callers are promised.         *)
(***************************************************************************)
Ledger == INSTANCE AuditLedger WITH
              ledger <- [o \in Org |-> [s \in Seqs(o) |-> log[o][s].content]]

(***************************************************************************)
(* append() implements the abstract ledger: one commit is one Record, and  *)
(* every other step leaves the recorded events as they are.                *)
(***************************************************************************)
ImplementsLedger == Ledger!Spec

(***************************************************************************)
(* Every append ends, one way or the other: nobody keeps the lock.         *)
(***************************************************************************)
AppendFinishes ==
    \A w \in Writer : call[w].pc = "begun" ~> call[w] = Idle

(***************************************************************************)
(* A call that started goes on, and PostgreSQL hands an advisory lock to   *)
(* its waiters in turn.  Failures are possible, never assumed.             *)
(***************************************************************************)
Fairness ==
    \A w \in Writer : WF_vars(AppendStep(w)) /\ SF_vars(AppendLock(w))

FairSpec == Spec /\ Fairness
=============================================================================
