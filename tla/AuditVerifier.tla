--------------------------- MODULE AuditVerifier ---------------------------
(***************************************************************************)
(* The periodic replay of every audit chain (worker/audit_verifier.py      *)
(* behind core/worker_lock.py, four server processes running the loop)     *)
(* next to the appends of AuditChain, and what it is for: one stored row   *)
(* changed behind the repository's back, by someone with more rights on    *)
(* the table than the audit writer's role has (docs/threat-model.md,       *)
(* TR-004).                                                                *)
(***************************************************************************)
EXTENDS AuditChain

CONSTANTS
    Process,    \* server processes, each with its verifier loop
    Limit       \* how many organisations org_repo.list_all is asked for

(***************************************************************************)
(* The change: to what the hash covers, with or without recomputing the    *)
(* row's own entry_hash ("rehash"); the row's removal; or to the columns   *)
(* the hash does not cover, previous_hash among them (None: set to NULL).  *)
(***************************************************************************)
Kind == {"content", "rehash", "delete", "unhashed", "previous_hash"}

Change == [org : Org, seq : Nat \ {0}, kind : Kind, last : BOOLEAN]

ASSUME VerifierAssumption ==
    /\ Limit \in Nat
    /\ None \notin Process
    /\ None \notin Change

VARIABLES
    touched,    \* the Change made to the table, None before it
    holder,     \* the process that holds _VERIFIER_LOCK
    todo,       \* organisations its cycle still has to verify
    alerts      \* [org, broken_at] of every TAMPER DETECTED line logged

verifier == <<holder, todo, alerts>>

vvars == <<vars, touched, verifier>>

-----------------------------------------------------------------------------
Without(o, s) == [t \in Seqs(o) \ {s} |-> log[o][t]]

Rehashed(o, s, c) ==
    [log[o] EXCEPT
        ![s].content = c,
        ![s].entry_hash = compute_entry_hash(Canonical(o, s, c), PrevHash(o, s))]

Altered(o, s, kind) ==
    CASE kind = "content" ->
            {[log[o] EXCEPT ![s].content = c] : c \in Content \ {log[o][s].content}}
      [] kind = "rehash" ->
            {Rehashed(o, s, c) : c \in Content \ {log[o][s].content}}
      [] kind = "delete" -> {Without(o, s)}
      [] kind = "unhashed" ->
            {[log[o] EXCEPT ![s].unhashed = None]}
      [] kind = "previous_hash" ->
            {[log[o] EXCEPT ![s].previous_hash = log[o][s].entry_hash]}

Tamper(o, s, kind) ==
    /\ touched = None
    /\ s \in Seqs(o)
    /\ \E rows \in Altered(o, s, kind) : log' = [log EXCEPT ![o] = rows]
    /\ touched' = [org |-> o, seq |-> s, kind |-> kind,
                   last |-> s = Last(Seqs(o))]
    /\ UNCHANGED <<lock, call, verifier>>

-----------------------------------------------------------------------------
(***************************************************************************)
(* try_acquire, then the list of organisations: a LIMIT without an ORDER   *)
(* BY returns any that many.  A process that finds the lock taken skips    *)
(* the cycle and changes nothing.                                          *)
(***************************************************************************)
ListedOrgs ==
    {S \in SUBSET Org : \/ S = Org /\ Cardinality(Org) <= Limit
                        \/ Cardinality(S) = Limit /\ Cardinality(Org) > Limit}

CycleStart(p) ==
    /\ holder = None
    /\ holder' = p
    /\ todo' \in ListedOrgs
    /\ UNCHANGED <<vars, touched, alerts>>

Findings(o) ==
    IF verify_chain(o).is_valid THEN {}
    ELSE {[org |-> o, broken_at |-> verify_chain(o).broken_at]}

VerifyOrg(p, o) ==
    /\ holder = p
    /\ o \in todo
    /\ todo' = todo \ {o}
    /\ alerts' = alerts \cup Findings(o)
    /\ UNCHANGED <<vars, touched, holder>>

(***************************************************************************)
(* An exception while one organisation is replayed ends only that replay.  *)
(***************************************************************************)
VerifyError(p, o) ==
    /\ holder = p
    /\ o \in todo
    /\ todo' = todo \ {o}
    /\ UNCHANGED <<vars, touched, holder, alerts>>

\* Mutant: the lock session is kept open.
CycleEnd_NoCommit(p) ==
    /\ holder = p
    /\ todo = {}
    /\ UNCHANGED vvars

CycleEnd(p) ==
    /\ holder = p
    /\ todo = {}
    /\ holder' = None
    /\ UNCHANGED <<vars, touched, todo, alerts>>

(***************************************************************************)
(* The process stops, or the lock session's connection drops: the advisory *)
(* lock goes with the connection.                                          *)
(***************************************************************************)
CycleLost(p) ==
    /\ holder = p
    /\ holder' = None
    /\ todo' = {}
    /\ UNCHANGED <<vars, touched, alerts>>

VerifierInit ==
    /\ Init
    /\ touched = None
    /\ holder = None
    /\ todo = {}
    /\ alerts = {}

VerifierNext ==
    \/ Next /\ UNCHANGED <<touched, verifier>>
    \/ \E o \in Org, kind \in Kind : \E s \in Seqs(o) : Tamper(o, s, kind)
    \/ \E p \in Process :
          \/ CycleStart(p)
          \/ \E o \in Org : VerifyOrg(p, o) \/ VerifyError(p, o)
          \/ CycleEnd(p)
          \/ CycleLost(p)

VerifierSpec == VerifierInit /\ [][VerifierNext]_vvars
-----------------------------------------------------------------------------
(***************************************************************************)
(* Where verify_chain must find the break: at the row itself if only its   *)
(* content changed, at the row after it if its hash agrees with the new    *)
(* content or the row is gone.  The last row has none after it: that the   *)
(* chain ended there earlier leaves no trace.  Nor do changes to columns   *)
(* outside the hash: "any row modification" (docs/threat-model.md) is more *)
(* than the code detects.                                                  *)
(***************************************************************************)
Detectable ==
    /\ touched # None
    /\ \/ touched.kind = "content"
       \/ touched.kind \in {"rehash", "delete"} /\ ~ touched.last

BreakAt == IF touched.kind = "content" THEN touched.seq ELSE touched.seq + 1

(***************************************************************************)
(* A changed or missing row is found at the right place, at once and for   *)
(* good: appends that were in flight, or come later, do not paper over it. *)
(***************************************************************************)
TamperDetected ==
    Detectable => /\ ~ verify_chain(touched.org).is_valid
                  /\ verify_chain(touched.org).broken_at = BreakAt

(***************************************************************************)
(* An alert names a chain whose hashed part was changed and the place of   *)
(* the change, whatever was being appended while it was replayed.  A       *)
(* previous_hash that was overwritten is left out: docs/threat-model.md    *)
(* says of "previous_hash does not match the preceding row's hash" that it *)
(* raises an alert; verify_chain never looks at that column.               *)
(***************************************************************************)
NoFalseAlert ==
    \A a \in alerts :
        /\ touched # None
        /\ a.org = touched.org
        /\ touched.kind # "previous_hash" =>
              /\ touched.kind \in {"content", "rehash", "delete"}
              /\ a.broken_at = BreakAt

(***************************************************************************)
(* "A periodic background worker replays every org's chain and raises a    *)
(* CRITICAL log": a break is reported, by whichever process.               *)
(***************************************************************************)
TamperReported ==
    \A o \in Org : (Detectable /\ touched.org = o) ~> (\E a \in alerts : a.org = o)

(***************************************************************************)
(* Some process always starts the next cycle, the cycle goes on, and the   *)
(* replay of one organisation does not fail every time it is tried.        *)
(***************************************************************************)
VerifierFairness ==
    /\ WF_vvars(\E p \in Process : CycleStart(p))
    /\ \A p \in Process :
          /\ WF_vvars(CycleEnd(p))
          /\ WF_vvars(\E o \in Org : VerifyOrg(p, o) \/ VerifyError(p, o))
          /\ \A o \in Org : SF_vvars(VerifyOrg(p, o))

VerifierFairSpec == VerifierSpec /\ VerifierFairness
=============================================================================
