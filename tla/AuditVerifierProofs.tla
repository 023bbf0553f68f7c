------------------------ MODULE AuditVerifierProofs ------------------------
(***************************************************************************)
(* Proofs about AuditVerifier, for any number of organisations, writers,   *)
(* entries and verifier processes: what the replay reports after one row   *)
(* of the table was changed, whatever was being appended.                  *)
(*                                                                         *)
(* The invariant of AuditChainProofs ends with the change: a removed row   *)
(* leaves a gap, and an append that read the tip before the change links   *)
(* to a row that is no longer there.  VerifierInv says how far the damage  *)
(* reaches: one row at most fails its check (LinkedButOne), the change is  *)
(* found where it must be (BreakStays), and only the append that was in    *)
(* flight at the last row can hold a stale tip (TipOrStale).               *)
(***************************************************************************)
EXTENDS AuditVerifier, AuditChainProofs

IsRow(e) ==
    e = [content |-> e.content, unhashed |-> e.unhashed,
         previous_hash |-> e.previous_hash, entry_hash |-> e.entry_hash]

VerifierTypes ==
    /\ DOMAIN log = Org
    /\ touched = None => \A o \in Org : \A s \in Seqs(o) : IsRow(log[o][s])
    /\ lock \in [Key -> Writer \cup {None}]
    /\ DOMAIN call = Writer
    /\ \A w \in Writer : call[w] \in CallState \/ TipState(call[w])
    /\ touched \in Change \cup {None}

(***************************************************************************)
(* Rows are numbered 1..n, but for the one that was removed.               *)
(***************************************************************************)
Gapped(o, n) ==
    /\ touched # None
    /\ touched.org = o
    /\ touched.kind = "delete"
    /\ touched.seq < n
    /\ Seqs(o) = (1..n) \ {touched.seq}

NumberedButOne == \A o \in Org : \E n \in Nat : Seqs(o) = 1..n \/ Gapped(o, n)

(***************************************************************************)
(* The only row that may fail its check.                                   *)
(***************************************************************************)
Suspect(o, s) ==
    /\ touched # None
    /\ touched.kind \in {"content", "rehash", "delete"}
    /\ touched.org = o
    /\ s = BreakAt

LinkedButOne == \A o \in Org : \A s \in Seqs(o) : LinkHolds(o, s) \/ Suspect(o, s)

BreakStays == Detectable => /\ BreakAt \in Seqs(touched.org)
                            /\ ~ LinkHolds(touched.org, BreakAt)

(***************************************************************************)
(* An append that read the tip before the last row was rewritten or        *)
(* removed, and has not committed: its row will be the one after it.       *)
(***************************************************************************)
Stale(q) ==
    /\ touched # None
    /\ touched.org = q.org
    /\ q.sequence_number = touched.seq + 1
    /\ \/ touched.kind = "rehash" /\ Seqs(q.org) = 1..touched.seq
       \/ touched.kind = "delete" /\ Seqs(q.org) = 1..(touched.seq - 1)

Current(q) ==
    /\ q.sequence_number = NextSeq(q.org)
    /\ q.previous_hash = TipHash(q.org)

TipOrStale ==
    \A w \in Writer : call[w].pc = "tip" => Current(call[w]) \/ Stale(call[w])

(***************************************************************************)
(* What the code gives beyond NoFalseAlert: an overwritten previous_hash   *)
(* raises nothing at all.                                                  *)
(***************************************************************************)
AlertsExact ==
    \A a \in alerts : /\ touched # None
                      /\ touched.kind \in {"content", "rehash", "delete"}
                      /\ a.org = touched.org
                      /\ a.broken_at = BreakAt

VerifierInv ==
    /\ VerifierTypes
    /\ LockHeld
    /\ NumberedButOne
    /\ LinkedButOne
    /\ BreakStays
    /\ TipOrStale
    /\ AlertsExact

-----------------------------------------------------------------------------
(***************************************************************************)
(* Last(S) is the greatest element, where there is one.                    *)
(***************************************************************************)
LEMMA LastIs ==
    ASSUME NEW S \in SUBSET Nat, NEW m \in S, \A t \in S : t <= m
    PROVE  Last(S) = m
<1>1. \A s \in S : (\A t \in S : t <= s) => s = m
  OBVIOUS
<1> QED
  BY <1>1 DEF Last

(***************************************************************************)
(* An interval with at most one number taken out has a greatest element.   *)
(***************************************************************************)
LEMMA LastOfGapped ==
    ASSUME NEW n \in Nat, NEW d \in Nat, NEW S, S = (1..n) \ {d}, S # {}
    PROVE  /\ S \in SUBSET Nat
           /\ Last(S) \in S
           /\ \A t \in S : t <= Last(S)
<1>1. S \in SUBSET Nat
  OBVIOUS
<1>2. CASE n # d
  <2>1. n \in S /\ \A t \in S : t <= n
    BY <1>2
  <2> QED
    BY <2>1, <1>1, LastIs
<1>3. CASE n = d
  <2>1. PICK t \in S : TRUE
    OBVIOUS
  <2>2. n - 1 \in S /\ \A u \in S : u <= n - 1
    BY <2>1, <1>3
  <2> QED
    BY <2>2, <1>1, LastIs
<1> QED
  BY <1>2, <1>3

(***************************************************************************)
(* The numbers of an organisation's rows.                                  *)
(***************************************************************************)
LEMMA ShapeOfRows ==
    ASSUME VerifierTypes, NumberedButOne, NEW o \in Org
    PROVE  \E n \in Nat, d \in Nat : /\ Seqs(o) = (1..n) \ {d}
                                     /\ d = 0 \/ d < n
<1>1. PICK n \in Nat : Seqs(o) = 1..n \/ Gapped(o, n)
  BY DEF NumberedButOne
<1>2. CASE Seqs(o) = 1..n
  <2>1. 1..n = (1..n) \ {0}
    OBVIOUS
  <2> QED
    BY <1>2, <2>1
<1>3. CASE Gapped(o, n)
  <2>1. touched.seq \in Nat
    BY <1>3 DEF Gapped, VerifierTypes, Change
  <2> QED
    BY <1>3, <2>1 DEF Gapped
<1> QED
  BY <1>1, <1>2, <1>3

(***************************************************************************)
(* So the rows before any row, if there are some, have a last one.         *)
(***************************************************************************)
LEMMA LastBefore ==
    ASSUME VerifierTypes, NumberedButOne, NEW o \in Org, NEW s \in Nat,
           {t \in Seqs(o) : t < s} # {}
    PROVE  Last({t \in Seqs(o) : t < s}) \in {t \in Seqs(o) : t < s}
<1> DEFINE before == {t \in Seqs(o) : t < s}
<1>1. PICK n \in Nat, d \in Nat : Seqs(o) = (1..n) \ {d}
  BY ShapeOfRows
<1>2. PICK m \in Nat : before = (1..m) \ {d}
  <2>1. CASE s > n
    <3>1. before = (1..n) \ {d}
      BY <1>1, <2>1
    <3> QED
      BY <3>1
  <2>2. CASE s <= n /\ s # 0
    <3>1. s - 1 \in Nat /\ before = (1..(s - 1)) \ {d}
      BY <1>1, <2>2
    <3> QED
      BY <3>1
  <2>3. CASE s = 0
    BY <1>1, <2>3
  <2> QED
    BY <2>1, <2>2, <2>3
<1> QED
  <2> HIDE DEF before
  <2>1. before # {}
    BY DEF before
  <2>2. Last(before) \in before
    BY <1>2, <2>1, LastOfGapped
  <2> QED
    BY <2>2 DEF before

(***************************************************************************)
(* A row's check reads that row and the rows below it: what happens above  *)
(* does not change its outcome.                                            *)
(***************************************************************************)
LEMMA SamePrev ==
    ASSUME VerifierTypes, NumberedButOne, NEW o \in Org, NEW s \in Nat,
           {t \in Seqs(o)' : t < s} = {t \in Seqs(o) : t < s},
           \A t \in Seqs(o) : t < s => log'[o][t].entry_hash = log[o][t].entry_hash
    PROVE  PrevHash(o, s)' = PrevHash(o, s)
<1> DEFINE before == {t \in Seqs(o) : t < s}
<1>1. CASE before = {}
  BY <1>1 DEF PrevHash
<1>2. CASE before # {}
  <2>1. Last(before) \in before
    BY <1>2, LastBefore
  <2>2. log'[o][Last(before)].entry_hash = log[o][Last(before)].entry_hash
    BY <2>1
  <2>3. PrevHash(o, s)' = log'[o][Last(before)].entry_hash
    BY <1>2 DEF PrevHash
  <2>4. PrevHash(o, s) = log[o][Last(before)].entry_hash
    BY <1>2 DEF PrevHash
  <2> QED
    BY <2>2, <2>3, <2>4
<1> QED
  BY <1>1, <1>2

LEMMA SameLink ==
    ASSUME VerifierTypes, NumberedButOne, NEW o \in Org, NEW s \in Nat,
           {t \in Seqs(o)' : t < s} = {t \in Seqs(o) : t < s},
           \A t \in Seqs(o) : t < s => log'[o][t].entry_hash = log[o][t].entry_hash,
           log'[o][s].entry_hash = log[o][s].entry_hash,
           log'[o][s].content = log[o][s].content
    PROVE  LinkHolds(o, s)' <=> LinkHolds(o, s)
<1>1. PrevHash(o, s)' = PrevHash(o, s)
  BY SamePrev
<1> QED
  BY <1>1 DEF LinkHolds

(***************************************************************************)
(* What _get_chain_tip returns lies above every row.                       *)
(***************************************************************************)
LEMMA TipAbove ==
    ASSUME VerifierTypes, NumberedButOne, NEW o \in Org
    PROVE  /\ NextSeq(o) \in Nat \ {0}
           /\ \A t \in Seqs(o) : t \in Nat /\ t < NextSeq(o)
<1>1. PICK n \in Nat, d \in Nat : Seqs(o) = (1..n) \ {d}
  BY ShapeOfRows
<1>2. CASE Seqs(o) = {}
  BY <1>2 DEF NextSeq
<1>3. CASE Seqs(o) # {}
  <2>1. /\ Seqs(o) \in SUBSET Nat
        /\ Last(Seqs(o)) \in Seqs(o)
        /\ \A t \in Seqs(o) : t <= Last(Seqs(o))
    BY <1>1, <1>3, LastOfGapped
  <2>2. NextSeq(o) = Last(Seqs(o)) + 1
    BY <1>3 DEF NextSeq
  <2> QED
    BY <2>1, <2>2
<1> QED
  BY <1>2, <1>3

-----------------------------------------------------------------------------
LEMMA InitVerifierInv == VerifierInit => VerifierInv
<1> SUFFICES ASSUME VerifierInit PROVE VerifierInv
  OBVIOUS
<1> USE DEF VerifierInit
<1>1. \A o \in Org : Seqs(o) = {}
  BY DEF Init, Seqs
<1>2. VerifierTypes
  BY <1>1 DEF Init, VerifierTypes, CallState, Idle
<1>3. LockHeld /\ TipOrStale
  BY DEF Init, LockHeld, TipOrStale, Idle
<1>4. NumberedButOne
  <2>1. {} = 1..0 /\ 0 \in Nat
    OBVIOUS
  <2> QED
    BY <1>1, <2>1 DEF NumberedButOne
<1>5. LinkedButOne /\ BreakStays /\ AlertsExact
  BY <1>1 DEF LinkedButOne, BreakStays, Detectable, AlertsExact
<1> QED
  BY <1>2, <1>3, <1>4, <1>5 DEF VerifierInv

(***************************************************************************)
(* A step that leaves the table alone keeps what is said of the table and  *)
(* of a tip read from it.                                                  *)
(***************************************************************************)
LEMMA SameTable ==
    ASSUME NumberedButOne, LinkedButOne, BreakStays, UNCHANGED <<log, touched>>
    PROVE  NumberedButOne' /\ LinkedButOne' /\ BreakStays'
BY DEF NumberedButOne, Gapped, LinkedButOne, BreakStays, Suspect, Detectable,
       BreakAt, LinkHolds, PrevHash, Seqs

LEMMA SameTip ==
    ASSUME NEW q, Current(q) \/ Stale(q), UNCHANGED <<log, touched>>
    PROVE  Current(q)' \/ Stale(q)'
BY DEF Current, Stale, NextSeq, TipHash, Seqs

(***************************************************************************)
(* Calls keep their types and their locks, whatever the table holds.       *)
(***************************************************************************)
LEMMA CallSteps ==
    ASSUME VerifierTypes, LockHeld, NumberedButOne, NEW w \in Writer,
           \/ AppendStep(w)
           \/ AppendFail(w)
           \/ \E o \in Org, c \in Content, u \in Unhashed : AppendStart(w, o, c, u)
    PROVE  /\ lock' \in [Key -> Writer \cup {None}]
           /\ DOMAIN call' = Writer
           /\ \A v \in Writer : call'[v] \in CallState \/ TipState(call'[v])
           /\ \A v \in Writer \ {w} : call'[v] = call[v]
           /\ LockHeld'
<1> USE DEF AppendStep
<1>1. /\ DOMAIN call' = Writer
      /\ \A v \in Writer \ {w} : call'[v] = call[v]
  BY DEF AppendReadTip, AppendLock, AppendStart, AppendCommit, AppendFail,
         VerifierTypes
<1>2. \A v \in Writer : call[v].pc \in {"begun", "locked", "tip"} => call[v].org \in Org
  BY DEF VerifierTypes, CallState, TipState, Idle
<1>3. /\ call'[w] \in CallState \/ TipState(call'[w])
      /\ call'[w].pc \in {"locked", "tip"} =>
            lock'[LockKey[call'[w].org]] = w
      /\ lock' \in [Key -> Writer \cup {None}]
      /\ \A k \in Key, v \in Writer \ {w} : lock[k] = v => lock'[k] = v
  <2>1. CASE \E o \in Org, c \in Content, u \in Unhashed : AppendStart(w, o, c, u)
    BY <2>1 DEF AppendStart, VerifierTypes, CallState
  <2>2. CASE AppendLock(w)
    <3>1. call[w] \in [pc : {"begun", "locked"}, org : Org, content : Content,
                        unhashed : Unhashed]
      BY <2>2 DEF AppendLock, VerifierTypes, CallState, TipState, Idle
    <3>2. call'[w] \in [pc : {"begun", "locked"}, org : Org, content : Content,
                         unhashed : Unhashed]
          /\ call'[w].org = call[w].org
      BY <2>2, <3>1 DEF AppendLock, VerifierTypes
    <3> QED
      BY <2>2, <3>1, <3>2, KeyOfOrg, ConstantsAssumption
      DEF AppendLock, VerifierTypes, CallState
  <2>3. CASE AppendReadTip(w)
    <3>1. call[w] \in [pc : {"begun", "locked"}, org : Org, content : Content,
                        unhashed : Unhashed]
      BY <2>3 DEF AppendReadTip, VerifierTypes, CallState, TipState, Idle
    <3> DEFINE o == call[w].org
    <3>2. NextSeq(o) \in Nat \ {0}
      BY <3>1, TipAbove
    <3>3. call'[w] = [pc |-> "tip", org |-> o, content |-> call[w].content,
                      unhashed |-> call[w].unhashed,
                      previous_hash |-> TipHash(o),
                      sequence_number |-> NextSeq(o)]
      BY <2>3 DEF AppendReadTip, VerifierTypes
    <3>4. TipState(call'[w]) /\ call'[w].org = call[w].org
      BY <3>1, <3>2, <3>3 DEF TipState
    <3> QED
      BY <2>3, <3>4 DEF AppendReadTip, VerifierTypes, LockHeld
  <2>4. CASE AppendCommit(w) \/ AppendFail(w)
    <3>1. call'[w] = Idle /\ lock' = Released(w)
      BY <2>4 DEF AppendCommit, AppendFail, VerifierTypes
    <3>2. call'[w] \in CallState /\ call'[w].pc = "idle"
      BY <3>1 DEF CallState, Idle
    <3> QED
      BY <3>1, <3>2 DEF VerifierTypes, Released
  <2> QED
    BY <2>1, <2>2, <2>3, <2>4
<1>4. LockHeld'
  <2> SUFFICES ASSUME NEW v \in Writer, call'[v].pc \in {"locked", "tip"}
               PROVE  lock'[LockKey[call'[v].org]] = v
    BY DEF LockHeld
  <2>1. CASE v = w
    BY <2>1, <1>3
  <2>2. CASE v # w
    <3>1. call'[v] = call[v] /\ LockKey[call[v].org] \in Key
      BY <2>2, <1>1, <1>2, KeyOfOrg
    <3> QED
      BY <2>2, <3>1, <1>3 DEF LockHeld
  <2> QED
    BY <2>1, <2>2
<1>5. \A v \in Writer : call'[v] \in CallState \/ TipState(call'[v])
  BY <1>1, <1>3 DEF VerifierTypes
<1> QED
  BY <1>1, <1>3, <1>4, <1>5

(***************************************************************************)
(* append() up to its commit, or failing.                                  *)
(***************************************************************************)
LEMMA MoveVerifierInv ==
    ASSUME VerifierInv, NEW w \in Writer, UNCHANGED <<touched, verifier>>,
           \/ AppendLock(w) \/ AppendReadTip(w) \/ AppendFail(w)
           \/ \E o \in Org, c \in Content, u \in Unhashed : AppendStart(w, o, c, u)
    PROVE  VerifierInv'
<1> USE DEF VerifierInv
<1>1. UNCHANGED <<log, touched>>
  BY DEF AppendLock, AppendReadTip, AppendFail, AppendStart
<1>2. NumberedButOne' /\ LinkedButOne' /\ BreakStays'
  BY <1>1, SameTable
<1>3. /\ lock' \in [Key -> Writer \cup {None}]
      /\ DOMAIN call' = Writer
      /\ \A v \in Writer : call'[v] \in CallState \/ TipState(call'[v])
      /\ \A v \in Writer \ {w} : call'[v] = call[v]
      /\ LockHeld'
  BY CallSteps DEF AppendStep
<1>4. VerifierTypes'
  BY <1>1, <1>3 DEF VerifierTypes, Seqs
<1>5. TipOrStale'
  <2> SUFFICES ASSUME NEW v \in Writer, call'[v].pc = "tip"
               PROVE  (Current(call[v]) \/ Stale(call[v]))'
    BY DEF TipOrStale
  <2>1. PICK q : q = call'[v]
    OBVIOUS
  <2>2. Current(q) \/ Stale(q)
    <3>1. CASE v # w
      BY <3>1, <1>3, <2>1 DEF TipOrStale
    <3>2. CASE v = w /\ AppendReadTip(w)
      BY <3>2, <2>1 DEF AppendReadTip, VerifierTypes, Current
    <3>3. CASE v = w /\ ~ AppendReadTip(w)
      <4>1. call'[w].pc # "tip"
        BY <3>3 DEF AppendLock, AppendStart, AppendFail, VerifierTypes,
                    CallState, TipState, Idle
      <4> QED
        BY <4>1, <3>3
    <3> QED
      BY <3>1, <3>2, <3>3
  <2>3. Current(q)' \/ Stale(q)'
    BY <2>2, <1>1, SameTip
  <2> QED
    BY <2>1, <2>3 DEF Current, Stale, NextSeq, TipHash, Seqs
<1>6. AlertsExact'
  BY DEF AlertsExact, BreakAt, verifier
<1> QED
  BY <1>2, <1>3, <1>4, <1>5, <1>6

(***************************************************************************)
(* A commit adds one row above all others; it links to the row below it    *)
(* unless it is the row after the change.                                  *)
(***************************************************************************)
LEMMA CommitRow ==
    ASSUME VerifierInv, NEW w \in Writer, AppendCommit(w), UNCHANGED touched
    PROVE  \E o \in Org, m \in Nat \ {0} :
              /\ call[w].pc = "tip" /\ call[w].org = o
              /\ \A t \in Seqs(o) : t \in Nat /\ t < m
              /\ Seqs(o)' = Seqs(o) \cup {m}
              /\ \A t \in Seqs(o) : log'[o][t] = log[o][t]
              /\ IsRow(log'[o][m])
              /\ \A p \in Org \ {o} : log'[p] = log[p] /\ Seqs(p)' = Seqs(p)
              /\ DOMAIN log' = Org
              /\ LinkHolds(o, m)' \/ Suspect(o, m)
              /\ \/ m = NextSeq(o)
                 \/ Stale(call[w]) /\ m = touched.seq + 1
<1> USE DEF VerifierInv
<1> DEFINE q == call[w]
<1>1. TipState(q) /\ q.pc = "tip"
  BY DEF AppendCommit, VerifierTypes, CallState, Idle
<1>2. PICK o \in Org : q.org = o
  BY <1>1 DEF TipState
<1>3. PICK m \in Nat \ {0} : q.sequence_number = m
  BY <1>1 DEF TipState
<1>4. Current(q) \/ Stale(q)
  BY <1>1 DEF TipOrStale
<1>5. \A t \in Seqs(o) : t \in Nat /\ t < m
  <2>1. CASE Current(q)
    BY <2>1, <1>2, <1>3, TipAbove DEF Current
  <2>2. CASE Stale(q)
    <3>1. touched.seq \in Nat
      BY <2>2 DEF Stale, VerifierTypes, Change
    <3> QED
      BY <2>2, <3>1, <1>2, <1>3 DEF Stale
  <2> QED
    BY <1>4, <2>1, <2>2
<1>6. log' = [log EXCEPT ![o] =
                 [s \in Seqs(o) \cup {m} |->
                    IF s = m THEN NewEntry(q) ELSE log[o][s]]]
  BY <1>2, <1>3 DEF AppendCommit
<1>7. /\ DOMAIN log' = Org
      /\ \A p \in Org \ {o} : log'[p] = log[p]
      /\ log'[o] = [s \in Seqs(o) \cup {m} |->
                      IF s = m THEN NewEntry(q) ELSE log[o][s]]
  BY <1>6 DEF VerifierTypes
<1>8. /\ Seqs(o)' = Seqs(o) \cup {m}
      /\ \A p \in Org \ {o} : Seqs(p)' = Seqs(p)
  BY <1>7 DEF Seqs
<1>9. /\ \A t \in Seqs(o) : log'[o][t] = log[o][t]
      /\ log'[o][m] = NewEntry(q)
  BY <1>7, <1>5
<1>10. IsRow(NewEntry(q))
  BY DEF IsRow, NewEntry
<1>11. PrevHash(o, m)' = TipHash(o)
  <2>1. {t \in Seqs(o)' : t < m} = Seqs(o)
    BY <1>5, <1>8
  <2>2. CASE Seqs(o) = {}
    BY <2>1, <2>2 DEF PrevHash, TipHash
  <2>3. CASE Seqs(o) # {}
    <3>1. Last({t \in Seqs(o) : t < m}) \in {t \in Seqs(o) : t < m}
      <4>1. {t \in Seqs(o) : t < m} # {}
        BY <1>5, <2>3
      <4> QED
        BY <4>1, LastBefore
    <3>2. {t \in Seqs(o) : t < m} = Seqs(o)
      BY <1>5
    <3>3. Last(Seqs(o)) \in Seqs(o)
      BY <3>1, <3>2
    <3>4. PrevHash(o, m)' = log'[o][Last(Seqs(o))].entry_hash
      BY <2>1, <2>3 DEF PrevHash
    <3> QED
      BY <3>3, <3>4, <2>3, <1>9 DEF TipHash
  <2> QED
    BY <2>2, <2>3
<1>12. LinkHolds(o, m)' \/ Suspect(o, m)
  <2>1. CASE Current(q)
    BY <2>1, <1>2, <1>3, <1>9, <1>11 DEF Current, LinkHolds, NewEntry
  <2>2. CASE Stale(q)
    BY <2>2, <1>2, <1>3 DEF Stale, Suspect, BreakAt
  <2> QED
    BY <1>4, <2>1, <2>2
<1>13. m = NextSeq(o) \/ (Stale(q) /\ m = touched.seq + 1)
  BY <1>2, <1>3, <1>4 DEF Current, Stale
<1> QED
  BY <1>1, <1>2, <1>5, <1>7, <1>8, <1>9, <1>10, <1>12, <1>13

(***************************************************************************)
(* The commit of append(): the lock keeps every other tip of the           *)
(* organisation away.                                                      *)
(***************************************************************************)
LEMMA CommitVerifierInv ==
    ASSUME VerifierInv, NEW w \in Writer, AppendCommit(w),
           UNCHANGED <<touched, verifier>>
    PROVE  VerifierInv'
<1> USE DEF VerifierInv
<1>1. PICK o \in Org, m \in Nat \ {0} :
              /\ call[w].pc = "tip" /\ call[w].org = o
              /\ \A t \in Seqs(o) : t \in Nat /\ t < m
              /\ Seqs(o)' = Seqs(o) \cup {m}
              /\ \A t \in Seqs(o) : log'[o][t] = log[o][t]
              /\ IsRow(log'[o][m])
              /\ \A p \in Org \ {o} : log'[p] = log[p] /\ Seqs(p)' = Seqs(p)
              /\ DOMAIN log' = Org
              /\ LinkHolds(o, m)' \/ Suspect(o, m)
              /\ \/ m = NextSeq(o)
                 \/ Stale(call[w]) /\ m = touched.seq + 1
  BY CommitRow
<1>2. /\ lock' \in [Key -> Writer \cup {None}]
      /\ DOMAIN call' = Writer
      /\ \A v \in Writer : call'[v] \in CallState \/ TipState(call'[v])
      /\ \A v \in Writer \ {w} : call'[v] = call[v]
      /\ LockHeld'
  BY CallSteps DEF AppendStep
<1>3. touched' = touched /\ alerts' = alerts
  BY DEF verifier
<1>4. VerifierTypes'
  <2>1. ASSUME touched' = None, NEW p \in Org, NEW s \in Seqs(p)'
        PROVE  IsRow(log'[p][s])
    <3>1. CASE p # o
      BY <2>1, <3>1, <1>1, <1>3 DEF VerifierTypes
    <3>2. CASE p = o
      BY <2>1, <3>2, <1>1, <1>3 DEF VerifierTypes
    <3> QED
      BY <3>1, <3>2
  <2> QED
    BY <2>1, <1>1, <1>2, <1>3 DEF VerifierTypes
<1>5. \A p \in Org \ {o} : \A s \in Seqs(p) : LinkHolds(p, s)' <=> LinkHolds(p, s)
  BY <1>1 DEF LinkHolds, PrevHash
<1>6. \A s \in Seqs(o) : LinkHolds(o, s)' <=> LinkHolds(o, s)
  <2> SUFFICES ASSUME NEW s \in Seqs(o)
               PROVE  LinkHolds(o, s)' <=> LinkHolds(o, s)
    OBVIOUS
  <2>1. s \in Nat /\ s < m
    BY <1>1
  <2>2. {t \in Seqs(o)' : t < s} = {t \in Seqs(o) : t < s}
    BY <1>1, <2>1
  <2> QED
    BY <2>1, <2>2, <1>1, SameLink
<1>7. NumberedButOne'
  <2> SUFFICES ASSUME NEW p \in Org
               PROVE  \E n \in Nat : (Seqs(p) = 1..n \/ Gapped(p, n))'
    BY DEF NumberedButOne
  <2>1. CASE p # o
    BY <2>1, <1>1, <1>3 DEF NumberedButOne, Gapped
  <2>2. CASE p = o /\ m = NextSeq(o)
    <3>1. PICK n \in Nat : Seqs(o) = 1..n \/ Gapped(o, n)
      BY DEF NumberedButOne
    <3>2. CASE Seqs(o) = 1..n
      <4>1. m = n + 1
        BY <3>2, <2>2, TipOfInterval
      <4>2. Seqs(o)' = 1..(n + 1)
        BY <4>1, <3>2, <1>1
      <4> QED
        BY <4>2, <2>2
    <3>3. CASE Gapped(o, n)
      <4>1. touched.seq \in Nat \ {0} /\ touched.seq < n
        BY <3>3 DEF Gapped, VerifierTypes, Change
      <4>2. n \in Seqs(o) /\ \A t \in Seqs(o) : t \in Nat /\ t <= n
        BY <4>1, <3>3 DEF Gapped
      <4>3. m = n + 1
        <5>1. Last(Seqs(o)) = n /\ Seqs(o) # {}
          BY <4>2, LastIs
        <5> QED
          BY <5>1, <2>2 DEF NextSeq
      <4>4. Seqs(o)' = (1..(n + 1)) \ {touched.seq} /\ touched.seq < n + 1
        BY <4>1, <4>3, <3>3, <1>1 DEF Gapped
      <4>5. Gapped(o, n + 1)'
        BY <4>4, <3>3, <1>3 DEF Gapped
      <4> QED
        BY <4>5, <2>2
    <3> QED
      BY <3>1, <3>2, <3>3
  <2>3. CASE p = o /\ Stale(call[w]) /\ m = touched.seq + 1
    <3>1. touched.seq \in Nat \ {0} /\ touched # None
      BY <2>3 DEF Stale, VerifierTypes, Change
    <3>2. CASE touched.kind = "rehash"
      <4>1. Seqs(o)' = 1..m
        BY <3>1, <3>2, <2>3, <1>1 DEF Stale
      <4> QED
        BY <4>1, <2>3
    <3>3. CASE touched.kind = "delete"
      <4>1. Seqs(o)' = (1..m) \ {touched.seq} /\ touched.seq < m
        BY <3>1, <3>3, <2>3, <1>1 DEF Stale
      <4>2. Gapped(o, m)'
        BY <4>1, <3>1, <3>3, <2>3, <1>1, <1>3 DEF Gapped, Stale
      <4> QED
        BY <4>2, <2>3
    <3> QED
      BY <3>2, <3>3, <2>3 DEF Stale
  <2> QED
    BY <2>1, <2>2, <2>3, <1>1
<1>8. LinkedButOne'
  <2> SUFFICES ASSUME NEW p \in Org, NEW s \in Seqs(p)'
               PROVE  LinkHolds(p, s)' \/ Suspect(p, s)'
    BY DEF LinkedButOne
  <2>1. Suspect(p, s) <=> Suspect(p, s)'
    BY <1>3 DEF Suspect, BreakAt
  <2>2. CASE s \in Seqs(p)
    BY <2>1, <2>2, <1>5, <1>6 DEF LinkedButOne
  <2>3. CASE p = o /\ s = m
    BY <2>1, <2>3, <1>1
  <2> QED
    BY <2>2, <2>3, <1>1
<1>9. BreakStays'
  <2> SUFFICES ASSUME Detectable'
               PROVE  /\ BreakAt' \in Seqs(touched.org)'
                      /\ ~ LinkHolds(touched.org, BreakAt)'
    BY DEF BreakStays
  <2>1. Detectable /\ BreakAt' = BreakAt
    BY <1>3 DEF Detectable, BreakAt
  <2>2. PICK p \in Org : touched.org = p
    BY <2>1 DEF Detectable, VerifierTypes, Change
  <2>3. PICK b : b = BreakAt
    OBVIOUS
  <2>4. b \in Seqs(p) /\ ~ LinkHolds(p, b)
    BY <2>1, <2>2, <2>3 DEF BreakStays
  <2>5. b \in Seqs(p)' /\ ~ LinkHolds(p, b)'
    BY <2>4, <1>1, <1>5, <1>6
  <2> QED
    BY <2>1, <2>2, <2>3, <2>5, <1>3 DEF LinkHolds, PrevHash, Seqs
<1>10. TipOrStale'
  <2> SUFFICES ASSUME NEW v \in Writer, call'[v].pc = "tip"
               PROVE  (Current(call[v]) \/ Stale(call[v]))'
    BY DEF TipOrStale
  <2>1. v # w /\ call'[v] = call[v]
    BY <1>2 DEF AppendCommit, VerifierTypes, Idle
  <2>2. call[v].org \in Org \ {o}
    <3>1. call[v].org \in Org
      BY <2>1 DEF VerifierTypes, CallState, TipState, Idle
    <3>2. call[v].org # o
      BY <2>1, <1>1 DEF LockHeld
    <3> QED
      BY <3>1, <3>2
  <2>3. Current(call[v]) \/ Stale(call[v])
    BY <2>1 DEF TipOrStale
  <2> QED
    BY <2>1, <2>2, <2>3, <1>1, <1>3 DEF Current, Stale, NextSeq, TipHash, Seqs
<1>11. AlertsExact'
  BY <1>3 DEF AlertsExact, BreakAt
<1> QED
  BY <1>2, <1>4, <1>7, <1>8, <1>9, <1>10, <1>11

-----------------------------------------------------------------------------
(***************************************************************************)
(* A row with some of its columns overwritten.                             *)
(***************************************************************************)
LEMMA RowUpdated ==
    ASSUME NEW e, IsRow(e), NEW x, NEW h
    PROVE  /\ [e EXCEPT !.content = x].content = x
           /\ [e EXCEPT !.content = x].entry_hash = e.entry_hash
           /\ [e EXCEPT !.content = x, !.entry_hash = h].content = x
           /\ [e EXCEPT !.content = x, !.entry_hash = h].entry_hash = h
           /\ [e EXCEPT !.unhashed = x].content = e.content
           /\ [e EXCEPT !.unhashed = x].entry_hash = e.entry_hash
           /\ [e EXCEPT !.previous_hash = x].content = e.content
           /\ [e EXCEPT !.previous_hash = x].entry_hash = e.entry_hash
<1>1. DOMAIN e = {"content", "unhashed", "previous_hash", "entry_hash"}
  BY DEF IsRow
<1> QED
  BY <1>1

(***************************************************************************)
(* Before the change the table is what append() wrote.                     *)
(***************************************************************************)
LEMMA Untouched ==
    ASSUME VerifierInv, touched = None, NEW o \in Org
    PROVE  \E n \in Nat :
              /\ Seqs(o) = 1..n
              /\ \A t \in 1..n :
                    /\ IsRow(log[o][t])
                    /\ PrevHash(o, t) = IF t = 1 THEN AUDIT_CHAIN_GENESIS
                                                 ELSE log[o][t - 1].entry_hash
                    /\ log[o][t].entry_hash =
                          <<PrevHash(o, t), <<o, t, log[o][t].content>>>>
<1> USE DEF VerifierInv
<1>1. PICK n \in Nat : Seqs(o) = 1..n
  BY DEF NumberedButOne, Gapped
<1>2. ASSUME NEW t \in 1..n
      PROVE  /\ IsRow(log[o][t])
             /\ PrevHash(o, t) = IF t = 1 THEN AUDIT_CHAIN_GENESIS
                                          ELSE log[o][t - 1].entry_hash
             /\ LinkHolds(o, t)
  <2>1. IsRow(log[o][t])
    BY <1>1 DEF VerifierTypes
  <2>2. LinkHolds(o, t)
    BY <1>1 DEF LinkedButOne, Suspect
  <2> QED
    BY <1>1, <2>1, <2>2, PrevOfInterval
<1> QED
  BY <1>1, <1>2 DEF LinkHolds, compute_entry_hash, Canonical

(***************************************************************************)
(* The change concerns one organisation: it is enough to look at its rows  *)
(* and at the appends to them.                                             *)
(***************************************************************************)
LEMMA TamperOthers ==
    ASSUME VerifierInv, NEW o \in Org, NEW kind \in Kind, NEW s \in Seqs(o),
           Tamper(o, s, kind)
    PROVE  /\ touched = None /\ touched' # None
           /\ touched' = [org |-> o, seq |-> s, kind |-> kind,
                          last |-> s = Last(Seqs(o))]
           /\ s \in Nat \ {0}
           /\ DOMAIN log' = Org
           /\ \A p \in Org \ {o} : log'[p] = log[p] /\ Seqs(p)' = Seqs(p)
           /\ log'[o] \in Altered(o, s, kind)
           /\ VerifierTypes' /\ LockHeld' /\ AlertsExact'
<1> USE DEF VerifierInv
<1>1. /\ touched = None
      /\ touched' = [org |-> o, seq |-> s, kind |-> kind,
                     last |-> s = Last(Seqs(o))]
      /\ UNCHANGED <<lock, call, alerts>>
  BY DEF Tamper, verifier
<1>2. s \in Nat \ {0}
  <2>1. PICK n \in Nat : Seqs(o) = 1..n
    BY <1>1, Untouched
  <2> QED
    BY <2>1
<1>3. touched' \in Change
  <2>1. (s = Last(Seqs(o))) \in BOOLEAN
    OBVIOUS
  <2> QED
    BY <1>1, <1>2, <2>1 DEF Change
<1>4. touched' # None
  BY <1>3, VerifierAssumption
<1>5. PICK rows \in Altered(o, s, kind) : log' = [log EXCEPT ![o] = rows]
  BY DEF Tamper
<1>6. /\ DOMAIN log' = Org
      /\ \A p \in Org \ {o} : log'[p] = log[p]
      /\ log'[o] \in Altered(o, s, kind)
  BY <1>5 DEF VerifierTypes
<1>7. \A p \in Org \ {o} : Seqs(p)' = Seqs(p)
  BY <1>6 DEF Seqs
<1>8. VerifierTypes'
  BY <1>1, <1>3, <1>4, <1>6 DEF VerifierTypes
<1>9. LockHeld'
  BY <1>1 DEF LockHeld
<1>10. AlertsExact'
  BY <1>1 DEF AlertsExact
<1> QED
  BY <1>1, <1>2, <1>4, <1>6, <1>7, <1>8, <1>9, <1>10

LEMMA TamperReduces ==
    ASSUME VerifierInv, NEW o \in Org, NEW kind \in Kind, NEW s \in Seqs(o),
           Tamper(o, s, kind),
           \E n \in Nat : (Seqs(o) = 1..n \/ Gapped(o, n))',
           \A t \in Seqs(o)' : (LinkHolds(o, t) \/ Suspect(o, t))',
           Detectable' => /\ BreakAt' \in Seqs(o)'
                          /\ \A b \in Seqs(o)' : b = BreakAt' => ~ LinkHolds(o, b)',
           \A v \in Writer : (/\ call[v].pc = "tip"
                              /\ call[v].org = o
                              /\ Current(call[v]))
                                => (Current(call[v]) \/ Stale(call[v]))'
    PROVE  VerifierInv'
<1> USE DEF VerifierInv
<1>1. /\ touched = None /\ touched' # None
      /\ touched' = [org |-> o, seq |-> s, kind |-> kind,
                     last |-> s = Last(Seqs(o))]
      /\ \A p \in Org \ {o} : log'[p] = log[p] /\ Seqs(p)' = Seqs(p)
      /\ VerifierTypes' /\ LockHeld' /\ AlertsExact'
  BY TamperOthers
<1>2. NumberedButOne'
  <2>1. \A p \in Org \ {o} : \E n \in Nat : Seqs(p)' = 1..n
    BY <1>1 DEF NumberedButOne, Gapped
  <2> QED
    BY <2>1 DEF NumberedButOne
<1>3. LinkedButOne'
  <2>1. ASSUME NEW p \in Org \ {o}, NEW t \in Seqs(p)' PROVE LinkHolds(p, t)'
    <3>1. LinkHolds(p, t)
      BY <2>1, <1>1 DEF LinkedButOne, Suspect
    <3> QED
      BY <3>1, <1>1 DEF LinkHolds, PrevHash
  <2> QED
    BY <2>1 DEF LinkedButOne
<1>4. BreakStays'
  <2>1. touched'.org = o
    BY <1>1
  <2> QED
    BY <2>1 DEF BreakStays, LinkHolds, PrevHash, Seqs
<1>5. TipOrStale'
  <2> SUFFICES ASSUME NEW v \in Writer, call'[v].pc = "tip"
               PROVE  (Current(call[v]) \/ Stale(call[v]))'
    BY DEF TipOrStale
  <2>1. call'[v] = call[v]
    BY DEF Tamper
  <2>2. Current(call[v])
    BY <2>1, <1>1 DEF TipOrStale, Stale
  <2>3. call[v].org \in Org
    BY <2>1 DEF VerifierTypes, CallState, TipState, Idle
  <2>4. CASE call[v].org = o
    BY <2>1, <2>2, <2>4
  <2>5. CASE call[v].org # o
    BY <2>1, <2>2, <2>3, <2>5, <1>1 DEF Current, NextSeq, TipHash
  <2> QED
    BY <2>4, <2>5
<1> QED
  BY <1>1, <1>2, <1>3, <1>4, <1>5

(***************************************************************************)
(* Changes that leave every entry_hash as it is.                           *)
(***************************************************************************)
LEMMA TamperColumns ==
    ASSUME VerifierInv, NEW o \in Org, NEW s \in Seqs(o),
           NEW kind \in {"content", "unhashed", "previous_hash"},
           Tamper(o, s, kind)
    PROVE  VerifierInv'
<1> USE DEF VerifierInv
<1>0. kind \in Kind
  BY DEF Kind
<1>1. /\ touched = None /\ touched' # None
      /\ touched' = [org |-> o, seq |-> s, kind |-> kind,
                     last |-> s = Last(Seqs(o))]
      /\ log'[o] \in Altered(o, s, kind)
  BY <1>0, TamperOthers
<1>2. PICK n \in Nat :
              /\ Seqs(o) = 1..n
              /\ \A t \in 1..n :
                    /\ IsRow(log[o][t])
                    /\ log[o][t].entry_hash =
                          <<PrevHash(o, t), <<o, t, log[o][t].content>>>>
  BY <1>1, Untouched
<1>3. \E e : /\ log'[o] = [log[o] EXCEPT ![s] = e]
             /\ e.entry_hash = log[o][s].entry_hash
             /\ IF kind = "content" THEN e.content # log[o][s].content
                                    ELSE e.content = log[o][s].content
  <2>1. IsRow(log[o][s])
    BY <1>2
  <2>2. CASE kind = "content"
    <3>1. PICK c \in Content \ {log[o][s].content} :
              log'[o] = [log[o] EXCEPT ![s] = [log[o][s] EXCEPT !.content = c]]
      BY <2>2, <1>1 DEF Altered
    <3>2. PICK e : e = [log[o][s] EXCEPT !.content = c]
      OBVIOUS
    <3>3. /\ e.entry_hash = log[o][s].entry_hash
          /\ IF kind = "content" THEN e.content # log[o][s].content
                                 ELSE e.content = log[o][s].content
      BY <2>1, <2>2, <3>2, RowUpdated
    <3> QED
      BY <3>1, <3>2, <3>3
  <2>3. CASE kind = "unhashed"
    <3>1. log'[o] = [log[o] EXCEPT ![s] = [log[o][s] EXCEPT !.unhashed = None]]
      BY <2>3, <1>1 DEF Altered
    <3>2. PICK e : e = [log[o][s] EXCEPT !.unhashed = None]
      OBVIOUS
    <3>3. /\ e.entry_hash = log[o][s].entry_hash
          /\ IF kind = "content" THEN e.content # log[o][s].content
                                 ELSE e.content = log[o][s].content
      BY <2>1, <2>3, <3>2, RowUpdated
    <3> QED
      BY <3>1, <3>2, <3>3
  <2>4. CASE kind = "previous_hash"
    <3>1. log'[o] = [log[o] EXCEPT ![s] =
                        [log[o][s] EXCEPT !.previous_hash = log[o][s].entry_hash]]
      BY <2>4, <1>1 DEF Altered
    <3>2. PICK e : e = [log[o][s] EXCEPT !.previous_hash = log[o][s].entry_hash]
      OBVIOUS
    <3>3. /\ e.entry_hash = log[o][s].entry_hash
          /\ IF kind = "content" THEN e.content # log[o][s].content
                                 ELSE e.content = log[o][s].content
      BY <2>1, <2>4, <3>2, RowUpdated
    <3> QED
      BY <3>1, <3>2, <3>3
  <2> QED
    BY <2>2, <2>3, <2>4
<1>4. /\ Seqs(o)' = Seqs(o)
      /\ \A t \in Seqs(o) : log'[o][t].entry_hash = log[o][t].entry_hash
      /\ \A t \in Seqs(o) : (t # s \/ kind # "content")
                               => log'[o][t].content = log[o][t].content
      /\ kind = "content" => log'[o][s].content # log[o][s].content
  BY <1>3 DEF Seqs
<1>5. \A t \in Seqs(o) : PrevHash(o, t)' = PrevHash(o, t)
  BY <1>2, <1>4, SamePrev
<1>6. \A t \in Seqs(o) : (t # s \/ kind # "content") => LinkHolds(o, t)'
  BY <1>2, <1>4, <1>5 DEF LinkHolds, compute_entry_hash, Canonical
<1>7. kind = "content" => ~ LinkHolds(o, s)'
  BY <1>2, <1>4, <1>5 DEF LinkHolds, compute_entry_hash, Canonical
<1>8. kind = "content" => BreakAt' = s
  BY <1>1 DEF BreakAt
<1>9. \A t \in Seqs(o)' : (LinkHolds(o, t) \/ Suspect(o, t))'
  BY <1>1, <1>4, <1>6, <1>8 DEF Suspect
<1>10. Detectable' => kind = "content"
  BY <1>1 DEF Detectable
<1>11. \A v \in Writer : (/\ call[v].pc = "tip"
                          /\ call[v].org = o
                          /\ Current(call[v]))
                            => (Current(call[v]) \/ Stale(call[v]))'
  <2>1. NextSeq(o)' = NextSeq(o)
    BY <1>4 DEF NextSeq
  <2>2. TipHash(o)' = TipHash(o)
    <3>1. CASE n = 0
      BY <3>1, <1>2, <1>4 DEF TipHash
    <3>2. CASE n # 0
      <4>1. Last(Seqs(o)) \in Seqs(o)
        BY <3>2, <1>2, LastOfInterval
      <4> QED
        BY <4>1, <1>4 DEF TipHash
    <3> QED
      BY <3>1, <3>2
  <2>3. call' = call
    BY DEF Tamper
  <2> QED
    BY <2>1, <2>2, <2>3 DEF Current, NextSeq, TipHash, Seqs
<1>12. \E m \in Nat : (Seqs(o) = 1..m \/ Gapped(o, m))'
  BY <1>2, <1>4
<1>13. Detectable' => /\ BreakAt' \in Seqs(o)'
                      /\ \A b \in Seqs(o)' : b = BreakAt' => ~ LinkHolds(o, b)'
  BY <1>4, <1>7, <1>8, <1>10
<1> QED
  BY <1>0, <1>9, <1>11, <1>12, <1>13, TamperReduces

(***************************************************************************)
(* A row rewritten with a hash that agrees: the row after it fails.        *)
(***************************************************************************)
LEMMA TamperRehash ==
    ASSUME VerifierInv, NEW o \in Org, NEW s \in Seqs(o), Tamper(o, s, "rehash")
    PROVE  VerifierInv'
<1> USE DEF VerifierInv
<1>0. "rehash" \in Kind
  BY DEF Kind
<1>1. /\ touched = None /\ touched' # None
      /\ touched' = [org |-> o, seq |-> s, kind |-> "rehash",
                     last |-> s = Last(Seqs(o))]
      /\ log'[o] \in Altered(o, s, "rehash")
  BY <1>0, TamperOthers
<1>2. PICK n \in Nat :
              /\ Seqs(o) = 1..n
              /\ \A t \in 1..n :
                    /\ IsRow(log[o][t])
                    /\ PrevHash(o, t) = IF t = 1 THEN AUDIT_CHAIN_GENESIS
                                                 ELSE log[o][t - 1].entry_hash
                    /\ log[o][t].entry_hash =
                          <<PrevHash(o, t), <<o, t, log[o][t].content>>>>
  BY <1>1, Untouched
<1>3. PICK c \in Content \ {log[o][s].content} : log'[o] = Rehashed(o, s, c)
  BY <1>1 DEF Altered
<1>4. /\ Seqs(o)' = 1..n
      /\ \A t \in 1..n : t # s => log'[o][t] = log[o][t]
      /\ log'[o][s].content = c
      /\ log'[o][s].entry_hash = <<PrevHash(o, s), <<o, s, c>>>>
  <2> DEFINE h == compute_entry_hash(Canonical(o, s, c), PrevHash(o, s))
  <2>1. log'[o] = [log[o] EXCEPT ![s] =
                      [log[o][s] EXCEPT !.content = c, !.entry_hash = h]]
    BY <1>3 DEF Rehashed
  <2>2. h = <<PrevHash(o, s), <<o, s, c>>>>
    BY DEF compute_entry_hash, Canonical
  <2>3. IsRow(log[o][s])
    BY <1>2
  <2> HIDE DEF h
  <2>4. Seqs(o)' = 1..n /\ log'[o][s] = [log[o][s] EXCEPT !.content = c, !.entry_hash = h]
        /\ \A t \in 1..n : t # s => log'[o][t] = log[o][t]
    BY <2>1, <1>2 DEF Seqs
  <2> QED
    BY <2>2, <2>3, <2>4, RowUpdated
<1>5. \A t \in 1..n : PrevHash(o, t)' = IF t = s + 1 THEN log'[o][s].entry_hash
                                                     ELSE PrevHash(o, t)
  <2> SUFFICES ASSUME NEW t \in 1..n
               PROVE  PrevHash(o, t)' = IF t = s + 1 THEN log'[o][s].entry_hash
                                                     ELSE PrevHash(o, t)
    OBVIOUS
  <2>1. CASE t = 1
    <3>1. {u \in Seqs(o)' : u < t} = {}
      BY <2>1, <1>4
    <3> QED
      BY <3>1, <2>1, <1>2 DEF PrevHash
  <2>2. CASE t # 1
    <3>1. {u \in Seqs(o)' : u < t} = 1..(t - 1) /\ t - 1 \in 1..n
      BY <1>4, <2>2
    <3>2. Last(1..(t - 1)) = t - 1 /\ 1..(t - 1) # {}
      <4>1. t - 1 \in Nat /\ t - 1 # 0 /\ t - 1 \in 1..(t - 1)
        BY <2>2
      <4> QED
        BY <4>1, LastOfInterval
    <3>3. PrevHash(o, t)' = log'[o][t - 1].entry_hash
      BY <3>1, <3>2 DEF PrevHash
    <3>4. t = s + 1 <=> t - 1 = s
      BY <1>2
    <3> QED
      BY <3>1, <3>3, <3>4, <2>2, <1>2, <1>4
  <2> QED
    BY <2>1, <2>2
<1>6. \A t \in 1..n : t # s + 1 => LinkHolds(o, t)'
  <2> SUFFICES ASSUME NEW t \in 1..n, t # s + 1 PROVE LinkHolds(o, t)'
    OBVIOUS
  <2>1. PrevHash(o, t)' = PrevHash(o, t)
    BY <1>5
  <2> QED
    BY <2>1, <1>2, <1>4 DEF LinkHolds, compute_entry_hash, Canonical
<1>7. ASSUME s + 1 \in 1..n PROVE ~ LinkHolds(o, s + 1)'
  <2>1. s \in 1..n /\ s + 1 # s /\ s + 1 # 1 /\ (s + 1) - 1 = s
    BY <1>2
  <2>2. log'[o][s + 1].entry_hash =
           <<log[o][s].entry_hash, <<o, s + 1, log[o][s + 1].content>>>>
    BY <1>7, <2>1, <1>2, <1>4
  <2>3. PrevHash(o, s + 1)' = log'[o][s].entry_hash
    BY <1>7, <1>5
  <2>4. log'[o][s].entry_hash # log[o][s].entry_hash
    BY <2>1, <1>2, <1>4
  <2> QED
    BY <2>2, <2>3, <2>4 DEF LinkHolds, compute_entry_hash, Canonical
<1>8. BreakAt' = s + 1
  BY <1>1 DEF BreakAt
<1>9. \A t \in Seqs(o)' : (LinkHolds(o, t) \/ Suspect(o, t))'
  BY <1>1, <1>4, <1>6, <1>8 DEF Suspect
<1>10. Detectable' => s + 1 \in 1..n
  <2>1. Detectable' => s # Last(Seqs(o))
    BY <1>1 DEF Detectable
  <2>2. Last(Seqs(o)) = n /\ s \in 1..n
    BY <1>2, LastOfInterval
  <2> QED
    BY <2>1, <2>2
<1>11. ASSUME NEW v \in Writer, call[v].pc = "tip", call[v].org = o, Current(call[v])
       PROVE  (Current(call[v]) \/ Stale(call[v]))'
  <2>1. call' = call
    BY DEF Tamper
  <2>2. n # 0 /\ s \in 1..n /\ n \in 1..n
    BY <1>2
  <2>3. Last(1..n) = n /\ 1..n # {}
    BY <2>2, LastOfInterval
  <2>4. NextSeq(o)' = n + 1 /\ NextSeq(o) = n + 1
    BY <2>3, <1>2, <1>4 DEF NextSeq
  <2>5. CASE s # n
    <3>1. TipHash(o)' = log'[o][n].entry_hash /\ TipHash(o) = log[o][n].entry_hash
      BY <2>3, <1>2, <1>4 DEF TipHash
    <3>2. TipHash(o)' = TipHash(o)
      BY <3>1, <2>2, <2>5, <1>4
    <3>3. /\ call'[v].sequence_number = NextSeq(o)'
          /\ call'[v].previous_hash = TipHash(o)'
          /\ call'[v].org = o
      BY <2>1, <2>4, <3>2, <1>11 DEF Current
    <3> QED
      BY <3>3 DEF Current, NextSeq, TipHash, Seqs
  <2>6. CASE s = n
    <3>1. call'[v].sequence_number = s + 1 /\ call'[v].org = o
      BY <2>1, <2>4, <2>6, <1>11 DEF Current
    <3> QED
      BY <3>1, <2>6, <1>1, <1>4 DEF Stale, Seqs
  <2> QED
    BY <2>5, <2>6
<1>12. \E m \in Nat : (Seqs(o) = 1..m \/ Gapped(o, m))'
  BY <1>4
<1>13. Detectable' => /\ BreakAt' \in Seqs(o)'
                      /\ \A b \in Seqs(o)' : b = BreakAt' => ~ LinkHolds(o, b)'
  BY <1>4, <1>7, <1>8, <1>10
<1> QED
  BY <1>0, <1>9, <1>11, <1>12, <1>13, TamperReduces

(***************************************************************************)
(* A row removed: the row after it was linked to a hash that carries the   *)
(* removed row's number, and no other row has that.                        *)
(***************************************************************************)
LEMMA TamperDelete ==
    ASSUME VerifierInv, NEW o \in Org, NEW s \in Seqs(o), Tamper(o, s, "delete")
    PROVE  VerifierInv'
<1> USE DEF VerifierInv
<1>0. "delete" \in Kind
  BY DEF Kind
<1>1. /\ touched = None /\ touched' # None
      /\ touched' = [org |-> o, seq |-> s, kind |-> "delete",
                     last |-> s = Last(Seqs(o))]
      /\ log'[o] \in Altered(o, s, "delete")
  BY <1>0, TamperOthers
<1>2. PICK n \in Nat :
              /\ Seqs(o) = 1..n
              /\ \A t \in 1..n :
                    /\ PrevHash(o, t) = IF t = 1 THEN AUDIT_CHAIN_GENESIS
                                                 ELSE log[o][t - 1].entry_hash
                    /\ log[o][t].entry_hash =
                          <<PrevHash(o, t), <<o, t, log[o][t].content>>>>
  BY <1>1, Untouched
<1>3. log'[o] = Without(o, s)
  BY <1>1 DEF Altered
<1>4. /\ Seqs(o)' = (1..n) \ {s}
      /\ \A t \in (1..n) \ {s} : log'[o][t] = log[o][t]
      /\ s \in 1..n
  BY <1>2, <1>3 DEF Without, Seqs
<1>5. ASSUME NEW t \in (1..n) \ {s}, t # s + 1
      PROVE  PrevHash(o, t)' = PrevHash(o, t)
  <2>1. CASE t = 1
    <3>1. {u \in Seqs(o)' : u < t} = {}
      BY <2>1, <1>4
    <3> QED
      BY <3>1, <2>1, <1>2 DEF PrevHash
  <2>2. CASE t # 1
    <3> DEFINE before == {u \in Seqs(o)' : u < t}
    <3>1. t - 1 \in before /\ before \in SUBSET Nat /\ \A u \in before : u <= t - 1
      BY <1>4, <1>5, <2>2
    <3>2. t - 1 \in (1..n) \ {s}
      BY <3>1, <1>4
    <3>3. Last(before) = t - 1 /\ before # {}
      <4> HIDE DEF before
      <4> QED
        BY <3>1, LastIs
    <3>4. PrevHash(o, t)' = log'[o][t - 1].entry_hash
      BY <3>3 DEF PrevHash
    <3> QED
      BY <3>2, <3>4, <2>2, <1>2, <1>4
  <2> QED
    BY <2>1, <2>2
<1>6. \A t \in (1..n) \ {s} : t # s + 1 => LinkHolds(o, t)'
  <2> SUFFICES ASSUME NEW t \in (1..n) \ {s}, t # s + 1 PROVE LinkHolds(o, t)'
    OBVIOUS
  <2>1. PrevHash(o, t)' = PrevHash(o, t)
    BY <1>5
  <2> QED
    BY <2>1, <1>2, <1>4 DEF LinkHolds, compute_entry_hash, Canonical
<1>7. ASSUME s + 1 \in 1..n PROVE ~ LinkHolds(o, s + 1)'
  <2>1. s \in 1..n /\ s + 1 # s /\ s + 1 # 1 /\ (s + 1) - 1 = s
    BY <1>4
  <2>2. log'[o][s + 1].entry_hash =
           <<log[o][s].entry_hash, <<o, s + 1, log[o][s + 1].content>>>>
    BY <1>7, <2>1, <1>2, <1>4
  <2>3. PrevHash(o, s + 1)' = PrevHash(o, s)
    <3>1. {u \in Seqs(o)' : u < s + 1} = 1..(s - 1)
      BY <1>4
    <3>2. CASE s = 1
      <4>1. {u \in Seqs(o)' : u < s + 1} = {}
        BY <3>1, <3>2
      <4> QED
        BY <4>1, <3>2, <1>2, <1>4 DEF PrevHash
    <3>3. CASE s # 1
      <4>1. s - 1 \in Nat /\ s - 1 # 0 /\ s - 1 \in 1..(s - 1) /\ s - 1 \in (1..n) \ {s}
        BY <3>3, <1>4
      <4>2. Last(1..(s - 1)) = s - 1 /\ 1..(s - 1) # {}
        BY <4>1, LastOfInterval
      <4>3. PrevHash(o, s + 1)' = log'[o][s - 1].entry_hash
        BY <4>2, <3>1 DEF PrevHash
      <4> QED
        BY <4>1, <4>3, <3>3, <1>2, <1>4
    <3> QED
      BY <3>2, <3>3
  <2>4. PrevHash(o, s) # log[o][s].entry_hash
    <3>1. log[o][s].entry_hash = <<PrevHash(o, s), <<o, s, log[o][s].content>>>>
      BY <1>2, <1>4
    <3>2. CASE s = 1
      BY <3>1, <3>2, <1>2, <1>4 DEF AUDIT_CHAIN_GENESIS
    <3>3. CASE s # 1
      <4>1. s - 1 \in 1..n /\ s - 1 # s
        BY <3>3, <1>4
      <4>2. PrevHash(o, s) =
              <<PrevHash(o, s - 1), <<o, s - 1, log[o][s - 1].content>>>>
        BY <4>1, <3>3, <1>2, <1>4
      <4> QED
        BY <4>1, <4>2, <3>1
    <3> QED
      BY <3>2, <3>3
  <2> QED
    BY <2>2, <2>3, <2>4 DEF LinkHolds, compute_entry_hash, Canonical
<1>8. BreakAt' = s + 1
  BY <1>1 DEF BreakAt
<1>9. \A t \in Seqs(o)' : (LinkHolds(o, t) \/ Suspect(o, t))'
  BY <1>1, <1>4, <1>6, <1>8 DEF Suspect
<1>10. Last(Seqs(o)) = n
  <2>1. n # 0
    BY <1>4
  <2> QED
    BY <2>1, <1>2, LastOfInterval
<1>11. Detectable' => s + 1 \in (1..n) \ {s}
  <2>1. Detectable' => s # Last(Seqs(o))
    BY <1>1 DEF Detectable
  <2> QED
    BY <2>1, <1>4, <1>10
<1>12. ASSUME NEW v \in Writer, call[v].pc = "tip", call[v].org = o, Current(call[v])
       PROVE  (Current(call[v]) \/ Stale(call[v]))'
  <2>1. call' = call
    BY DEF Tamper
  <2>2. n \in 1..n /\ Seqs(o) # {}
    BY <1>2, <1>4
  <2>3. NextSeq(o) = n + 1 /\ TipHash(o) = log[o][n].entry_hash
    BY <2>2, <1>10 DEF NextSeq, TipHash
  <2>4. CASE s # n
    <3>1. n \in Seqs(o)' /\ Seqs(o)' \in SUBSET Nat /\ \A t \in Seqs(o)' : t <= n
      BY <2>2, <2>4, <1>4
    <3>2. PICK S : S = Seqs(o)'
      OBVIOUS
    <3>3. Last(S) = n /\ S # {}
      BY <3>1, <3>2, LastIs
    <3>4. NextSeq(o)' = n + 1 /\ TipHash(o)' = log'[o][n].entry_hash
      BY <3>2, <3>3 DEF NextSeq, TipHash
    <3>5. log'[o][n] = log[o][n]
      BY <2>2, <2>4, <1>4
    <3>6. /\ call'[v].sequence_number = NextSeq(o)'
          /\ call'[v].previous_hash = TipHash(o)'
          /\ call'[v].org = o
      BY <2>1, <2>3, <3>4, <3>5, <1>12 DEF Current
    <3> QED
      BY <3>6 DEF Current, NextSeq, TipHash, Seqs
  <2>5. CASE s = n
    <3>1. call'[v].sequence_number = s + 1 /\ call'[v].org = o
      BY <2>1, <2>3, <2>5, <1>12 DEF Current
    <3>2. Seqs(o)' = 1..(s - 1)
      BY <2>5, <1>4
    <3> QED
      BY <3>1, <3>2, <1>1 DEF Stale, Seqs
  <2> QED
    BY <2>4, <2>5
<1>13. \E m \in Nat : (Seqs(o) = 1..m \/ Gapped(o, m))'
  <2>1. CASE s = n
    <3>1. n - 1 \in Nat /\ Seqs(o)' = 1..(n - 1)
      BY <2>1, <1>4
    <3> QED
      BY <3>1
  <2>2. CASE s # n
    <3>1. s < n
      BY <2>2, <1>4
    <3>2. Gapped(o, n)'
      BY <3>1, <1>1, <1>4 DEF Gapped
    <3> QED
      BY <3>2
  <2> QED
    BY <2>1, <2>2
<1>14. Detectable' => /\ BreakAt' \in Seqs(o)'
                      /\ \A b \in Seqs(o)' : b = BreakAt' => ~ LinkHolds(o, b)'
  BY <1>4, <1>7, <1>8, <1>11
<1> QED
  BY <1>0, <1>9, <1>12, <1>13, <1>14, TamperReduces

-----------------------------------------------------------------------------
(***************************************************************************)
(* With one row at most that fails, that row is what verify_chain reports. *)
(***************************************************************************)
LEMMA ReportedAt ==
    ASSUME LinkedButOne, NEW o \in Org, Broken(o) # {}
    PROVE  /\ touched # None
           /\ touched.kind \in {"content", "rehash", "delete"}
           /\ touched.org = o
           /\ ~ verify_chain(o).is_valid
           /\ verify_chain(o).broken_at = BreakAt
<1>1. \A t \in Broken(o) : Suspect(o, t)
  BY DEF LinkedButOne, Broken
<1>2. FirstBroken(o) = BreakAt
  <2>1. Broken(o) = {BreakAt}
    BY <1>1 DEF Suspect
  <2>2. BreakAt \in Seqs(o)
    BY <2>1 DEF Broken
  <2> QED
    BY <2>1 DEF FirstBroken
<1> QED
  BY <1>1, <1>2 DEF Suspect, verify_chain

(***************************************************************************)
(* The verifier's own steps change neither the table nor the calls.        *)
(***************************************************************************)
LEMMA CycleVerifierInv ==
    ASSUME VerifierInv, UNCHANGED <<vars, touched>>,
           alerts' = alerts \/ \E o \in Org : alerts' = alerts \cup Findings(o)
    PROVE  VerifierInv'
<1> USE DEF VerifierInv
<1>1. UNCHANGED <<log, lock, call, touched>>
  BY DEF vars
<1>2. VerifierTypes' /\ LockHeld'
  BY <1>1 DEF VerifierTypes, LockHeld, Seqs
<1>3. NumberedButOne' /\ LinkedButOne' /\ BreakStays'
  BY <1>1, SameTable
<1>4. TipOrStale'
  BY <1>1 DEF TipOrStale, Current, Stale, NextSeq, TipHash, Seqs
<1>5. AlertsExact'
  <2>1. CASE alerts' = alerts
    BY <2>1, <1>1 DEF AlertsExact, BreakAt
  <2>2. ASSUME NEW o \in Org, alerts' = alerts \cup Findings(o) PROVE AlertsExact'
    <3>1. CASE Broken(o) = {}
      BY <3>1, <2>2, <1>1 DEF Findings, verify_chain, AlertsExact, BreakAt
    <3>2. CASE Broken(o) # {}
      <4>1. /\ touched # None
            /\ touched.kind \in {"content", "rehash", "delete"}
            /\ touched.org = o
            /\ ~ verify_chain(o).is_valid
            /\ verify_chain(o).broken_at = BreakAt
        BY <3>2, ReportedAt
      <4>2. Findings(o) = {[org |-> o, broken_at |-> BreakAt]}
        BY <4>1 DEF Findings
      <4> QED
        BY <4>1, <4>2, <2>2, <1>1 DEF AlertsExact, BreakAt
    <3> QED
      BY <3>1, <3>2
  <2> QED
    BY <2>1, <2>2
<1> QED
  BY <1>2, <1>3, <1>4, <1>5

(***************************************************************************)
(* However the appends, the change and the replays interleave.             *)
(***************************************************************************)
THEOREM VerifierInvariance == VerifierSpec => []VerifierInv
<1>1. VerifierInv /\ [VerifierNext]_vvars => VerifierInv'
  <2> SUFFICES ASSUME VerifierInv, [VerifierNext]_vvars PROVE VerifierInv'
    OBVIOUS
  <2>1. CASE Next /\ UNCHANGED <<touched, verifier>>
    <3>1. PICK w \in Writer :
            \/ \E o \in Org, c \in Content, u \in Unhashed :
                  AppendStart(w, o, c, u)
            \/ AppendStep(w)
            \/ AppendFail(w)
      BY <2>1 DEF Next
    <3> QED
      BY <2>1, <3>1, MoveVerifierInv, CommitVerifierInv DEF AppendStep
  <2>2. ASSUME NEW o \in Org, NEW kind \in Kind, NEW s \in Seqs(o),
               Tamper(o, s, kind)
        PROVE  VerifierInv'
    BY <2>2, TamperColumns, TamperRehash, TamperDelete DEF Kind
  <2>3. ASSUME NEW p \in Process,
               \/ CycleStart(p)
               \/ \E o \in Org : VerifyOrg(p, o) \/ VerifyError(p, o)
               \/ CycleEnd(p)
               \/ CycleLost(p)
        PROVE  VerifierInv'
    <3>1. /\ UNCHANGED <<vars, touched>>
          /\ alerts' = alerts \/ \E o \in Org : alerts' = alerts \cup Findings(o)
      BY <2>3 DEF CycleStart, VerifyOrg, VerifyError, CycleEnd, CycleLost
    <3> QED
      BY <3>1, CycleVerifierInv
  <2>4. CASE UNCHANGED vvars
    BY <2>4, CycleVerifierInv DEF vvars, verifier
  <2> QED
    BY <2>1, <2>2, <2>3, <2>4 DEF VerifierNext
<1> QED
  BY <1>1, InitVerifierInv, PTL DEF VerifierSpec

(***************************************************************************)
(* A row whose hashed part was changed, or that was removed, is reported   *)
(* at its place by every replay from then on, the last row's own removal   *)
(* or rewriting excepted: no append papers over it.                        *)
(***************************************************************************)
THEOREM TamperDetectedHolds == VerifierSpec => []TamperDetected
<1>1. VerifierInv => TamperDetected
  <2> SUFFICES ASSUME VerifierInv, Detectable
               PROVE  /\ ~ verify_chain(touched.org).is_valid
                      /\ verify_chain(touched.org).broken_at = BreakAt
    BY DEF TamperDetected
  <2>1. touched.org \in Org
    BY DEF VerifierInv, VerifierTypes, Change, Detectable
  <2>2. Broken(touched.org) # {}
    BY DEF VerifierInv, BreakStays, Broken
  <2> QED
    BY <2>1, <2>2, ReportedAt DEF VerifierInv
<1> QED
  BY <1>1, VerifierInvariance, PTL

(***************************************************************************)
(* No alert without a change, and none at another place, whatever was      *)
(* being appended while the chain was replayed.                            *)
(***************************************************************************)
THEOREM NoFalseAlertHolds == VerifierSpec => []NoFalseAlert
<1>1. VerifierInv => NoFalseAlert
  BY DEF VerifierInv, AlertsExact, NoFalseAlert
<1> QED
  BY <1>1, VerifierInvariance, PTL
=============================================================================
