-------------------------- MODULE AuditChainProofs --------------------------
(***************************************************************************)
(* Proofs about AuditChain, for any number of organisations, writers and   *)
(* entries and any assignment of lock keys.                                *)
(*                                                                         *)
(* The chain verifies because no two appends of one organisation are ever  *)
(* between the read of the tip and the commit: ChainInv adds to the three  *)
(* invariants the runs check who holds which lock (LockHeld), and states   *)
(* the links between neighbouring rows (Linked).                           *)
(***************************************************************************)
EXTENDS AuditChain, Sequences, FiniteSetTheorems, TLAPS

(***************************************************************************)
(* Whoever is past AppendLock holds the key of its organisation.           *)
(***************************************************************************)
LockHeld ==
    \A w \in Writer : call[w].pc \in {"locked", "tip"}
                         => lock[LockKey[call[w].org]] = w

(***************************************************************************)
(* The rows of an organisation are numbered 1..n.                          *)
(***************************************************************************)
Numbered == \A o \in Org : \E n \in Nat : Seqs(o) = 1..n

(***************************************************************************)
(* Each entry_hash covers the row and the entry_hash stored one below.     *)
(***************************************************************************)
Linked ==
    \A o \in Org : \A s \in Seqs(o) :
        log[o][s].entry_hash =
            compute_entry_hash(Canonical(o, s, log[o][s].content),
                IF s = 1 THEN AUDIT_CHAIN_GENESIS ELSE log[o][s - 1].entry_hash)

ChainInv == TypeOK /\ LockHeld /\ Numbered /\ Linked /\ TipIsCurrent

-----------------------------------------------------------------------------
(***************************************************************************)
(* The last number of 1..n is n.                                           *)
(***************************************************************************)
LEMMA LastOfInterval ==
    ASSUME NEW n \in Nat, n # 0
    PROVE  Last(1..n) = n
<1>1. n \in 1..n /\ \A t \in 1..n : t <= n
  OBVIOUS
<1>2. \A s \in 1..n : (\A t \in 1..n : t <= s) => s = n
  OBVIOUS
<1> QED
  BY <1>1, <1>2 DEF Last

(***************************************************************************)
(* What _get_chain_tip returns for a chain of n rows.                      *)
(***************************************************************************)
LEMMA TipOfInterval ==
    ASSUME NEW o \in Org, NEW n \in Nat, Seqs(o) = 1..n
    PROVE  /\ NextSeq(o) = n + 1
           /\ TipHash(o) = IF n = 0 THEN AUDIT_CHAIN_GENESIS
                                    ELSE log[o][n].entry_hash
<1>1. CASE n = 0
  <2>1. Seqs(o) = {}
    BY <1>1
  <2> QED
    BY <2>1, <1>1 DEF NextSeq, TipHash
<1>2. CASE n # 0
  <2>1. Seqs(o) # {}
    BY <1>2
  <2>2. Last(Seqs(o)) = n
    BY <1>2, LastOfInterval
  <2> QED
    BY <2>1, <2>2, <1>2 DEF NextSeq, TipHash
<1> QED
  BY <1>1, <1>2

(***************************************************************************)
(* In a chain numbered 1..n, the hash verify_chain carries into row s is   *)
(* the one stored in row s - 1.                                            *)
(***************************************************************************)
LEMMA PrevOfInterval ==
    ASSUME NEW o \in Org, NEW n \in Nat, Seqs(o) = 1..n, NEW s \in 1..n
    PROVE  PrevHash(o, s) = IF s = 1 THEN AUDIT_CHAIN_GENESIS
                                     ELSE log[o][s - 1].entry_hash
<1> DEFINE before == {t \in Seqs(o) : t < s}
<1>1. before = 1..(s - 1)
  OBVIOUS
<1>2. CASE s = 1
  <2>1. before = {}
    BY <1>1, <1>2
  <2> QED
    BY <2>1, <1>2 DEF PrevHash
<1>3. CASE s # 1
  <2>1. s - 1 \in Nat /\ s - 1 # 0
    BY <1>3
  <2>2. Last(before) = s - 1
    <3> HIDE DEF before
    <3> QED
      BY <2>1, <1>1, LastOfInterval
  <2>3. before # {}
    <3> HIDE DEF before
    <3>1. 1 \in 1..(s - 1)
      BY <2>1
    <3> QED
      BY <3>1, <1>1
  <2> QED
    BY <2>2, <2>3, <1>3 DEF PrevHash
<1> QED
  BY <1>2, <1>3

-----------------------------------------------------------------------------
(***************************************************************************)
(* The initial states satisfy the invariant.                               *)
(***************************************************************************)
LEMMA InitChainInv == Init => ChainInv
<1> SUFFICES ASSUME Init PROVE ChainInv
  OBVIOUS
<1>1. \A o \in Org : Seqs(o) = {}
  BY DEF Init, Seqs
<1>2. TypeOK
  BY <1>1 DEF Init, TypeOK, CallState, Idle
<1>3. LockHeld /\ TipIsCurrent
  BY DEF Init, LockHeld, TipIsCurrent, Idle
<1>4. Numbered
  <2>1. {} = 1..0 /\ 0 \in Nat
    OBVIOUS
  <2> QED
    BY <1>1, <2>1 DEF Numbered
<1>5. Linked
  BY <1>1 DEF Linked
<1> QED
  BY <1>2, <1>3, <1>4, <1>5 DEF ChainInv

(***************************************************************************)
(* A step that leaves the table alone keeps the facts about the table.     *)
(***************************************************************************)
LEMMA SameLog ==
    ASSUME Numbered, Linked, UNCHANGED log
    PROVE  /\ Numbered' /\ Linked'
           /\ \A o \in Org : /\ Seqs(o)' = Seqs(o)
                             /\ NextSeq(o)' = NextSeq(o)
                             /\ TipHash(o)' = TipHash(o)
BY DEF Numbered, Linked, Seqs, NextSeq, TipHash

(***************************************************************************)
(* Releasing the locks of one call takes none from another.                *)
(***************************************************************************)
LEMMA ReleasedLocks ==
    ASSUME TypeOK, NEW w \in Writer, lock' = Released(w)
    PROVE  /\ lock' \in [Key -> Writer \cup {None}]
           /\ \A k \in Key, v \in Writer \ {w} : lock[k] = v => lock'[k] = v
BY DEF TypeOK, Released

(***************************************************************************)
(* Every organisation has a lock key.                                      *)
(***************************************************************************)
LEMMA KeyOfOrg == \A o \in Org : LockKey[o] \in Key
BY DEF Key

(***************************************************************************)
(* A call that ends without committing.                                    *)
(***************************************************************************)
LEMMA FailChainInv ==
    ASSUME ChainInv, NEW w \in Writer, AppendFail(w)
    PROVE  ChainInv'
<1> USE DEF ChainInv
<1>1. UNCHANGED log /\ Numbered' /\ Linked'
  BY SameLog DEF AppendFail
<1>2. lock' \in [Key -> Writer \cup {None}]
  BY ReleasedLocks DEF AppendFail
<1>3. \A v \in Writer : call'[v] = IF v = w THEN Idle ELSE call[v]
  BY DEF AppendFail, TypeOK
<1>4. TypeOK'
  BY <1>1, <1>2, <1>3 DEF TypeOK, CallState, TipState, AppendFail, Seqs
<1>5. LockHeld'
  <2> SUFFICES ASSUME NEW v \in Writer, call'[v].pc \in {"locked", "tip"}
               PROVE  lock'[LockKey[call'[v].org]] = v
    BY DEF LockHeld
  <2>1. v # w /\ call'[v] = call[v]
    BY <1>3 DEF Idle
  <2>2. call[v].org \in Org
    BY <2>1 DEF TypeOK, CallState, TipState, Idle
  <2> QED
    BY <2>1, <2>2, KeyOfOrg, ReleasedLocks DEF LockHeld, AppendFail
<1>6. TipIsCurrent'
  <2> SUFFICES ASSUME NEW v \in Writer, call'[v].pc = "tip"
               PROVE  (/\ call[v].sequence_number = NextSeq(call[v].org)
                       /\ call[v].previous_hash = TipHash(call[v].org))'
    BY DEF TipIsCurrent
  <2>1. v # w /\ call'[v] = call[v]
    BY <1>3 DEF Idle
  <2>2. /\ call[v].sequence_number = NextSeq(call[v].org)
        /\ call[v].previous_hash = TipHash(call[v].org)
    BY <2>1 DEF TipIsCurrent
  <2> QED
    BY <2>1, <2>2, <1>1 DEF NextSeq, TipHash, Seqs
<1> QED
  BY <1>1, <1>4, <1>5, <1>6

(***************************************************************************)
(* A step that starts a call or moves it forward, without touching the     *)
(* table: the other calls stay where they are.                             *)
(***************************************************************************)
LEMMA MoveChainInv ==
    ASSUME ChainInv, NEW w \in Writer,
           AppendReadTip(w) \/ AppendLock(w)
             \/ \E o \in Org, c \in Content, u \in Unhashed :
                   AppendStart(w, o, c, u)
    PROVE  ChainInv'
<1> USE DEF ChainInv
<1>1. UNCHANGED log /\ Numbered' /\ Linked'
  BY SameLog DEF AppendReadTip, AppendLock, AppendStart
<1>2. /\ DOMAIN call' = Writer
      /\ \A v \in Writer \ {w} : call'[v] = call[v]
  BY DEF AppendReadTip, AppendLock, AppendStart, TypeOK
<1>3. \A v \in Writer : call[v].pc \in {"begun", "locked", "tip"} => call[v].org \in Org
  BY DEF TypeOK, CallState, TipState, Idle
<1>4. /\ call'[w] \in CallState \/ TipState(call'[w])
      /\ call'[w].pc \in {"locked", "tip"} =>
            lock'[LockKey[call'[w].org]] = w
      /\ lock' \in [Key -> Writer \cup {None}]
      /\ \A k \in Key : lock[k] # None => lock'[k] = lock[k]
  <2>1. CASE \E o \in Org, c \in Content, u \in Unhashed : AppendStart(w, o, c, u)
    BY <2>1 DEF AppendStart, TypeOK, CallState
  <2>2. CASE AppendLock(w)
    <3>1. call[w] \in [pc : {"begun", "locked"}, org : Org, content : Content,
                        unhashed : Unhashed]
      BY <2>2 DEF AppendLock, TypeOK, CallState, TipState, Idle
    <3>2. call'[w] \in [pc : {"begun", "locked"}, org : Org, content : Content,
                         unhashed : Unhashed]
          /\ call'[w].org = call[w].org
      BY <2>2, <3>1 DEF AppendLock, TypeOK
    <3> QED
      BY <2>2, <3>1, <3>2, KeyOfOrg DEF AppendLock, TypeOK, CallState
  <2>3. CASE AppendReadTip(w)
    <3>1. call[w] \in [pc : {"begun", "locked"}, org : Org, content : Content,
                        unhashed : Unhashed]
      BY <2>3 DEF AppendReadTip, TypeOK, CallState, TipState, Idle
    <3> DEFINE o == call[w].org
    <3>2. PICK n \in Nat : Seqs(o) = 1..n
      BY <3>1 DEF Numbered
    <3>3. NextSeq(o) \in Nat \ {0}
      BY <3>1, <3>2, TipOfInterval
    <3>4. call'[w] = [pc |-> "tip", org |-> o, content |-> call[w].content,
                      unhashed |-> call[w].unhashed,
                      previous_hash |-> TipHash(o),
                      sequence_number |-> NextSeq(o)]
      BY <2>3 DEF AppendReadTip, TypeOK
    <3>5. TipState(call'[w]) /\ call'[w].org = call[w].org
      BY <3>1, <3>3, <3>4 DEF TipState
    <3> QED
      BY <2>3, <3>5 DEF AppendReadTip, TypeOK, LockHeld
  <2> QED
    BY <2>1, <2>2, <2>3
<1>5. TypeOK'
  BY <1>1, <1>2, <1>4 DEF TypeOK, Seqs
<1>6. LockHeld'
  <2> SUFFICES ASSUME NEW v \in Writer, call'[v].pc \in {"locked", "tip"}
               PROVE  lock'[LockKey[call'[v].org]] = v
    BY DEF LockHeld
  <2>1. CASE v = w
    BY <2>1, <1>4
  <2>2. CASE v # w
    <3>1. call'[v] = call[v] /\ LockKey[call[v].org] \in Key
      BY <2>2, <1>2, <1>3, KeyOfOrg
    <3> QED
      BY <3>1, <1>4, ConstantsAssumption DEF LockHeld
  <2> QED
    BY <2>1, <2>2
<1>7. TipIsCurrent'
  <2> SUFFICES ASSUME NEW v \in Writer, call'[v].pc = "tip"
               PROVE  (/\ call[v].sequence_number = NextSeq(call[v].org)
                       /\ call[v].previous_hash = TipHash(call[v].org))'
    BY DEF TipIsCurrent
  <2>1. PICK o \in Org : call'[v].org = o
    BY <1>5 DEF TypeOK, CallState, TipState, Idle
  <2>2. call'[v].sequence_number = NextSeq(o) /\ call'[v].previous_hash = TipHash(o)
    <3>1. CASE v # w
      BY <3>1, <1>2, <2>1 DEF TipIsCurrent
    <3>2. CASE v = w /\ AppendReadTip(w)
      BY <3>2, <2>1 DEF AppendReadTip, TypeOK
    <3>3. CASE v = w /\ ~ AppendReadTip(w)
      <4>1. call'[w].pc # "tip"
        BY <3>3 DEF AppendLock, AppendStart, TypeOK, CallState, TipState, Idle
      <4> QED
        BY <4>1, <3>3
    <3> QED
      BY <3>1, <3>2, <3>3
  <2>3. NextSeq(o)' = NextSeq(o) /\ TipHash(o)' = TipHash(o)
    BY <1>1 DEF NextSeq, TipHash, Seqs
  <2> QED
    BY <2>1, <2>2, <2>3 DEF NextSeq, TipHash, Seqs
<1> QED
  BY <1>1, <1>5, <1>6, <1>7

(***************************************************************************)
(* What a commit does to the table: row n + 1 appears, the rest stays.     *)
(***************************************************************************)
LEMMA CommitExtends ==
    ASSUME ChainInv, NEW w \in Writer, AppendCommit(w)
    PROVE  \E o \in Org, n \in Nat :
              /\ call[w].pc = "tip" /\ call[w].org = o
              /\ Seqs(o) = 1..n
              /\ Seqs(o)' = 1..(n + 1)
              /\ \A s \in 1..n : log'[o][s] = log[o][s]
              /\ log'[o][n + 1].content = call[w].content
              /\ log'[o][n + 1].unhashed = call[w].unhashed
              /\ log'[o][n + 1].entry_hash =
                    compute_entry_hash(Canonical(o, n + 1, call[w].content),
                                       TipHash(o))
              /\ \A p \in Org \ {o} : log'[p] = log[p]
              /\ DOMAIN log' = Org
<1> USE DEF ChainInv
<1>1. TipState(call[w]) /\ call[w].pc = "tip"
  BY DEF AppendCommit, TypeOK, CallState, Idle
<1>2. PICK o \in Org : call[w].org = o
  BY <1>1 DEF TipState
<1>3. PICK n \in Nat : Seqs(o) = 1..n
  BY DEF Numbered
<1>4. call[w].sequence_number = n + 1 /\ call[w].previous_hash = TipHash(o)
  BY <1>1, <1>2, <1>3, TipOfInterval DEF TipIsCurrent
<1>5. log' = [log EXCEPT ![o] =
                 [s \in 1..n \cup {n + 1} |->
                    IF s = n + 1 THEN NewEntry(call[w]) ELSE log[o][s]]]
  BY <1>2, <1>3, <1>4 DEF AppendCommit
<1>6. 1..n \cup {n + 1} = 1..(n + 1)
  OBVIOUS
<1>7. /\ DOMAIN log' = Org
      /\ \A p \in Org \ {o} : log'[p] = log[p]
      /\ log'[o] = [s \in 1..(n + 1) |->
                      IF s = n + 1 THEN NewEntry(call[w]) ELSE log[o][s]]
  BY <1>5, <1>6 DEF TypeOK
<1>8. Seqs(o)' = 1..(n + 1)
  BY <1>7 DEF Seqs
<1>9. /\ \A s \in 1..n : log'[o][s] = log[o][s]
      /\ log'[o][n + 1] = NewEntry(call[w])
  BY <1>7
<1>10. /\ NewEntry(call[w]).content = call[w].content
       /\ NewEntry(call[w]).unhashed = call[w].unhashed
       /\ NewEntry(call[w]).entry_hash =
             compute_entry_hash(Canonical(o, n + 1, call[w].content), TipHash(o))
  BY <1>2, <1>4 DEF NewEntry
<1> QED
  BY <1>1, <1>2, <1>3, <1>7, <1>8, <1>9, <1>10

(***************************************************************************)
(* A commit preserves the invariant: nobody else of the same organisation  *)
(* can be at a tip, since both would hold its lock.                        *)
(***************************************************************************)
LEMMA CommitChainInv ==
    ASSUME ChainInv, NEW w \in Writer, AppendCommit(w)
    PROVE  ChainInv'
<1> USE DEF ChainInv
<1>1. PICK o \in Org, n \in Nat :
              /\ call[w].pc = "tip" /\ call[w].org = o
              /\ Seqs(o) = 1..n
              /\ Seqs(o)' = 1..(n + 1)
              /\ \A s \in 1..n : log'[o][s] = log[o][s]
              /\ log'[o][n + 1].content = call[w].content
              /\ log'[o][n + 1].unhashed = call[w].unhashed
              /\ log'[o][n + 1].entry_hash =
                    compute_entry_hash(Canonical(o, n + 1, call[w].content),
                                       TipHash(o))
              /\ \A p \in Org \ {o} : log'[p] = log[p]
              /\ DOMAIN log' = Org
  BY CommitExtends
<1>2. \A p \in Org \ {o} : Seqs(p)' = Seqs(p)
  BY <1>1 DEF Seqs
<1>3. \A v \in Writer : call'[v] = IF v = w THEN Idle ELSE call[v]
  BY DEF AppendCommit, TypeOK
<1>4. \A v \in Writer : call[v].pc \in {"locked", "tip"} => call[v].org \in Org
  BY DEF TypeOK, CallState, TipState, Idle
<1>5. TipState(call[w])
  BY <1>1 DEF TypeOK, CallState, Idle
<1>6. \A s \in 1..(n + 1) : s \in 1..n \/ s = n + 1
  OBVIOUS
<1>7. TypeOK'
  <2>1. lock' \in [Key -> Writer \cup {None}]
    BY ReleasedLocks DEF AppendCommit
  <2>2. DOMAIN call' = Writer
        /\ \A v \in Writer : call'[v] \in CallState \/ TipState(call'[v])
    BY <1>3 DEF AppendCommit, TypeOK, CallState
  <2>3. ASSUME NEW p \in Org
        PROVE  /\ Seqs(p)' \subseteq Nat \ {0}
               /\ \A s \in Seqs(p)' : /\ log'[p][s].content \in Content
                                       /\ log'[p][s].unhashed \in Unhashed
    <3>1. CASE p # o
      BY <3>1, <1>1, <1>2 DEF TypeOK
    <3>2. CASE p = o
      BY <3>2, <1>1, <1>5, <1>6 DEF TypeOK, TipState
    <3> QED
      BY <3>1, <3>2
  <2> QED
    BY <1>1, <2>1, <2>2, <2>3 DEF TypeOK
<1>8. Numbered'
  <2> SUFFICES ASSUME NEW p \in Org
               PROVE  \E m \in Nat : Seqs(p)' = 1..m
    BY DEF Numbered
  <2>1. CASE p = o
    BY <2>1, <1>1
  <2>2. CASE p # o
    BY <2>2, <1>2 DEF Numbered
  <2> QED
    BY <2>1, <2>2
<1>9. LockHeld'
  <2> SUFFICES ASSUME NEW v \in Writer, call'[v].pc \in {"locked", "tip"}
               PROVE  lock'[LockKey[call'[v].org]] = v
    BY DEF LockHeld
  <2>1. v # w /\ call'[v] = call[v]
    BY <1>3 DEF Idle
  <2> QED
    BY <2>1, <1>4, KeyOfOrg, ReleasedLocks DEF LockHeld, AppendCommit
<1>10. TipIsCurrent'
  <2> SUFFICES ASSUME NEW v \in Writer, call'[v].pc = "tip"
               PROVE  (/\ call[v].sequence_number = NextSeq(call[v].org)
                       /\ call[v].previous_hash = TipHash(call[v].org))'
    BY DEF TipIsCurrent
  <2>1. v # w /\ call'[v] = call[v]
    BY <1>3 DEF Idle
  <2>2. PICK p \in Org : call[v].org = p
    BY <2>1, <1>4
  <2>3. p # o
    BY <1>1, <2>1, <2>2 DEF LockHeld
  <2>4. log'[p] = log[p]
    BY <1>1, <2>3
  <2>5. call[v].sequence_number = NextSeq(p) /\ call[v].previous_hash = TipHash(p)
    BY <2>1, <2>2 DEF TipIsCurrent
  <2> QED
    BY <2>1, <2>2, <2>4, <2>5 DEF NextSeq, TipHash, Seqs
<1>11. Linked'
  <2> SUFFICES ASSUME NEW p \in Org, NEW s \in Seqs(p)'
               PROVE  log'[p][s].entry_hash =
                        compute_entry_hash(Canonical(p, s, log'[p][s].content),
                            IF s = 1 THEN AUDIT_CHAIN_GENESIS
                                     ELSE log'[p][s - 1].entry_hash)
    BY DEF Linked
  <2>1. CASE p # o
    BY <2>1, <1>1, <1>2 DEF Linked
  <2>2. CASE p = o /\ s \in 1..n
    <3>1. s # 1 => s - 1 \in 1..n
      BY <2>2
    <3> QED
      BY <2>2, <3>1, <1>1 DEF Linked
  <2>3. CASE p = o /\ s = n + 1
    <3>1. TipHash(o) = IF n = 0 THEN AUDIT_CHAIN_GENESIS ELSE log[o][n].entry_hash
      BY <1>1, TipOfInterval
    <3>2. (s = 1 <=> n = 0) /\ s - 1 = n /\ (n # 0 => n \in 1..n)
      BY <2>3
    <3> QED
      BY <2>3, <3>1, <3>2, <1>1
  <2> QED
    BY <2>1, <2>2, <2>3, <1>1, <1>6
<1> QED
  BY <1>7, <1>8, <1>9, <1>10, <1>11

-----------------------------------------------------------------------------
(***************************************************************************)
(* Every step of the specification preserves ChainInv.                     *)
(***************************************************************************)
THEOREM ChainInvariance == Spec => []ChainInv
<1>1. ChainInv /\ [Next]_vars => ChainInv'
  <2> SUFFICES ASSUME ChainInv, [Next]_vars PROVE ChainInv'
    OBVIOUS
  <2>1. CASE Next
    <3>1. PICK w \in Writer :
            \/ \E o \in Org, c \in Content, u \in Unhashed :
                  AppendStart(w, o, c, u)
            \/ AppendStep(w)
            \/ AppendFail(w)
      BY <2>1 DEF Next
    <3> QED
      BY <3>1, MoveChainInv, CommitChainInv, FailChainInv DEF AppendStep
  <2>2. CASE UNCHANGED vars
    BY <2>2 DEF vars, ChainInv, TypeOK, LockHeld, Numbered, Linked,
                TipIsCurrent, Seqs, NextSeq, TipHash
  <2> QED
    BY <2>1, <2>2
<1> QED
  BY <1>1, InitChainInv, PTL DEF Spec

(***************************************************************************)
(* Type correctness of append() and its table.                             *)
(***************************************************************************)
THEOREM TypeCorrect == Spec => []TypeOK
BY ChainInvariance, PTL DEF ChainInv

(***************************************************************************)
(* The tip read under the advisory lock is the tip at the INSERT.          *)
(***************************************************************************)
THEOREM TipIsCurrentHolds == Spec => []TipIsCurrent
BY ChainInvariance, PTL DEF ChainInv

(***************************************************************************)
(* Sequence numbers never skip or repeat, whatever appends fail.           *)
(***************************************************************************)
THEOREM ContiguousHolds == Spec => []Contiguous
<1>1. ChainInv => Contiguous
  <2> SUFFICES ASSUME ChainInv, NEW o \in Org
               PROVE  \E n \in 0..Cardinality(Seqs(o)) : Seqs(o) = 1..n
    BY DEF Contiguous
  <2>1. PICK n \in Nat : Seqs(o) = 1..n
    BY DEF ChainInv, Numbered
  <2>2. Cardinality(1..n) = n
    BY FS_Interval
  <2> QED
    BY <2>1, <2>2
<1> QED
  BY <1>1, ChainInvariance, PTL

(***************************************************************************)
(* verify_chain accepts every chain that append() alone has written.       *)
(***************************************************************************)
THEOREM ChainIntactHolds == Spec => []ChainIntact
<1>1. ChainInv => ChainIntact
  <2> SUFFICES ASSUME ChainInv, NEW o \in Org
               PROVE  verify_chain(o).is_valid
    BY DEF ChainIntact
  <2>1. PICK n \in Nat : Seqs(o) = 1..n
    BY DEF ChainInv, Numbered
  <2>2. ASSUME NEW s \in Seqs(o) PROVE LinkHolds(o, s)
    BY <2>1, <2>2, PrevOfInterval DEF ChainInv, Linked, LinkHolds
  <2>3. Broken(o) = {}
    BY <2>2 DEF Broken
  <2> QED
    BY <2>3 DEF verify_chain
<1> QED
  BY <1>1, ChainInvariance, PTL

-----------------------------------------------------------------------------
(***************************************************************************)
(* append() implements the abstract ledger: a commit is one Record, every  *)
(* other step a stutter.                                                   *)
(***************************************************************************)
THEOREM LedgerRefinement == Spec => ImplementsLedger
<1> DEFINE rows(o) == [s \in Seqs(o) |-> log[o][s].content]
           book == [o \in Org |-> rows(o)]
<1>1. Init => Ledger!Init
  <2> SUFFICES ASSUME Init, NEW o \in Org PROVE rows(o) = << >>
    BY DEF Ledger!Init
  <2>1. Seqs(o) = {}
    BY DEF Init, Seqs
  <2> QED
    BY <2>1
<1>2. ChainInv /\ [Next]_vars => [Ledger!Next]_book
  <2> SUFFICES ASSUME ChainInv, [Next]_vars PROVE Ledger!Next \/ book' = book
    OBVIOUS
  <2>1. CASE UNCHANGED log
    BY <2>1 DEF Seqs
  <2>2. CASE \E w \in Writer : AppendCommit(w)
    <3>1. PICK w \in Writer : AppendCommit(w)
      BY <2>2
    <3>2. PICK o \in Org, n \in Nat :
              /\ call[w].pc = "tip" /\ call[w].org = o
              /\ Seqs(o) = 1..n
              /\ Seqs(o)' = 1..(n + 1)
              /\ \A s \in 1..n : log'[o][s] = log[o][s]
              /\ log'[o][n + 1].content = call[w].content
              /\ \A p \in Org \ {o} : log'[p] = log[p]
      BY <3>1, CommitExtends
    <3>3. PICK c \in Content : call[w].content = c
      BY <3>2 DEF ChainInv, TypeOK, CallState, TipState, Idle
    <3>4. \A p \in Org \ {o} : rows(p)' = rows(p)
      BY <3>2 DEF Seqs
    <3>5. rows(o) \in Seq(Content) /\ Len(rows(o)) = n
      BY <3>2 DEF ChainInv, TypeOK
    <3>6. rows(o)' = Append(rows(o), c)
      <4>1. rows(o)' = [s \in 1..(n + 1) |-> log'[o][s].content]
        BY <3>2
      <4>2. Append(rows(o), c) =
              [s \in 1..(n + 1) |-> IF s = n + 1 THEN c ELSE rows(o)[s]]
        BY <3>5
      <4>3. \A s \in 1..n : rows(o)[s] = log[o][s].content
        BY <3>2
      <4>4. \A s \in 1..(n + 1) :
              log'[o][s].content = IF s = n + 1 THEN c ELSE rows(o)[s]
        BY <3>2, <3>3, <4>3
      <4> QED
        BY <4>1, <4>2, <4>4
    <3>7. book' = [book EXCEPT ![o] = Append(@, c)]
      BY <3>4, <3>6
    <3> QED
      BY <3>7 DEF Ledger!Next, Ledger!Record
  <2> QED
    BY <2>1, <2>2 DEF Next, AppendStep, AppendStart, AppendLock, AppendReadTip,
                      AppendFail, vars
<1> QED
  BY <1>1, <1>2, ChainInvariance, PTL DEF Spec, ImplementsLedger, Ledger!Spec
=============================================================================
