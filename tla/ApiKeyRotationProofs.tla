------------------------ MODULE ApiKeyRotationProofs ------------------------
(***************************************************************************)
(* Proofs about ApiKeyRotation for any keys, lifetimes, graces and numbers *)
(* of requests and worker processes.                                       *)
(*                                                                         *)
(* Rotations race: two of them may have read the same active key.  What    *)
(* holds all the same rests on three facts about a transaction in flight   *)
(* (InFlight): the rows it has inserted are nobody else's, no time has     *)
(* passed since, and a worker that has one open holds the cycle lock.      *)
(***************************************************************************)
EXTENDS ApiKeyRotation, TLAPS

Graces == Grace \cup {WorkerGrace}

Olds(r) == {i.old : i \in Inserts(r)}

InFlight(r) ==
    /\ req[r] # Idle =>
          /\ req[r].grace \in Graces
          /\ req[r].todo \subseteq Rows
    /\ r \in Worker /\ req[r] # Idle => cycleLock = r
    /\ \A i \in Inserts(r) :
          /\ i.new \notin Rows /\ i.old \in Rows
          /\ i.at = now /\ i.by = r
          /\ i.old \notin req[r].todo
    /\ \A i, j \in Inserts(r) : i # j => i.new # j.new /\ i.old # j.old

(***************************************************************************)
(* No two transactions insert the same key.                                *)
(***************************************************************************)
Disjoint ==
    \A r, s \in Session : r # s =>
        \A i \in Inserts(r), j \in Inserts(s) : i.new # j.new

(***************************************************************************)
(* A key that was rotated is a row, not active, and was rotated in the     *)
(* past.                                                                   *)
(***************************************************************************)
Retired(k) ==
    rotatedAt[k] # None => k \in Rows /\ k \notin active /\ rotatedAt[k] <= now

(***************************************************************************)
(* A successor's predecessor was rotated, and its grace runs from then or  *)
(* from earlier.                                                           *)
(***************************************************************************)
Succession(n) ==
    row[n].previous # None =>
        /\ rotatedAt[row[n].previous] # None
        /\ \E g \in Graces :
              row[n].previousExpires <= rotatedAt[row[n].previous] + g

(***************************************************************************)
(* What a worker is about to rotate no worker has rotated before.          *)
(***************************************************************************)
WorkersApart ==
    \A w \in Worker : req[w] # Idle =>
        \A n \in Rows : row[n].by \in Worker =>
            row[n].previous \notin req[w].todo \cup Olds(w)

(***************************************************************************)
(* Rows made by a rotation have a predecessor; those issued have none.     *)
(***************************************************************************)
RotationInv ==
    /\ TypeOK
    /\ active \subseteq Rows
    /\ \A r \in Session : InFlight(r)
    /\ Disjoint
    /\ \A k \in Key : Retired(k)
    /\ \A n \in Rows : Succession(n)
    /\ \A n \in Rows : row[n].by # None => row[n].previous # None
    /\ WorkersApart
    /\ OneSuccessor

-----------------------------------------------------------------------------
(***************************************************************************)
(* The rotator tried k in this unit and failed.                            *)
(***************************************************************************)
Failed(k) == <<k, now>> \in failed

(***************************************************************************)
(* A cycle that is over leaves no due key that it has not failed to        *)
(* rotate, and one in flight has all the others on its list or rotated     *)
(* already.                                                                *)
(***************************************************************************)
CaughtUp == ran => \A k \in get_keys_needing_rotation : Failed(k)

Covers(w) ==
    req[w] # Idle =>
        \A k \in get_keys_needing_rotation : k \in req[w].todo \cup Olds(w) \/ Failed(k)

(***************************************************************************)
(* The last rotation of a key left a successor with its full grace.        *)
(***************************************************************************)
Succeeded(k) ==
    rotatedAt[k] # None =>
        \E n \in Rows, g \in Graces :
            row[n].previous = k /\ row[n].previousExpires = rotatedAt[k] + g

(***************************************************************************)
(* A key stops being active by a rotation or a revocation only.            *)
(***************************************************************************)
Accounted(n) == n \in active \/ rotatedAt[n] # None \/ n \in revoked

ServiceInv ==
    /\ \A n \in Rows : row[n].created <= now /\ Accounted(n)
    /\ RotatedBeforeExpiry
    /\ CaughtUp
    /\ \A w \in Worker : Covers(w)
    /\ \A k \in Key : Succeeded(k)

-----------------------------------------------------------------------------
LEMMA NoneApart ==
    /\ \A k \in Key : k # None
    /\ \A t \in Nat : t # None
BY ConstantsAssumption

LEMMA RowType ==
    ASSUME TypeOK, NEW k \in Rows
    PROVE  row[k] \in Row /\ row[k] # None /\ k \in Key
BY DEF TypeOK, Rows

(***************************************************************************)
(* A transaction that is open, and what it has inserted.                   *)
(***************************************************************************)
LEMMA OpenType ==
    ASSUME TypeOK, NEW r \in Session
    PROVE  /\ req[r] # Idle => req[r] \in Open /\ Inserts(r) = req[r].inserts
           /\ req[r] = Idle => Inserts(r) = {}
           /\ Inserts(r) \subseteq Insert
BY DEF TypeOK, Inserts, Open

LEMMA OpenNotIdle ==
    ASSUME NEW q \in Open
    PROVE  q # Idle
BY DEF Open, Idle

LEMMA OpenUpdated ==
    ASSUME NEW q \in Open, NEW t \in SUBSET Key, NEW s \in SUBSET Insert
    PROVE  [q EXCEPT !.todo = t, !.inserts = s] \in Open
BY DEF Open

(***************************************************************************)
(* The steps that insert and commit nothing.                               *)
(***************************************************************************)
LEMMA IssueStep ==
    ASSUME RotationInv, NEW k \in Key, NEW ttl \in Ttl, issue_key(k, ttl)
    PROVE  RotationInv'
<1> USE DEF RotationInv
<1> DEFINE new == [created |-> now, expires |-> now + ttl, previous |-> None,
                   previousExpires |-> 0, by |-> None]
<1>1. /\ k \notin Rows
      /\ \A r \in Session : \A i \in Inserts(r) : i.new # k
      /\ row' = [row EXCEPT ![k] = new]
      /\ active' = active \cup {k}
      /\ UNCHANGED <<now, rotatedAt, lock, cycleLock, ran, req, revoked, failed>>
  BY DEF issue_key, Fresh
<1>2. new \in Row /\ new # None
  BY ConstantsAssumption DEF Row, TypeOK
<1>3. /\ Rows' = Rows \cup {k}
      /\ row'[k].previous = None /\ row'[k].by = None
      /\ \A n \in Rows : row'[n] = row[n]
  BY <1>1, <1>2 DEF Rows, TypeOK
<1>4. TypeOK'
  BY <1>1, <1>2 DEF TypeOK
<1>5. \A r \in Session : Inserts(r)' = Inserts(r)
  BY <1>1 DEF Inserts
<1>6. (\A r \in Session : InFlight(r))' /\ Disjoint'
  BY <1>1, <1>3, <1>5 DEF InFlight, Disjoint
<1>7. \A n \in Key : Retired(n)'
  BY <1>1, <1>3 DEF Retired, Rows
<1>8. \A n \in Rows' : Succession(n)'
  BY <1>1, <1>3 DEF Succession
<1>9. WorkersApart' /\ OneSuccessor'
  <2>1. None \notin Worker
    BY ConstantsAssumption
  <2>2. \A w \in Worker : Olds(w)' = Olds(w)
    BY <1>5 DEF Olds, Session
  <2> QED
    BY <1>1, <1>3, <2>1, <2>2 DEF WorkersApart, OneSuccessor
<1> QED
  BY <1>1, <1>3, <1>4, <1>6, <1>7, <1>8, <1>9

LEMMA BeginStep ==
    ASSUME RotationInv, NEW r \in Session, NEW q \in Open, req[r] = Idle,
           req' = [req EXCEPT ![r] = q],
           q.inserts = {}, q.grace \in Graces, q.todo \subseteq active,
           cycleLock' \in Worker \cup {None},
           r \in Worker => cycleLock = None /\ cycleLock' = r,
           r \notin Worker => cycleLock' = cycleLock,
           UNCHANGED <<now, row, active, rotatedAt, lock, ran, revoked, failed>>
    PROVE  RotationInv'
<1> USE DEF RotationInv
<1>1. Rows' = Rows /\ \A s \in Session : Inserts(s)' = Inserts(s)
  BY OpenNotIdle, OpenType DEF Rows, Inserts, TypeOK
<1>2. TypeOK'
  BY DEF TypeOK
<1>3. req'[r] = q /\ (\A s \in Session \ {r} : req'[s] = req[s])
  BY DEF TypeOK
<1>4. ASSUME NEW s \in Session PROVE InFlight(s)'
  <2>1. CASE s = r
    BY <1>1, <1>3, <2>1, OpenType DEF InFlight
  <2>2. CASE s # r
    <3>1. InFlight(s) /\ req'[s] = req[s]
      BY <1>3, <2>2
    <3>2. s \in Worker /\ req[s] # Idle => cycleLock' = s
      BY <2>2, <3>1, ConstantsAssumption DEF InFlight
    <3> QED
      BY <1>1, <3>1, <3>2 DEF InFlight
  <2> QED
    BY <2>1, <2>2
<1>5. Disjoint'
  BY <1>1 DEF Disjoint
<1>6. WorkersApart'
  <2>1. \A n \in Rows : row[n].by \in Worker => row[n].previous \notin active
    BY ConstantsAssumption, RowType DEF Succession, Retired, Row
  <2>2. \A w \in Worker : Olds(w)' = Olds(w)
    BY <1>1 DEF Olds, Session
  <2>3. Olds(r) = {}
    BY OpenType DEF Olds
  <2> QED
    BY <1>1, <1>3, <2>1, <2>2, <2>3 DEF WorkersApart, Session
<1>7. /\ \A k \in Key : Retired(k)'
      /\ \A n \in Rows' : Succession(n)'
      /\ OneSuccessor'
  BY <1>1 DEF Retired, Succession, OneSuccessor
<1> QED
  BY <1>1, <1>2, <1>4, <1>5, <1>6, <1>7

LEMMA RevokeStep ==
    ASSUME RotationInv, NEW k \in Key, revoke_key(k)
    PROVE  RotationInv'
<1> USE DEF RotationInv
<1>1. /\ active' = active \ {k} /\ revoked' = revoked \cup {k}
      /\ UNCHANGED <<now, row, rotatedAt, lock, cycleLock, ran, req, failed>>
  BY DEF revoke_key
<1>2. Rows' = Rows /\ \A s \in Session : Inserts(s)' = Inserts(s)
  BY <1>1 DEF Rows, Inserts
<1>3. \A w \in Worker : Olds(w)' = Olds(w)
  BY <1>2 DEF Olds, Session
<1>4. TypeOK'
  BY <1>1 DEF TypeOK
<1>5. (\A r \in Session : InFlight(r))' /\ Disjoint' /\ WorkersApart'
  BY <1>1, <1>2, <1>3 DEF InFlight, Disjoint, WorkersApart
<1>6. /\ \A n \in Key : Retired(n)'
      /\ \A n \in Rows' : Succession(n)'
      /\ OneSuccessor'
  BY <1>1, <1>2 DEF Retired, Succession, OneSuccessor
<1> QED
  BY <1>1, <1>2, <1>4, <1>5, <1>6

LEMMA TickStep ==
    ASSUME RotationInv, Tick
    PROVE  RotationInv'
<1> USE DEF RotationInv
<1>1. /\ \A r \in Session : req[r] = Idle
      /\ now \in Nat /\ now' = now + 1 /\ ran' = FALSE
      /\ UNCHANGED <<row, active, rotatedAt, lock, cycleLock, req, revoked, failed>>
  BY DEF Tick, TypeOK
<1>2. Rows' = Rows /\ \A s \in Session : Inserts(s)' = {}
  BY <1>1 DEF Rows, Inserts
<1>3. TypeOK'
  <2>1. now' \in Nat
    BY <1>1
  <2>2. ran' \in BOOLEAN
    BY <1>1, Zenon
  <2> QED
    BY <1>1, <2>1, <2>2, Zenon DEF TypeOK
<1>4. (\A r \in Session : InFlight(r))' /\ Disjoint' /\ WorkersApart'
  BY <1>1, <1>2 DEF InFlight, Disjoint, WorkersApart, Session
<1>5. ASSUME NEW k \in Key PROVE Retired(k)'
  <2>1. Retired(k) /\ rotatedAt[k] \in Nat \cup {None}
    BY DEF TypeOK
  <2> QED
    BY <1>1, <1>2, <2>1 DEF Retired
<1>6. (\A n \in Rows' : Succession(n)') /\ OneSuccessor'
  BY <1>1, <1>2 DEF Succession, OneSuccessor
<1> QED
  BY <1>1, <1>2, <1>3, <1>4, <1>5, <1>6

LEMMA AbortStep ==
    ASSUME RotationInv, NEW r \in Session, Abort(r)
    PROVE  RotationInv'
<1> USE DEF RotationInv
<1>1. /\ lock' = [k \in Key |-> IF lock[k] = r THEN None ELSE lock[k]]
      /\ cycleLock' = IF cycleLock = r THEN None ELSE cycleLock
      /\ req' = [req EXCEPT ![r] = Idle]
      /\ ran' = (ran \/ r \in Worker)
      /\ failed' \subseteq failed \cup ((req[r].todo \cup Olds(r)) \X {now})
      /\ UNCHANGED <<now, row, active, rotatedAt, revoked>>
  <2>1. req[r] # Idle => Olds(r) = {i.old : i \in req[r].inserts}
    BY DEF Olds, Inserts
  <2> QED
    BY <2>1 DEF Abort, Close
<1>2. req'[r] = Idle /\ \A s \in Session \ {r} : req'[s] = req[s]
  BY <1>1 DEF TypeOK
<1>3. /\ Rows' = Rows /\ Inserts(r)' = {}
      /\ \A s \in Session \ {r} : Inserts(s)' = Inserts(s)
  BY <1>1, <1>2 DEF Rows, Inserts
<1>4. TypeOK'
  <2>1. req[r].todo \subseteq Key /\ Olds(r) \subseteq Key /\ now \in Nat
    <3>1. req[r] \in Open /\ now \in Nat
      BY OpenType DEF Abort, TypeOK
    <3>2. Inserts(r) \subseteq Insert
      BY OpenType
    <3>3. Olds(r) \subseteq Key
      BY <3>2 DEF Olds, Insert
    <3> QED
      BY <3>1, <3>3 DEF Open
  <2>2. /\ lock' \in [Key -> Session \cup {None}]
        /\ cycleLock' \in Worker \cup {None}
        /\ req' \in [Session -> {Idle} \cup Open]
        /\ failed' \subseteq Key \X Nat
    BY <1>1, <2>1 DEF TypeOK
  <2>3. ran' \in BOOLEAN
    BY <1>1, Zenon
  <2> QED
    BY <1>1, <2>2, <2>3, Zenon DEF TypeOK
<1>5. (\A s \in Session : InFlight(s))' /\ Disjoint'
  BY <1>1, <1>2, <1>3 DEF InFlight, Disjoint
<1>6. WorkersApart'
  BY <1>1, <1>2, <1>3 DEF WorkersApart, Olds, Session
<1>7. /\ \A k \in Key : Retired(k)'
      /\ \A n \in Rows' : Succession(n)'
      /\ OneSuccessor'
  BY <1>1, <1>3 DEF Retired, Succession, OneSuccessor
<1> QED
  BY <1>1, <1>3, <1>4, <1>5, <1>6, <1>7

LEMMA ErrorStep ==
    ASSUME RotationInv, NEW r \in Session, NEW k \in Key, RotateError(r, k)
    PROVE  RotationInv'
<1> USE DEF RotationInv
<1>1. /\ req[r] # Idle
      /\ req' = [req EXCEPT ![r].todo = @ \ {k}]
      /\ failed' = failed \cup {<<k, now>>}
      /\ UNCHANGED <<now, row, active, rotatedAt, lock, cycleLock, ran, revoked>>
  BY DEF RotateError
<1>2. req[r] \in Open
  BY <1>1, OpenType
<1>3. PICK q : q = [req[r] EXCEPT !.todo = @ \ {k}]
  OBVIOUS
<1>4. /\ q \in Open /\ q.todo = req[r].todo \ {k} /\ q.grace = req[r].grace
      /\ q.inserts = req[r].inserts
  BY <1>2, <1>3 DEF Open
<1>5. req' = [req EXCEPT ![r] = q]
  BY <1>1, <1>3 DEF TypeOK
<1>6. req'[r] = q /\ q # Idle /\ \A s \in Session \ {r} : req'[s] = req[s]
  BY <1>4, <1>5, OpenNotIdle DEF TypeOK
<1>7. Rows' = Rows /\ \A s \in Session : Inserts(s)' = Inserts(s)
  <2>1. Inserts(r)' = Inserts(r)
    BY <1>1, <1>4, <1>6 DEF Inserts
  <2>2. \A s \in Session \ {r} : Inserts(s)' = Inserts(s)
    BY <1>6 DEF Inserts
  <2>3. Rows' = Rows
    BY <1>1 DEF Rows
  <2> QED
    BY <2>1, <2>2, <2>3
<1>8. TypeOK'
  <2>1. failed' \subseteq Key \X Nat
    BY <1>1 DEF TypeOK
  <2>2. req' \in [Session -> {Idle} \cup Open]
    BY <1>4, <1>5 DEF TypeOK
  <2> QED
    BY <1>1, <2>1, <2>2, Zenon DEF TypeOK
<1>9. ASSUME NEW s \in Session PROVE InFlight(s)'
  <2>1. InFlight(s)
    OBVIOUS
  <2> QED
    BY <1>1, <1>4, <1>6, <1>7, <2>1 DEF InFlight
<1>10. Disjoint'
  BY <1>7 DEF Disjoint
<1>11. WorkersApart'
  BY <1>1, <1>4, <1>6, <1>7 DEF WorkersApart, Olds, Session
<1>12. /\ \A n \in Key : Retired(n)'
       /\ \A n \in Rows' : Succession(n)'
       /\ OneSuccessor'
  BY <1>1, <1>7 DEF Retired, Succession, OneSuccessor
<1> QED
  BY <1>1, <1>7, <1>8, <1>9, <1>10, <1>11, <1>12

-----------------------------------------------------------------------------
(***************************************************************************)
(* store_rotation: a fresh key for a row that is locked, in no time.       *)
(***************************************************************************)
LEMMA StoreStep ==
    ASSUME RotationInv, NEW r \in Session, NEW k \in Key, NEW n \in Key,
           StoreRotation(r, k, n)
    PROVE  RotationInv'
<1> USE DEF RotationInv
<1> DEFINE i == [new |-> n, old |-> k, at |-> now, by |-> r]
<1>1. /\ req[r] # Idle /\ k \in req[r].todo /\ n \notin Rows
      /\ \A s \in Session : \A j \in Inserts(s) : j.new # n
      /\ lock' = [lock EXCEPT ![k] = r]
      /\ UNCHANGED <<now, row, active, rotatedAt, cycleLock, ran, revoked, failed>>
  BY DEF StoreRotation, Fresh
<1>2. req[r] \in Open /\ Inserts(r) = req[r].inserts
  BY <1>1, OpenType
<1> DEFINE q == [req[r] EXCEPT !.todo = @ \ {k}, !.inserts = @ \cup {i}]
<1>3. req' = [req EXCEPT ![r] = q]
  BY DEF StoreRotation, TypeOK
<1>4. q \in Open
  <2>1. i \in Insert
    BY DEF Insert, TypeOK
  <2>2. req[r].todo \ {k} \in SUBSET Key /\ req[r].inserts \cup {i} \in SUBSET Insert
    BY <1>2, <2>1 DEF Open
  <2> QED
    BY <1>2, <2>2, OpenUpdated
<1>5. /\ req'[r] = q /\ q # Idle
      /\ \A s \in Session \ {r} : req'[s] = req[s]
  BY <1>3, <1>4, OpenNotIdle DEF TypeOK
<1>6. /\ q.todo = req[r].todo \ {k} /\ q.grace = req[r].grace
      /\ q.inserts = req[r].inserts \cup {i}
  BY <1>2 DEF Open
<1> HIDE DEF q
<1>7. /\ Rows' = Rows
      /\ Inserts(r)' = Inserts(r) \cup {i}
      /\ \A s \in Session \ {r} : Inserts(s)' = Inserts(s)
  BY <1>1, <1>2, <1>5, <1>6 DEF Rows, Inserts
<1>8. TypeOK'
  BY <1>1, <1>3, <1>4 DEF TypeOK
<1>9. i.new = n /\ i.old = k /\ i.at = now /\ i.by = r
  OBVIOUS
<1> HIDE DEF i
<1>10. ASSUME NEW s \in Session PROVE InFlight(s)'
  <2>1. InFlight(s)
    OBVIOUS
  <2>2. CASE s = r
    BY <1>1, <1>5, <1>6, <1>7, <1>9, <2>1, <2>2 DEF InFlight
  <2>3. CASE s # r
    BY <1>1, <1>5, <1>7, <2>1, <2>3 DEF InFlight
  <2> QED
    BY <2>2, <2>3
<1>11. Disjoint'
  BY <1>1, <1>7, <1>9 DEF Disjoint
<1>12. WorkersApart'
  <2>1. Olds(r)' = Olds(r) \cup {k}
    BY <1>7, <1>9 DEF Olds
  <2>2. \A s \in Session \ {r} : Olds(s)' = Olds(s)
    BY <1>7 DEF Olds
  <2> QED
    BY <1>1, <1>5, <1>6, <1>7, <2>1, <2>2 DEF WorkersApart, Session
<1>13. /\ \A m \in Key : Retired(m)'
       /\ \A m \in Rows' : Succession(m)'
       /\ OneSuccessor'
  BY <1>1, <1>7 DEF Retired, Succession, OneSuccessor
<1> QED
  BY <1>1, <1>7, <1>8, <1>10, <1>11, <1>12, <1>13

(***************************************************************************)
(* What a commit writes: a row per insert, and nothing else.               *)
(***************************************************************************)
LEMMA CommitWrites ==
    ASSUME RotationInv, NEW r \in Session, RotateCommit(r)
    PROVE  /\ \A i \in Inserts(r) : /\ row'[i.new] = NewRow(i, req[r].grace)
                                    /\ row'[i.new] \in Row
                                    /\ rotatedAt'[i.old] = now
           /\ \A n \in Rows : row'[n] = row[n]
           /\ Rows' = Rows \cup {i.new : i \in Inserts(r)}
           /\ \A k \in Key \ Olds(r) : rotatedAt'[k] = rotatedAt[k]
           /\ active' = (active \ Olds(r)) \cup {i.new : i \in Inserts(r)}
           /\ row' \in [Key -> Row \cup {None}]
           /\ rotatedAt' \in [Key -> Nat \cup {None}]
<1> USE DEF RotationInv
<1> DEFINE ins == Inserts(r)
           g == req[r].grace
<1>1. /\ req[r] \in Open /\ ins = req[r].inserts /\ ins \subseteq Insert
      /\ g \in Nat /\ now \in Nat
  BY OpenType DEF RotateCommit, Open, TypeOK
<1>2. /\ row' = [n \in Key |-> IF \E i \in ins : i.new = n
                              THEN NewRow(CHOOSE i \in ins : i.new = n, g)
                              ELSE row[n]]
      /\ active' = (active \ {i.old : i \in ins}) \cup {i.new : i \in ins}
      /\ rotatedAt' = [k \in Key |-> IF \E i \in ins : i.old = k
                                    THEN now ELSE rotatedAt[k]]
  BY <1>1 DEF RotateCommit
<1>3. /\ \A i, j \in ins : i.new = j.new => i = j
      /\ \A i \in ins : i.new \in Key /\ i.old \in Key /\ i.new \notin Rows
  BY <1>1 DEF InFlight, Insert
<1>4. ASSUME NEW i \in ins
      PROVE  row'[i.new] = NewRow(i, g) /\ NewRow(i, g) \in Row
  <2>1. (CHOOSE j \in ins : j.new = i.new) = i
    BY <1>3
  <2>2. row'[i.new] = NewRow(i, g)
    BY <1>2, <1>3, <2>1
  <2>3. NewRow(i, g) \in Row
    BY <1>1, ConstantsAssumption DEF NewRow, Row, Insert
  <2> QED
    BY <2>2, <2>3
<1>5. ASSUME NEW n \in Key, \A i \in ins : i.new # n PROVE row'[n] = row[n]
  BY <1>2, <1>5
<1>6. row' \in [Key -> Row \cup {None}]
  <2>1. \A n \in Key : row'[n] \in Row \cup {None}
    BY <1>4, <1>5 DEF TypeOK
  <2> QED
    BY <1>2, <2>1
<1>7. Rows' = Rows \cup {i.new : i \in ins}
  BY <1>3, <1>4, <1>5, <1>6, ConstantsAssumption DEF Rows
<1>8. \A n \in Rows : row'[n] = row[n]
  BY <1>3, <1>5 DEF Rows
<1>9. /\ \A i \in ins : rotatedAt'[i.old] = now
      /\ \A k \in Key \ Olds(r) : rotatedAt'[k] = rotatedAt[k]
      /\ rotatedAt' \in [Key -> Nat \cup {None}]
  BY <1>1, <1>2, <1>3 DEF Olds, TypeOK
<1>10. active' = (active \ Olds(r)) \cup {i.new : i \in ins}
  BY <1>2 DEF Olds
<1>11. \A i \in ins : /\ row'[i.new] = NewRow(i, g)
                     /\ row'[i.new] \in Row
                     /\ rotatedAt'[i.old] = now
  BY <1>4, <1>9
<1> QED
  BY <1>6, <1>7, <1>8, <1>9, <1>10, <1>11

LEMMA CommitStep ==
    ASSUME RotationInv, NEW r \in Session, RotateCommit(r)
    PROVE  RotationInv'
<1> USE DEF RotationInv
<1> DEFINE ins == Inserts(r)
           news == {i.new : i \in ins}
           g == req[r].grace
<1>1. /\ req[r] # Idle /\ req[r].todo = {} /\ g \in Graces
      /\ lock' = [k \in Key |-> IF lock[k] = r THEN None ELSE lock[k]]
      /\ cycleLock' = IF cycleLock = r THEN None ELSE cycleLock
      /\ req' = [req EXCEPT ![r] = Idle]
      /\ ran' = (ran \/ r \in Worker)
      /\ UNCHANGED <<now, revoked, failed>>
  BY DEF RotateCommit, Close, InFlight
<1>2. /\ \A i \in ins : /\ row'[i.new] = NewRow(i, g)
                        /\ row'[i.new] \in Row
                        /\ rotatedAt'[i.old] = now
      /\ \A n \in Rows : row'[n] = row[n]
      /\ Rows' = Rows \cup news
      /\ \A k \in Key \ Olds(r) : rotatedAt'[k] = rotatedAt[k]
      /\ active' = (active \ Olds(r)) \cup news
      /\ row' \in [Key -> Row \cup {None}]
      /\ rotatedAt' \in [Key -> Nat \cup {None}]
  BY CommitWrites
<1>3. req'[r] = Idle /\ \A s \in Session \ {r} : req'[s] = req[s]
  BY <1>1 DEF TypeOK
<1>4. Inserts(r)' = {} /\ \A s \in Session \ {r} : Inserts(s)' = Inserts(s)
  BY <1>1, <1>3 DEF Inserts
<1>5. /\ ins \subseteq Insert
      /\ \A i \in ins : /\ i.new \in Key /\ i.new \notin Rows
                        /\ i.old \in Key /\ i.old \in Rows
                        /\ i.at = now /\ i.by = r
      /\ \A i, j \in ins : i # j => i.old # j.old
      /\ now \in Nat
  BY OpenType DEF InFlight, Insert, TypeOK
<1>6. /\ news \cap Rows = {} /\ Olds(r) \subseteq Rows /\ news \subseteq Key
      /\ active \subseteq Rows
  BY <1>5 DEF Olds
<1>7. TypeOK'
  <2>1. /\ active' \subseteq Key
        /\ lock' \in [Key -> Session \cup {None}]
        /\ cycleLock' \in Worker \cup {None}
        /\ req' \in [Session -> {Idle} \cup Open]
    BY <1>1, <1>2, <1>6 DEF TypeOK
  <2>2. ran' \in BOOLEAN
    BY <1>1, Zenon
  <2> QED
    BY <1>1, <1>2, <2>1, <2>2, Zenon DEF TypeOK
<1>8. active' \subseteq Rows'
  BY <1>2, <1>6
<1>9. ASSUME NEW s \in Session PROVE InFlight(s)'
  <2>1. CASE s = r
    BY <1>3, <1>4, <2>1 DEF InFlight
  <2>2. CASE s # r
    <3>1. InFlight(s) /\ req'[s] = req[s] /\ Inserts(s)' = Inserts(s)
      BY <1>3, <1>4, <2>2
    <3>2. \A i \in Inserts(s) : i.new \notin news
      BY <2>2 DEF Disjoint
    <3>3. \A i \in Inserts(s) : i.new \notin Rows' /\ i.old \in Rows'
      BY <1>2, <3>1, <3>2 DEF InFlight
    <3>4. s \in Worker /\ req'[s] # Idle => cycleLock' = s
      BY <1>1, <2>2, <3>1 DEF InFlight
    <3>5. req'[s] # Idle => req'[s].grace \in Graces /\ req'[s].todo \subseteq Rows'
      BY <1>2, <3>1 DEF InFlight
    <3> QED
      BY <1>1, <3>1, <3>3, <3>4, <3>5 DEF InFlight
  <2> QED
    BY <2>1, <2>2
<1>10. Disjoint'
  BY <1>4 DEF Disjoint
<1>11. ASSUME NEW k \in Key PROVE Retired(k)'
  <2>1. CASE k \in Olds(r)
    <3>1. rotatedAt'[k] = now
      BY <1>2, <2>1 DEF Olds
    <3> QED
      BY <1>1, <1>2, <1>5, <1>6, <2>1, <3>1 DEF Retired
  <2>2. CASE k \notin Olds(r)
    <3>1. rotatedAt'[k] = rotatedAt[k] /\ Retired(k)
      BY <1>2, <2>2
    <3> QED
      BY <1>1, <1>2, <1>6, <3>1 DEF Retired
  <2> QED
    BY <2>1, <2>2
<1>12. ASSUME NEW i \in ins
       PROVE  /\ row'[i.new].previous = i.old /\ row'[i.new].by = r
              /\ row'[i.new].previousExpires = now + g
              /\ i.old # None
  <2>1. i.at = now /\ i.by = r /\ i.old # None
    BY <1>5, NoneApart
  <2>2. row'[i.new] = NewRow(i, g)
    BY <1>2
  <2> QED
    BY <2>1, <2>2 DEF NewRow
<1>13. ASSUME NEW n \in Rows' PROVE Succession(n)'
  <2>1. CASE n \in news
    <3>1. PICK i \in ins : n = i.new
      BY <2>1
    <3>2. rotatedAt'[i.old] = now /\ now # None
      BY <1>2, <1>5, NoneApart
    <3>3. now + g <= now + g
      <4>1. g \in Nat
        BY <1>1, ConstantsAssumption DEF Graces
      <4> HIDE DEF g
      <4> QED
        BY <1>5, <4>1
    <3> QED
      BY <1>1, <1>12, <3>1, <3>2, <3>3 DEF Succession
  <2>2. CASE n \in Rows
    <3>1. row'[n] = row[n] /\ Succession(n) /\ row[n] \in Row
      BY <1>2, <2>2, RowType
    <3> SUFFICES ASSUME row[n].previous # None
                 PROVE  /\ rotatedAt'[row[n].previous] # None
                        /\ \E h \in Graces : row[n].previousExpires
                              <= rotatedAt'[row[n].previous] + h
      BY <3>1 DEF Succession
    <3> DEFINE k == row[n].previous
    <3>2. PICK h \in Graces : row[n].previousExpires <= rotatedAt[k] + h
      BY <3>1 DEF Succession
    <3>3. k \in Key /\ rotatedAt[k] \in Nat /\ rotatedAt[k] <= now
      BY <3>1 DEF Succession, Retired, Row, TypeOK
    <3>4. rotatedAt'[k] \in Nat /\ rotatedAt[k] <= rotatedAt'[k]
      BY <1>2, <1>5, <3>3 DEF Olds
    <3>5. h \in Nat /\ row[n].previousExpires \in Nat
      BY <3>1, ConstantsAssumption DEF Graces, Row
    <3>6. row[n].previousExpires <= rotatedAt'[k] + h
      BY <3>2, <3>3, <3>4, <3>5
    <3> QED
      BY <3>4, <3>6, ConstantsAssumption
  <2> QED
    BY <1>2, <2>1, <2>2
<1>14. \A n \in Rows' : row'[n].by # None => row'[n].previous # None
  BY <1>2, <1>12
<1>15. ASSUME NEW w \in Worker, req'[w] # Idle
       PROVE  \A n \in Rows' : row'[n].by \in Worker =>
                 row'[n].previous \notin (req[w].todo \cup Olds(w))'
  <2>1. w # r /\ w \in Session
    BY <1>3, <1>15 DEF Session
  <2>2. req'[w] = req[w] /\ Olds(w)' = Olds(w)
    BY <1>3, <1>4, <2>1 DEF Olds
  <2>3. r \notin Worker
    BY <1>1, <1>15, <2>1, <2>2 DEF InFlight
  <2>4. \A n \in news : row'[n].by \notin Worker
    BY <1>12, <2>3
  <2> QED
    BY <1>2, <1>15, <2>2, <2>4 DEF WorkersApart
<1>16. OneSuccessor'
  <2> SUFFICES ASSUME NEW n \in Rows', NEW m \in Rows', n # m,
                      row'[n].by \in Worker, row'[m].by \in Worker
               PROVE  row'[n].previous # row'[m].previous
    BY DEF OneSuccessor
  <2>1. ASSUME NEW a \in news, NEW b \in Rows, r \in Worker,
               row'[b].by \in Worker
        PROVE  row'[a].previous # row'[b].previous
    <3>1. row'[a].previous \in Olds(r)
      BY <1>12 DEF Olds
    <3>2. row'[b].previous \notin Olds(r)
      BY <1>1, <1>2, <2>1 DEF WorkersApart
    <3> QED
      BY <3>1, <3>2
  <2>2. CASE n \in Rows /\ m \in Rows
    BY <1>2, <2>2 DEF OneSuccessor
  <2>3. CASE n \in news /\ m \in news
    BY <1>5, <1>12, <2>3
  <2>4. (n \in news => r \in Worker) /\ (m \in news => r \in Worker)
    BY <1>12
  <2> QED
    BY <1>2, <2>1, <2>2, <2>3, <2>4
<1> QED
  BY <1>7, <1>8, <1>9, <1>10, <1>11, <1>13, <1>14, <1>15, <1>16 DEF WorkersApart

-----------------------------------------------------------------------------
(***************************************************************************)
(* The inductive invariant.                                                *)
(***************************************************************************)
THEOREM RotationInvariance == Spec => []RotationInv
<1>1. Init => RotationInv
  <2> SUFFICES ASSUME Init PROVE RotationInv
    OBVIOUS
  <2>1. Rows = {} /\ \A r \in Session : Inserts(r) = {}
    BY DEF Init, Rows, Inserts
  <2>2. TypeOK
    <3>1. /\ now \in Nat /\ active \subseteq Key /\ revoked \subseteq Key
          /\ failed \subseteq Key \X Nat
          /\ row \in [Key -> Row \cup {None}]
          /\ rotatedAt \in [Key -> Nat \cup {None}]
          /\ lock \in [Key -> Session \cup {None}]
          /\ cycleLock \in Worker \cup {None}
          /\ req \in [Session -> {Idle} \cup Open]
      BY DEF Init
    <3>2. ran \in BOOLEAN
      BY Zenon DEF Init
    <3> QED
      BY <3>1, <3>2, Zenon DEF TypeOK
  <2>3. (\A r \in Session : InFlight(r)) /\ Disjoint /\ WorkersApart
    BY <2>1 DEF Init, InFlight, Disjoint, WorkersApart, Session
  <2>4. (\A k \in Key : Retired(k)) /\ OneSuccessor /\ active \subseteq Rows
    BY <2>1 DEF Init, Retired, OneSuccessor
  <2> QED
    BY <2>1, <2>2, <2>3, <2>4 DEF RotationInv
<1>2. RotationInv /\ [Next]_vars => RotationInv'
  <2> SUFFICES ASSUME RotationInv, [Next]_vars PROVE RotationInv'
    OBVIOUS
  <2>1. CASE UNCHANGED vars
    <3>1. Rows' = Rows /\ \A r \in Session : Inserts(r)' = Inserts(r)
      BY <2>1 DEF vars, Rows, Inserts
    <3>2. \A w \in Worker : Olds(w)' = Olds(w)
      BY <3>1 DEF Olds, Session
    <3>3. TypeOK'
      BY <2>1, Zenon DEF vars, RotationInv, TypeOK
    <3> QED
      BY <2>1, <3>1, <3>2, <3>3
      DEF vars, RotationInv, InFlight, Disjoint, Retired, Succession,
          WorkersApart, OneSuccessor
  <2>2. ASSUME NEW r \in Request, NEW k \in Key, NEW g \in Grace,
               RotateRead(r, k, g)
        PROVE  RotationInv'
    <3> DEFINE q == [open |-> TRUE, todo |-> {k}, grace |-> g, inserts |-> {}]
    <3>1. q \in Open /\ q.inserts = {} /\ q.grace \in Graces /\ q.todo = {k}
      BY ConstantsAssumption DEF Open, Graces
    <3>2. r \in Session /\ r \notin Worker
      BY ConstantsAssumption DEF Session
    <3>3. /\ req[r] = Idle /\ req' = [req EXCEPT ![r] = q] /\ {k} \subseteq active
          /\ cycleLock' = cycleLock /\ cycleLock \in Worker \cup {None}
          /\ UNCHANGED <<now, row, active, rotatedAt, lock, ran, revoked, failed>>
      BY <2>2 DEF RotateRead, RotationInv, TypeOK
    <3> HIDE DEF q
    <3> QED
      BY <3>1, <3>2, <3>3, BeginStep
  <2>3. ASSUME NEW w \in Worker, CycleStart(w) PROVE RotationInv'
    <3> DEFINE q == [open |-> TRUE, todo |-> get_keys_needing_rotation,
                     grace |-> WorkerGrace, inserts |-> {}]
    <3>1. get_keys_needing_rotation \subseteq active /\ active \subseteq Key
      BY DEF get_keys_needing_rotation, RotationInv, TypeOK
    <3>2. /\ q \in Open /\ q.inserts = {} /\ q.grace \in Graces
          /\ q.todo = get_keys_needing_rotation
      BY <3>1, ConstantsAssumption DEF Open, Graces
    <3>3. w \in Session
      BY DEF Session
    <3>4. /\ req[w] = Idle /\ req' = [req EXCEPT ![w] = q]
          /\ cycleLock = None /\ cycleLock' = w
          /\ UNCHANGED <<now, row, active, rotatedAt, lock, ran, revoked, failed>>
      BY <2>3 DEF CycleStart
    <3> HIDE DEF q
    <3> QED
      BY <2>3, <3>1, <3>2, <3>3, <3>4, BeginStep
  <2>4. ASSUME NEW w \in Worker, NEW k \in Key, RotateError(w, k) PROVE RotationInv'
    BY <2>4, ErrorStep DEF Session
  <2> QED
    BY <2>1, <2>2, <2>3, <2>4, IssueStep, StoreStep, CommitStep, AbortStep, RevokeStep,
       TickStep
    DEF Next
<1> QED
  BY <1>1, <1>2, PTL DEF Spec

(***************************************************************************)
(* Every variable keeps its type.                                          *)
(***************************************************************************)
THEOREM TypeCorrect == Spec => []TypeOK
<1>1. RotationInv => TypeOK
  BY DEF RotationInv
<1> QED
  BY <1>1, RotationInvariance, PTL

(***************************************************************************)
(* verify_key refuses a rotated key's secret once the longest grace since  *)
(* its last rotation is over, however rotate_key calls raced.              *)
(***************************************************************************)
THEOREM OldSecretBoundedHolds == Spec => []OldSecretBounded
<1>1. ASSUME RotationInv PROVE OldSecretBounded
  <2> SUFFICES ASSUME NEW k \in Key, rotatedAt[k] # None, Works(k)
               PROVE  LongestGrace(rotatedAt[k])
    BY DEF OldSecretBounded
  <2>1. PICK n \in active : verify_key(n, k)
    BY DEF Works
  <2>2. k \notin active /\ n \in Rows /\ row[n] \in Row
    BY <1>1, RowType DEF RotationInv, Retired
  <2>3. row[n].previous = k /\ ~ (now > row[n].previousExpires)
    BY <2>1, <2>2 DEF verify_key, is_key_expired
  <2>4. PICK g \in Graces : row[n].previousExpires <= rotatedAt[k] + g
    BY <1>1, <2>2, <2>3, NoneApart DEF RotationInv, Succession
  <2>5. /\ now \in Nat /\ rotatedAt[k] \in Nat /\ g \in Nat
        /\ row[n].previousExpires \in Nat
    BY <1>1, <2>2, ConstantsAssumption DEF RotationInv, TypeOK, Row, Graces
  <2>6. now <= rotatedAt[k] + g
    BY <2>3, <2>4, <2>5
  <2> QED
    BY <2>4, <2>6 DEF LongestGrace, Graces
<1> QED
  BY <1>1, RotationInvariance, PTL

(***************************************************************************)
(* The advisory lock keeps the processes' cycles from rotating a key       *)
(* twice, for any number of processes.                                     *)
(***************************************************************************)
THEOREM OneSuccessorHolds == Spec => []OneSuccessor
<1>1. RotationInv => OneSuccessor
  BY DEF RotationInv
<1> QED
  BY <1>1, RotationInvariance, PTL

-----------------------------------------------------------------------------
(***************************************************************************)
(* Steps that change no row and no time.                                   *)
(***************************************************************************)
LEMMA ServiceKept ==
    ASSUME RotationInv, ServiceInv, UNCHANGED <<now, row, rotatedAt>>,
           active' \subseteq active, revoked \subseteq revoked',
           active \ active' \subseteq revoked', failed \subseteq failed',
           ran' => ran \/ \A k \in get_keys_needing_rotation : Failed(k)',
           \A w \in Worker : req'[w] # Idle =>
               \A k \in get_keys_needing_rotation :
                   k \in req'[w].todo \cup Olds(w)' \/ Failed(k)'
    PROVE  ServiceInv'
<1> USE DEF ServiceInv
<1>1. Rows' = Rows
  BY DEF Rows
<1>2. \A k : should_rotate_key(k)' <=> should_rotate_key(k)
  BY DEF should_rotate_key
<1>3. get_keys_needing_rotation' \subseteq get_keys_needing_rotation
  BY <1>2 DEF get_keys_needing_rotation
<1>4. \A k : Failed(k) => Failed(k)'
  BY DEF Failed
<1>5. \A n \in Rows' : row'[n].created <= now' /\ Accounted(n)'
  BY <1>1 DEF Accounted
<1>6. RotatedBeforeExpiry'
  BY DEF RotatedBeforeExpiry
<1>7. CaughtUp'
  BY <1>3, <1>4 DEF CaughtUp
<1>8. \A w \in Worker : Covers(w)'
  BY <1>3 DEF Covers
<1>9. \A k \in Key : Succeeded(k)'
  BY <1>1 DEF Succeeded
<1> QED
  BY <1>5, <1>6, <1>7, <1>8, <1>9

LEMMA BeginService ==
    ASSUME RotationInv, ServiceInv,
           \/ \E r \in Request, k \in Key, g \in Grace : RotateRead(r, k, g)
           \/ \E w \in Worker : CycleStart(w)
    PROVE  ServiceInv'
<1> USE DEF RotationInv
<1>1. UNCHANGED <<now, row, rotatedAt, ran, active, revoked, failed>>
  BY DEF RotateRead, CycleStart
<1>2. ASSUME NEW r \in Request, NEW k \in Key, NEW g \in Grace, RotateRead(r, k, g),
             NEW w \in Worker, req'[w] # Idle
      PROVE  \A n \in get_keys_needing_rotation :
                 n \in req'[w].todo \cup Olds(w)' \/ Failed(n)
  <2>1. w # r /\ w \in Session
    BY ConstantsAssumption DEF Session
  <2>2. req'[w] = req[w]
    BY <1>2, <2>1 DEF RotateRead, TypeOK
  <2>3. Olds(w)' = Olds(w)
    BY <2>2 DEF Olds, Inserts
  <2> QED
    BY <1>2, <2>2, <2>3 DEF ServiceInv, Covers
<1>3. ASSUME NEW v \in Worker, CycleStart(v), NEW w \in Worker, req'[w] # Idle
      PROVE  \A n \in get_keys_needing_rotation :
                 n \in req'[w].todo \cup Olds(w)' \/ Failed(n)
  <2>1. v \in Session /\ w \in Session
    BY DEF Session
  <2>2. PICK q : q = [open |-> TRUE, todo |-> get_keys_needing_rotation,
                      grace |-> WorkerGrace, inserts |-> {}]
    OBVIOUS
  <2>3. req' = [req EXCEPT ![v] = q]
    BY <1>3, <2>2 DEF CycleStart
  <2>4. CASE w = v
    BY <2>1, <2>2, <2>3, <2>4 DEF TypeOK
  <2>5. CASE w # v
    <3>1. req'[w] = req[w]
      BY <2>1, <2>3, <2>5 DEF TypeOK
    <3>2. Olds(w)' = Olds(w)
      BY <3>1 DEF Olds, Inserts
    <3> QED
      BY <1>3, <3>1, <3>2 DEF ServiceInv, Covers
  <2> QED
    BY <2>4, <2>5
<1>4. \A k : Failed(k)' <=> Failed(k)
  BY <1>1 DEF Failed
<1> QED
  BY <1>1, <1>2, <1>3, <1>4, ServiceKept

LEMMA StoreService ==
    ASSUME RotationInv, ServiceInv, NEW r \in Session, NEW k \in Key, NEW n \in Key,
           StoreRotation(r, k, n)
    PROVE  ServiceInv'
<1> USE DEF RotationInv
<1>1. PICK i : i = [new |-> n, old |-> k, at |-> now, by |-> r]
  OBVIOUS
<1>2. /\ req[r] # Idle /\ k \in req[r].todo
      /\ UNCHANGED <<now, row, active, rotatedAt, ran, revoked, failed>>
  BY DEF StoreRotation
<1>3. req[r] \in Open /\ Inserts(r) = req[r].inserts
  BY <1>2, OpenType
<1>4. PICK q : q = [req[r] EXCEPT !.todo = @ \ {k}, !.inserts = @ \cup {i}]
  OBVIOUS
<1>5. req' = [req EXCEPT ![r] = q]
  BY <1>1, <1>4 DEF StoreRotation, TypeOK
<1>6. q.todo = req[r].todo \ {k} /\ q.inserts = req[r].inserts \cup {i} /\ q.open = TRUE
  BY <1>3, <1>4 DEF Open
<1>7. q # Idle
  BY <1>3, <1>4 DEF Open, Idle
<1>8. /\ req'[r] = q
      /\ \A s \in Session \ {r} : req'[s] = req[s]
  BY <1>5 DEF TypeOK
<1>9. Olds(r)' = Olds(r) \cup {k}
  <2>1. Inserts(r)' = Inserts(r) \cup {i}
    BY <1>3, <1>6, <1>7, <1>8 DEF Inserts
  <2>2. i.old = k
    BY <1>1
  <2> QED
    BY <2>1, <2>2 DEF Olds
<1>10. \A s \in Session \ {r} : Olds(s)' = Olds(s)
  BY <1>8 DEF Olds, Inserts
<1>11. ASSUME NEW w \in Worker, req'[w] # Idle
       PROVE  \A m \in get_keys_needing_rotation :
                  m \in req'[w].todo \cup Olds(w)' \/ Failed(m)
  <2>1. w \in Session
    BY DEF Session
  <2>2. CASE w = r
    BY <1>2, <1>6, <1>8, <1>9, <2>2 DEF ServiceInv, Covers
  <2>3. CASE w # r
    BY <1>8, <1>10, <1>11, <2>1, <2>3 DEF ServiceInv, Covers
  <2> QED
    BY <2>2, <2>3
<1>12. \A m : Failed(m)' <=> Failed(m)
  BY <1>2 DEF Failed
<1> QED
  BY <1>2, <1>11, <1>12, ServiceKept

LEMMA ErrorService ==
    ASSUME RotationInv, ServiceInv, NEW r \in Worker, NEW k \in Key, RotateError(r, k)
    PROVE  ServiceInv'
<1> USE DEF RotationInv
<1>1. /\ r \in Session /\ req[r] # Idle
      /\ req' = [req EXCEPT ![r].todo = @ \ {k}]
      /\ failed' = failed \cup {<<k, now>>}
      /\ UNCHANGED <<now, row, active, rotatedAt, ran, revoked>>
  BY DEF RotateError, Session
<1>2. req[r] \in Open
  BY <1>1, OpenType
<1>3. PICK q : q = [req[r] EXCEPT !.todo = @ \ {k}]
  OBVIOUS
<1>4. /\ q \in Open /\ q.todo = req[r].todo \ {k} /\ q.inserts = req[r].inserts
  BY <1>2, <1>3 DEF Open
<1>5. req' = [req EXCEPT ![r] = q]
  BY <1>1, <1>3 DEF TypeOK
<1>6. req'[r] = q /\ q # Idle /\ \A s \in Session \ {r} : req'[s] = req[s]
  BY <1>1, <1>4, <1>5, OpenNotIdle DEF TypeOK
<1>7. Olds(r)' = Olds(r) /\ \A s \in Session \ {r} : Olds(s)' = Olds(s)
  <2>1. Inserts(r)' = Inserts(r)
    BY <1>1, <1>4, <1>6 DEF Inserts
  <2> QED
    BY <1>6, <2>1 DEF Olds, Inserts
<1>8. Failed(k)' /\ \A m : Failed(m) => Failed(m)'
  BY <1>1 DEF Failed
<1>9. ASSUME NEW w \in Worker, req'[w] # Idle
      PROVE  \A m \in get_keys_needing_rotation :
                 m \in req'[w].todo \cup Olds(w)' \/ Failed(m)'
  <2>1. w \in Session
    BY DEF Session
  <2>2. CASE w = r
    BY <1>1, <1>4, <1>6, <1>7, <1>8, <2>2 DEF ServiceInv, Covers
  <2>3. CASE w # r
    BY <1>6, <1>7, <1>8, <1>9, <2>1, <2>3 DEF ServiceInv, Covers
  <2> QED
    BY <2>2, <2>3
<1> QED
  BY <1>1, <1>9, ServiceKept

(***************************************************************************)
(* A cycle that is rolled back has failed every key it was there for.      *)
(***************************************************************************)
LEMMA AbortService ==
    ASSUME RotationInv, ServiceInv, NEW r \in Session, Abort(r)
    PROVE  ServiceInv'
<1> USE DEF RotationInv
<1>1. /\ req[r] # Idle
      /\ UNCHANGED <<now, row, active, rotatedAt, revoked>>
      /\ req' = [req EXCEPT ![r] = Idle]
      /\ ran' = (ran \/ r \in Worker)
      /\ failed \subseteq failed'
      /\ r \in Worker => (req[r].todo \cup Olds(r)) \X {now} \subseteq failed'
  <2>1. req[r] # Idle => Olds(r) = {i.old : i \in req[r].inserts}
    BY DEF Olds, Inserts
  <2> QED
    BY <2>1 DEF Abort, Close
<1>2. \A k : Failed(k) => Failed(k)'
  BY <1>1 DEF Failed
<1>3. r \in Worker => \A k \in req[r].todo \cup Olds(r) : Failed(k)'
  BY <1>1 DEF Failed
<1>4. ran' => ran \/ \A k \in get_keys_needing_rotation : Failed(k)'
  BY <1>1, <1>2, <1>3 DEF ServiceInv, Covers
<1>5. ASSUME NEW w \in Worker, req'[w] # Idle
      PROVE  \A k \in get_keys_needing_rotation :
                 k \in req'[w].todo \cup Olds(w)' \/ Failed(k)'
  <2>1. w \in Session /\ w # r /\ req'[w] = req[w]
    BY <1>1, <1>5 DEF Session, TypeOK
  <2>2. Olds(w)' = Olds(w)
    BY <2>1 DEF Olds, Inserts
  <2> QED
    BY <1>2, <1>5, <2>1, <2>2 DEF ServiceInv, Covers
<1> QED
  BY <1>1, <1>4, <1>5, ServiceKept

LEMMA RevokeService ==
    ASSUME RotationInv, ServiceInv, (\E k \in Key : revoke_key(k)) \/ UNCHANGED vars
    PROVE  ServiceInv'
<1>1. /\ UNCHANGED <<now, row, rotatedAt, ran, req, failed>>
      /\ active' \subseteq active /\ revoked \subseteq revoked'
      /\ active \ active' \subseteq revoked'
  BY DEF revoke_key, vars
<1>2. (\A w \in Worker : Olds(w)' = Olds(w)) /\ \A k : Failed(k)' <=> Failed(k)
  BY <1>1 DEF Olds, Inserts, Failed
<1> QED
  BY <1>1, <1>2, ServiceKept DEF ServiceInv, Covers

(***************************************************************************)
(* A row just made is not due, and no unit has passed for it.              *)
(***************************************************************************)
LEMMA NewIsNotDue ==
    ASSUME TypeOK, now' = now, NEW n, row'[n].created = now
    PROVE  ~ should_rotate_key(n)' /\ row'[n].created <= now'
<1>1. now \in Nat /\ DefaultTtl \in Nat /\ DefaultTtl > 0
  BY ConstantsAssumption DEF TypeOK
<1>2. now' - row'[n].created = 0 /\ now <= now
  BY <1>1
<1>3. ~ (5 * 0 >= 4 * DefaultTtl)
  BY <1>1
<1> QED
  BY <1>2, <1>3 DEF should_rotate_key

(***************************************************************************)
(* New rows, in no time, leave RotatedBeforeExpiry as it is.               *)
(***************************************************************************)
LEMMA NewRowsTimely ==
    ASSUME RotationInv, ServiceInv, UNCHANGED <<now, failed>>, NEW news,
           active' \subseteq active \cup news, \A n \in active : row'[n] = row[n],
           \A n \in news : row'[n].created = now
    PROVE  RotatedBeforeExpiry'
<1> SUFFICES ASSUME NEW k \in active', NEW t \in row'[k].created .. now,
                    t < now, 5 * (t - row'[k].created) >= 4 * DefaultTtl
             PROVE  <<k, t>> \in failed
  BY DEF RotatedBeforeExpiry
<1>1. CASE k \in news
  <2>1. now \in Nat /\ t \in now .. now
    BY <1>1 DEF RotationInv, TypeOK
  <2> QED
    BY <2>1
<1>2. CASE k \in active
  BY <1>2 DEF ServiceInv, RotatedBeforeExpiry
<1> QED
  BY <1>1, <1>2

LEMMA IssueService ==
    ASSUME RotationInv, ServiceInv, NEW k \in Key, NEW ttl \in Ttl, issue_key(k, ttl)
    PROVE  ServiceInv'
<1> USE DEF RotationInv
<1>1. PICK new : new = [created |-> now, expires |-> now + ttl, previous |-> None,
                        previousExpires |-> 0, by |-> None]
  OBVIOUS
<1>2. /\ k \notin Rows /\ row' = [row EXCEPT ![k] = new] /\ active' = active \cup {k}
      /\ UNCHANGED <<now, rotatedAt, ran, req, revoked, failed>>
  BY <1>1 DEF issue_key, Fresh
<1>3. new \in Row
  BY <1>1, ConstantsAssumption DEF Row, TypeOK
<1>4. /\ Rows' = Rows \cup {k} /\ row'[k] = new
      /\ \A n \in Rows : row'[n] = row[n]
  BY <1>2, <1>3, ConstantsAssumption DEF Rows, TypeOK
<1>5. new.created = now /\ new.previous = None
  BY <1>1
<1>6. ~ should_rotate_key(k)' /\ row'[k].created <= now'
  BY <1>2, <1>4, <1>5, NewIsNotDue
<1>7. \A n \in active : should_rotate_key(n)' <=> should_rotate_key(n)
  BY <1>2, <1>4 DEF should_rotate_key
<1>8. get_keys_needing_rotation' \subseteq get_keys_needing_rotation
  BY <1>2, <1>6, <1>7 DEF get_keys_needing_rotation
<1>9. \A n \in Rows' : row'[n].created <= now' /\ Accounted(n)'
  BY <1>2, <1>4, <1>6 DEF ServiceInv, Accounted
<1>10. RotatedBeforeExpiry'
  <2>1. PICK news : news = {k}
    OBVIOUS
  <2>2. /\ active' \subseteq active \cup news
        /\ \A n \in active : row'[n] = row[n]
        /\ \A n \in news : row'[n].created = now
    BY <1>2, <1>4, <1>5, <2>1
  <2> QED
    BY <1>2, <2>2, NewRowsTimely
<1>11. \A m : Failed(m)' <=> Failed(m)
  BY <1>2 DEF Failed
<1>12. CaughtUp'
  BY <1>2, <1>8, <1>11 DEF ServiceInv, CaughtUp
<1>13. ASSUME NEW w \in Worker PROVE Covers(w)'
  <2>1. Olds(w)' = Olds(w)
    BY <1>2 DEF Olds, Inserts
  <2> QED
    BY <1>2, <1>8, <1>11, <2>1 DEF ServiceInv, Covers
<1>14. ASSUME NEW n \in Key PROVE Succeeded(n)'
  BY <1>2, <1>4 DEF ServiceInv, Succeeded
<1> QED
  BY <1>9, <1>10, <1>12, <1>13, <1>14 DEF ServiceInv

(***************************************************************************)
(* Time passes after a cycle: what is due by then has been failed in it.   *)
(***************************************************************************)
LEMMA TickService ==
    ASSUME RotationInv, ServiceInv, Tick
    PROVE  ServiceInv'
<1> USE DEF RotationInv
<1>1. /\ \A r \in Session : req[r] = Idle
      /\ now' = now + 1 /\ ran' = FALSE /\ ran
      /\ UNCHANGED <<row, active, rotatedAt, req, revoked, failed>>
  BY DEF Tick
<1>2. now \in Nat /\ Rows' = Rows
  BY <1>1 DEF Rows, TypeOK
<1>3. \A n \in Rows : row[n].created \in Nat
  BY RowType DEF Row
<1>4. RotatedBeforeExpiry'
  <2> SUFFICES ASSUME NEW k \in active, NEW t \in row[k].created .. (now + 1),
                      t < now + 1, 5 * (t - row[k].created) >= 4 * DefaultTtl
               PROVE  <<k, t>> \in failed
    BY <1>1 DEF RotatedBeforeExpiry
  <2>1. row[k].created \in Nat /\ t \in Nat
    BY <1>3
  <2>2. CASE t < now
    <3>1. t \in row[k].created .. now
      BY <1>2, <2>1, <2>2
    <3> QED
      BY <2>2, <3>1 DEF ServiceInv, RotatedBeforeExpiry
  <2>3. CASE t = now
    <3>1. k \in get_keys_needing_rotation
      BY <2>3 DEF get_keys_needing_rotation, should_rotate_key
    <3> QED
      BY <1>1, <2>3, <3>1 DEF ServiceInv, CaughtUp, Failed
  <2> QED
    BY <1>2, <2>1, <2>2, <2>3
<1>5. ASSUME NEW n \in Rows PROVE row[n].created <= now + 1 /\ Accounted(n)'
  <2>1. row[n].created <= now + 1
    BY <1>2, <1>3 DEF ServiceInv
  <2> QED
    BY <1>1, <2>1 DEF ServiceInv, Accounted
<1>6. \A k \in Key : Succeeded(k)'
  BY <1>1, <1>2 DEF ServiceInv, Succeeded
<1>7. \A w \in Worker : Covers(w)'
  BY <1>1 DEF Covers, Session
<1>8. CaughtUp'
  BY <1>1 DEF CaughtUp
<1> QED
  BY <1>1, <1>2, <1>4, <1>5, <1>6, <1>7, <1>8 DEF ServiceInv

LEMMA CommitService ==
    ASSUME RotationInv, ServiceInv, NEW r \in Session, RotateCommit(r)
    PROVE  ServiceInv'
<1> USE DEF RotationInv
<1>1. PICK ins, g : ins = Inserts(r) /\ g = req[r].grace
  OBVIOUS
<1>2. PICK news : news = {i.new : i \in ins}
  OBVIOUS
<1>3. /\ req[r] # Idle /\ req[r].todo = {} /\ g \in Graces
      /\ req' = [req EXCEPT ![r] = Idle]
      /\ ran' = (ran \/ r \in Worker)
      /\ UNCHANGED <<now, revoked, failed>>
  BY <1>1 DEF RotateCommit, Close, InFlight
<1>4. /\ \A i \in ins : /\ row'[i.new] = NewRow(i, g)
                        /\ rotatedAt'[i.old] = now
      /\ \A n \in Rows : row'[n] = row[n]
      /\ Rows' = Rows \cup news
      /\ \A k \in Key \ Olds(r) : rotatedAt'[k] = rotatedAt[k]
      /\ active' = (active \ Olds(r)) \cup news
  BY <1>1, <1>2, CommitWrites
<1>5. /\ \A i \in ins : /\ i.new \in Key /\ i.new \notin Rows
                        /\ i.old \in Key /\ i.old \in Rows
                        /\ i.at = now
      /\ now \in Nat
  BY <1>1, OpenType DEF InFlight, Insert, TypeOK
<1>6. ASSUME NEW i \in ins
      PROVE  /\ row'[i.new].created = now
             /\ row'[i.new].previous = i.old /\ row'[i.new].previousExpires = now + g
  <2>1. row'[i.new] = NewRow(i, g) /\ i.at = now
    BY <1>4, <1>5
  <2> QED
    BY <2>1 DEF NewRow
<1>7. \A n \in news : ~ should_rotate_key(n)' /\ row'[n].created <= now'
  BY <1>2, <1>3, <1>6, NewIsNotDue
<1>8. \A n \in Rows : should_rotate_key(n)' <=> should_rotate_key(n)
  BY <1>3, <1>4 DEF should_rotate_key
<1>9. RotatedBeforeExpiry'
  <2>1. /\ \A n \in news : row'[n].created = now
        /\ \A n \in active : row'[n] = row[n]
        /\ active' \subseteq active \cup news
    BY <1>2, <1>4, <1>6
  <2> QED
    BY <1>3, <2>1, NewRowsTimely
<1>10. get_keys_needing_rotation' \subseteq get_keys_needing_rotation \ Olds(r)
  <2>1. \A k \in active' \ news : k \in active \ Olds(r) /\ k \in Rows
    BY <1>4
  <2> QED
    BY <1>7, <1>8, <2>1 DEF get_keys_needing_rotation
<1>11. \A m : Failed(m)' <=> Failed(m)
  BY <1>3 DEF Failed
<1>12. CaughtUp'
  <2> SUFFICES ASSUME ran', NEW k \in get_keys_needing_rotation' PROVE Failed(k)'
    BY DEF CaughtUp
  <2>1. k \in get_keys_needing_rotation /\ k \notin Olds(r)
    BY <1>10
  <2>2. CASE r \in Worker
    BY <1>3, <1>11, <2>1, <2>2 DEF ServiceInv, Covers
  <2>3. CASE r \notin Worker
    <3>1. ran
      BY <1>3, <2>3
    <3> QED
      BY <1>11, <2>1, <3>1 DEF ServiceInv, CaughtUp
  <2> QED
    BY <2>2, <2>3
<1>13. ASSUME NEW w \in Worker PROVE Covers(w)'
  <2>1. w \in Session
    BY DEF Session
  <2>2. CASE w = r
    BY <1>3, <2>2 DEF Covers, TypeOK
  <2>3. CASE w # r
    <3>1. req'[w] = req[w]
      BY <1>3, <2>1, <2>3 DEF TypeOK
    <3>2. Olds(w)' = Olds(w)
      BY <3>1 DEF Olds, Inserts
    <3> QED
      BY <1>10, <1>11, <3>1, <3>2 DEF ServiceInv, Covers
  <2> QED
    BY <2>2, <2>3
<1>14. ASSUME NEW n \in Rows' PROVE row'[n].created <= now' /\ Accounted(n)'
  <2>1. CASE n \in news
    BY <1>4, <1>7, <2>1 DEF Accounted
  <2>2. CASE n \in Rows
    <3>1. row'[n].created <= now'
      BY <1>3, <1>4, <2>2 DEF ServiceInv
    <3>2. n \in Key
      BY <2>2 DEF Rows
    <3>3. CASE n \in Olds(r)
      BY <1>1, <1>4, <1>5, <3>1, <3>3, NoneApart DEF Accounted, Olds
    <3>4. CASE n \notin Olds(r)
      BY <1>3, <1>4, <2>2, <3>1, <3>2, <3>4 DEF ServiceInv, Accounted
    <3> QED
      BY <3>1, <3>3, <3>4
  <2> QED
    BY <1>4, <2>1, <2>2
<1>15. ASSUME NEW k \in Key PROVE Succeeded(k)'
  <2>1. CASE k \in Olds(r)
    <3>1. PICK i \in ins : k = i.old
      BY <1>1, <2>1 DEF Olds
    <3>2. i.new \in Rows' /\ rotatedAt'[k] = now
      BY <1>2, <1>4, <3>1
    <3> QED
      BY <1>3, <1>6, <3>1, <3>2 DEF Succeeded
  <2>2. CASE k \notin Olds(r)
    BY <1>4, <2>2 DEF ServiceInv, Succeeded
  <2> QED
    BY <2>1, <2>2
<1> QED
  BY <1>9, <1>12, <1>13, <1>14, <1>15 DEF ServiceInv

(***************************************************************************)
(* What rotate_key, revoke_key and the rotator leave to serve clients with, *)
(* failures included.                                                      *)
(***************************************************************************)
THEOREM ServiceInvariance == Spec => []ServiceInv
<1>1. Init => ServiceInv
  BY DEF Init, ServiceInv, Rows, Session, CaughtUp, Covers, Succeeded,
         RotatedBeforeExpiry
<1>2. RotationInv /\ ServiceInv /\ [Next]_vars => ServiceInv'
  BY IssueService, BeginService, StoreService, CommitService, AbortService,
     ErrorService, RevokeService, TickService
  DEF Next
<1> QED
  BY <1>1, <1>2, RotationInvariance, PTL DEF Spec

(***************************************************************************)
(* In the grace a rotated key's secret is accepted by the row of a         *)
(* successor, as long as no successor was rotated or revoked or has        *)
(* expired: however rotate_key calls raced.                                *)
(***************************************************************************)
THEOREM GraceHonouredHolds == Spec => []GraceHonoured
<1>1. ASSUME RotationInv, ServiceInv PROVE GraceHonoured
  <2> SUFFICES ASSUME NEW k \in Key, InGrace(k) PROVE Works(k)
    BY DEF GraceHonoured
  <2>1. PICK n \in Rows, g \in Graces :
            row[n].previous = k /\ row[n].previousExpires = rotatedAt[k] + g
    BY <1>1 DEF ServiceInv, Succeeded, InGrace
  <2>2. /\ n \in active /\ ~ is_key_expired(row[n].expires)
        /\ now <= rotatedAt[k] + g
    BY <1>1, <2>1 DEF ServiceInv, Accounted, Successors, InGrace, Graces
  <2>3. now \in Nat /\ rotatedAt[k] \in Nat /\ g \in Nat
    BY <1>1, <2>1, ConstantsAssumption DEF RotationInv, TypeOK, InGrace, Graces
  <2>4. ~ (now > row[n].previousExpires)
    BY <2>1, <2>2, <2>3
  <2> QED
    BY <2>1, <2>2, <2>4 DEF Works, verify_key, is_key_expired
<1> QED
  BY <1>1, RotationInvariance, ServiceInvariance, PTL

(***************************************************************************)
(* The rotator replaces a key in every unit of the last fifth of the       *)
(* default lifetime, and after, or has failed to: whatever lifetimes keys  *)
(* were issued with and whichever rotations raised.                        *)
(***************************************************************************)
THEOREM RotatedInTime == Spec => []RotatedBeforeExpiry
<1>1. ServiceInv => RotatedBeforeExpiry
  BY DEF ServiceInv
<1> QED
  BY <1>1, ServiceInvariance, PTL
=============================================================================
