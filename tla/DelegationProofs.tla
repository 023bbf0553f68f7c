-------------------------- MODULE DelegationProofs --------------------------
(***************************************************************************)
(* Proofs about Delegation, for any number of agents, scopes, grants and   *)
(* requests in flight.                                                     *)
(***************************************************************************)
EXTENDS Delegation, FiniteSetTheorems, TLAPS

Pointers == [GrantId -> GrantId \cup {None}]

(***************************************************************************)
(* A grant is in its own lineage.                                          *)
(***************************************************************************)
LEMMA LineageSelf ==
    ASSUME NEW p \in Pointers, NEW g \in GrantId
    PROVE  g \in LineageIn(p, g)
BY DEF LineageIn

(***************************************************************************)
(* A set of grants closed under the pointers holds the lineage of each of  *)
(* its members.                                                            *)
(***************************************************************************)
LEMMA LineageInClosed ==
    ASSUME NEW p \in Pointers, NEW g \in GrantId, NEW S \in SUBSET GrantId,
           g \in S, ParentClosed(p, S)
    PROVE  LineageIn(p, g) \subseteq S
BY DEF LineageIn

(***************************************************************************)
(* A lineage is itself closed under the pointers.                          *)
(***************************************************************************)
LEMMA LineageClosed ==
    ASSUME NEW p \in Pointers, NEW g \in GrantId
    PROVE  /\ LineageIn(p, g) \in SUBSET GrantId
           /\ ParentClosed(p, LineageIn(p, g))
<1>1. LineageIn(p, g) \in SUBSET GrantId
  BY DEF LineageIn
<1>2. ASSUME NEW h \in LineageIn(p, g), p[h] # None
      PROVE  p[h] \in LineageIn(p, g)
  <2>1. h \in GrantId /\ p[h] \in GrantId
    BY <1>1, <1>2 DEF Pointers
  <2>2. ASSUME NEW S \in SUBSET GrantId, g \in S, ParentClosed(p, S)
        PROVE  p[h] \in S
    BY <1>2, <2>1, <2>2 DEF LineageIn, ParentClosed
  <2>3. QED
    BY <2>1, <2>2 DEF LineageIn
<1>3. QED
  BY <1>1, <1>2 DEF ParentClosed

(***************************************************************************)
(* One step of the walk: the lineage of g is g and the lineage of its      *)
(* parent.                                                                 *)
(***************************************************************************)
LEMMA LineageStep ==
    ASSUME NEW p \in Pointers, NEW g \in GrantId
    PROVE  LineageIn(p, g) =
              {g} \cup (IF p[g] = None THEN {} ELSE LineageIn(p, p[g]))
<1> DEFINE above == IF p[g] = None THEN {} ELSE LineageIn(p, p[g])
<1>1. p[g] # None => p[g] \in GrantId
  BY DEF Pointers
<1>2. above \in SUBSET GrantId /\ ParentClosed(p, above)
  BY <1>1, LineageClosed DEF ParentClosed
<1>3. p[g] # None => p[g] \in above
  BY <1>1, LineageSelf
<1>4. ({g} \cup above) \in SUBSET GrantId /\ ParentClosed(p, {g} \cup above)
  BY <1>2, <1>3 DEF ParentClosed
<1>5. LineageIn(p, g) \subseteq {g} \cup above
  BY <1>4, LineageInClosed
<1>6. LineageIn(p, g) \in SUBSET GrantId /\ ParentClosed(p, LineageIn(p, g))
  BY LineageClosed
<1>7. g \in LineageIn(p, g)
  BY LineageSelf
<1>8. above \subseteq LineageIn(p, g)
  <2>1. CASE p[g] = None
    BY <2>1
  <2>2. CASE p[g] # None
    <3>1. p[g] \in LineageIn(p, g)
      BY <1>6, <1>7, <2>2 DEF ParentClosed
    <3>2. QED
      BY <1>1, <1>6, <2>2, <3>1, LineageInClosed
  <2>3. QED
    BY <2>1, <2>2
<1>9. QED
  BY <1>5, <1>7, <1>8

(***************************************************************************)
(* Rows added outside a closed set C of grants, whose pointers stay as     *)
(* they are, do not change the lineage of the members of C.                *)
(***************************************************************************)
LEMMA LineageStable ==
    ASSUME NEW p \in Pointers, NEW q \in Pointers,
           NEW C \in SUBSET GrantId, ParentClosed(p, C),
           \A x \in C : q[x] = p[x], NEW g \in C
    PROVE  LineageIn(q, g) = LineageIn(p, g)
<1>1. ParentClosed(q, C)
  BY DEF ParentClosed
<1>2. ASSUME NEW S \in SUBSET GrantId, ParentClosed(p, S)
      PROVE  ParentClosed(q, S \cap C)
  BY <1>1, <1>2 DEF ParentClosed
<1>3. ASSUME NEW S \in SUBSET GrantId, ParentClosed(q, S)
      PROVE  ParentClosed(p, S \cap C)
  BY <1>3 DEF ParentClosed
<1>4. ASSUME NEW h \in LineageIn(q, g) PROVE h \in LineageIn(p, g)
  <2>1. h \in GrantId
    BY DEF LineageIn
  <2>2. ASSUME NEW S \in SUBSET GrantId, g \in S, ParentClosed(p, S)
        PROVE  h \in S
    <3>1. S \cap C \in SUBSET GrantId /\ g \in S \cap C
          /\ ParentClosed(q, S \cap C)
      BY <1>2, <2>2
    <3>2. h \in S \cap C
      BY <3>1, LineageInClosed
    <3>3. QED
      BY <3>2
  <2>3. QED
    BY <2>1, <2>2 DEF LineageIn
<1>5. ASSUME NEW h \in LineageIn(p, g) PROVE h \in LineageIn(q, g)
  <2>1. h \in GrantId
    BY DEF LineageIn
  <2>2. ASSUME NEW S \in SUBSET GrantId, g \in S, ParentClosed(q, S)
        PROVE  h \in S
    <3>1. S \cap C \in SUBSET GrantId /\ g \in S \cap C
          /\ ParentClosed(p, S \cap C)
      BY <1>3, <2>2
    <3>2. h \in S \cap C
      BY <3>1, LineageInClosed
    <3>3. QED
      BY <3>2
  <2>3. QED
    BY <2>1, <2>2 DEF LineageIn
<1>6. QED
  BY <1>4, <1>5

-----------------------------------------------------------------------------
(***************************************************************************)
(* What pc says about the shape of a request record.                       *)
(***************************************************************************)
LEMMA RequestShapes ==
    ASSUME NEW q \in RequestState
    PROVE  /\ q.pc = "checked" => q \in CheckedState
           /\ q.pc \in {"inserted", "granted"} => q \in InsertedState
           /\ q.pc = "descend" => q \in DescendState
           /\ q.pc \in {"update", "blacklist", "revoked"} =>
                 q \in RevokeState
           /\ q.pc = "merge" => q \in MergeState
BY DEF RequestState, Idle, CheckedState, InsertedState, DescendState,
       RevokeState, MergeState

(***************************************************************************)
(* The other way round: each shape is a request state.                     *)
(***************************************************************************)
LEMMA ShapesAreRequests ==
    /\ Idle \in RequestState
    /\ CheckedState \subseteq RequestState
    /\ InsertedState \subseteq RequestState
    /\ DescendState \subseteq RequestState
    /\ RevokeState \subseteq RequestState
    /\ MergeState \subseteq RequestState
BY DEF RequestState

(***************************************************************************)
(* What the middleware hands over is a token, and for a delegation token   *)
(* the claims are those of its committed grant.                            *)
(***************************************************************************)
LEMMA BearerToken ==
    ASSUME TypeOK, NEW t \in BearerTokens
    PROVE  /\ t \in Token
           /\ t.grant # None =>
                 /\ t.grant \in Committed
                 /\ t.agent = grant[t.grant].delegatee_agent_id
                 /\ t.scopes = grant[t.grant].scopes
<1>1. CASE t \in [agent : Agent, scopes : ScopeSet, grant : {None}]
  BY <1>1 DEF Token
<1>2. CASE t \in {[agent  |-> grant[g].delegatee_agent_id,
                   scopes |-> grant[g].scopes,
                   grant  |-> g] : g \in {h \in GrantId : Accepted(h)}}
  <2>1. PICK g \in GrantId : /\ Accepted(g)
                             /\ t = [agent  |-> grant[g].delegatee_agent_id,
                                     scopes |-> grant[g].scopes,
                                     grant  |-> g]
    BY <1>2
  <2>2. g \in Committed /\ grant[g] \in Row
    BY <2>1 DEF Accepted, Committed, TypeOK
  <2>3. QED
    BY <2>1, <2>2 DEF Token, Row
<1>3. QED
  BY <1>1, <1>2 DEF BearerTokens

(***************************************************************************)
(* The row a request inserts is a row.                                     *)
(***************************************************************************)
LEMMA ChainFinite ==
    ASSUME NEW g \in GrantId \cup {None}
    PROVE  /\ Chain(g) \in SUBSET GrantId
           /\ IsFiniteSet(Chain(g))
           /\ Cardinality(Chain(g)) \in Nat
<1>1. Chain(g) \in SUBSET GrantId
  BY DEF Chain, Lineage, LineageIn
<1>2. IsFiniteSet(Chain(g))
  BY <1>1, ConstantsAssumption, FS_Subset
<1>3. QED
  BY <1>1, <1>2, FS_CardinalityType

(***************************************************************************)
(* What DelegateInsert inserts is a row.                                   *)
(***************************************************************************)
LEMMA NewRowType ==
    ASSUME NEW q \in CheckedState
    PROVE  NewRow(q) \in Row
<1>1. q.token.grant \in GrantId \cup {None}
  BY DEF CheckedState, Token
<1>2. Cardinality(Chain(q.token.grant)) + 1 \in Nat
  BY <1>1, ChainFinite
<1>3. QED
  BY <1>1, <1>2 DEF NewRow, Row, CheckedState, Token

(***************************************************************************)
(* Every variable keeps its type: in particular every request record has   *)
(* the fields its pc promises, and a depth stays a number.                 *)
(***************************************************************************)
THEOREM TypeCorrect == Spec => []TypeOK
<1>1. Init => TypeOK
  BY ConstantsAssumption, ShapesAreRequests DEF Init, TypeOK, ScopeSet
<1>2. TypeOK /\ [Next]_vars => TypeOK'
  <2> SUFFICES ASSUME TypeOK, [Next]_vars PROVE TypeOK'
    OBVIOUS
  <2> USE DEF TypeOK
  <2>1. ASSUME NEW r \in DelegateRequest, NEW t \in BearerTokens,
               NEW a \in Agent, NEW S \in ScopeSet, DelegateCheck(r, t, a, S)
        PROVE  TypeOK'
    <3>1. [pc |-> "checked", token |-> t, delegatee |-> a, requested |-> S,
           ceiling |-> allowed[t.agent]] \in CheckedState
      BY BearerToken DEF CheckedState, Token, ScopeSet
    <3>2. QED
      BY <2>1, <3>1, ShapesAreRequests DEF DelegateCheck, db, trail
  <2>2. ASSUME NEW r \in DelegateRequest, NEW id \in GrantId,
               DelegateInsert(r, id)
        PROVE  TypeOK'
    <3>1. r \in Request /\ req[r] \in CheckedState
      BY <2>2, RequestShapes DEF DelegateInsert, Request
    <3>2. [pc |-> "inserted", id |-> id, row |-> NewRow(req[r]),
           ceiling |-> req[r].ceiling] \in InsertedState
      BY <3>1, NewRowType DEF InsertedState, CheckedState
    <3>3. QED
      BY <2>2, <3>2, ShapesAreRequests DEF DelegateInsert, db, trail
  <2>3. ASSUME NEW r \in DelegateRequest, DelegateRefuse(r) PROVE TypeOK'
    BY <2>3, ShapesAreRequests DEF DelegateRefuse, db, trail
  <2>4. ASSUME NEW r \in DelegateRequest, DelegateAudit(r) PROVE TypeOK'
    <3>1. r \in Request /\ req[r] \in InsertedState
      BY <2>4, RequestShapes DEF DelegateAudit, Request
    <3>2. [req[r] EXCEPT !.pc = "granted"] \in InsertedState
      BY <3>1 DEF InsertedState
    <3>3. req[r].id \in GrantId
      BY <3>1 DEF InsertedState
    <3>4. QED
      BY <2>4, <3>1, <3>2, <3>3, ShapesAreRequests
         DEF DelegateAudit, db
  <2>5. ASSUME NEW r \in DelegateRequest, DelegateCommit(r) PROVE TypeOK'
    <3>1. r \in Request /\ req[r] \in InsertedState
      BY <2>5, RequestShapes DEF DelegateCommit, Request
    <3>2. req[r].id \in GrantId /\ req[r].row \in Row
          /\ req[r].ceiling \in ScopeSet
      BY <3>1 DEF InsertedState
    <3>3. QED
      BY <2>5, <3>2, ShapesAreRequests DEF DelegateCommit, trail
  <2>6. ASSUME NEW r \in RevokeRequest, NEW g \in GrantId, RevokeStart(r, g)
        PROVE  TypeOK'
    <3>1. [pc |-> "descend", target |-> g, found |-> {}, frontier |-> {g}]
              \in DescendState
      BY DEF DescendState
    <3>2. QED
      BY <2>6, <3>1, ShapesAreRequests DEF RevokeStart, db, trail
  <2>7. ASSUME NEW r \in RevokeRequest, RevokeDescend(r) PROVE TypeOK'
    <3> DEFINE c == Children(req[r].frontier)
    <3>1. r \in Request /\ req[r] \in DescendState
      BY <2>7, RequestShapes DEF RevokeDescend, Request
    <3>2. c \in SUBSET GrantId
      BY DEF Children, Committed
    <3>3. [pc |-> "update", target |-> req[r].target, found |-> req[r].found,
           locked |-> {}, todo |-> JtisToRevoke(req[r].target, req[r].found)]
              \in RevokeState
      BY <3>1 DEF DescendState, RevokeState, JtisToRevoke
    <3>4. [pc |-> "descend", target |-> req[r].target,
           found |-> req[r].found \cup c, frontier |-> c] \in DescendState
      BY <3>1, <3>2 DEF DescendState
    <3>5. QED
      BY <2>7, <3>3, <3>4, ShapesAreRequests DEF RevokeDescend, db, trail
  <2>8. ASSUME NEW r \in RevokeRequest, NEW g \in GrantId, RevokeLock(r, g)
        PROVE  TypeOK'
    <3>1. r \in Request /\ req[r] \in RevokeState
      BY <2>8, RequestShapes DEF RevokeLock, Updating, Request
    <3>2. \A pc \in {"update", "blacklist"} :
             [req[r] EXCEPT !.locked = req[r].locked \cup {g}, !.pc = pc]
                \in RevokeState
      BY <3>1 DEF RevokeState
    <3>3. req'[r] \in RevokeState
      BY <2>8, <3>1, <3>2 DEF RevokeLock
    <3>4. QED
      BY <2>8, <3>3, ShapesAreRequests DEF RevokeLock, db, trail
  <2>9. ASSUME NEW r \in RevokeRequest, NEW g \in GrantId,
               RevokeBlacklist(r, g)
        PROVE  TypeOK'
    <3>1. r \in Request /\ req[r] \in RevokeState
      BY <2>9, RequestShapes DEF RevokeBlacklist, Request
    <3>2. [req[r] EXCEPT !.todo = @ \ {g}] \in RevokeState
      BY <3>1 DEF RevokeState
    <3>3. QED
      BY <2>9, <3>1, <3>2, ShapesAreRequests DEF RevokeBlacklist, db, trail
  <2>10. ASSUME NEW r \in RevokeRequest, RevokeAudit(r) PROVE TypeOK'
    <3>1. r \in Request /\ req[r] \in RevokeState
      BY <2>10, RequestShapes DEF RevokeAudit, Request
    <3>2. [req[r] EXCEPT !.pc = "revoked"] \in RevokeState
          /\ req[r].target \in GrantId
      BY <3>1 DEF RevokeState
    <3>3. QED
      BY <2>10, <3>1, <3>2, ShapesAreRequests DEF RevokeAudit, db
  <2>11. ASSUME NEW r \in RevokeRequest, RevokeCommit(r) PROVE TypeOK'
    <3>1. r \in Request /\ req[r] \in RevokeState
      BY <2>11, RequestShapes DEF RevokeCommit, Request
    <3>2. AllIds(req[r]) \subseteq GrantId
      BY <3>1 DEF RevokeState, AllIds
    <3>3. QED
      BY <2>11, <3>2, ShapesAreRequests DEF RevokeCommit, trail
  <2>12. ASSUME NEW r \in Request, Abort(r) PROVE TypeOK'
    BY <2>12, ShapesAreRequests DEF Abort, db, trail
  <2>13. ASSUME NEW g \in Expirable, Expire(g) PROVE TypeOK'
    BY <2>13, ConstantsAssumption DEF Expire, db, trail
  <2>14. ASSUME NEW a \in Operated, Disable(a) PROVE TypeOK'
    <3>1. ASSUME NEW r \in InFlight PROVE req[r].id \in GrantId
      <4>1. r \in Request /\ req[r] \in InsertedState
        BY <3>1, RequestShapes DEF InFlight
      <4>2. QED
        BY <4>1 DEF InsertedState
    <3>2. HeldBy(a) \subseteq GrantId
      BY <3>1 DEF HeldBy, Committed
    <3>3. QED
      BY <2>14, <3>2, ConstantsAssumption DEF Disable, trail
  <2>15. ASSUME NEW a \in Operated, Enable(a) PROVE TypeOK'
    BY <2>15, ConstantsAssumption DEF Enable, trail
  <2>16. ASSUME NEW r \in RoleRequest, NEW a \in Operated, NEW x \in Role,
                AssignRead(r, a, x)
         PROVE  TypeOK'
    <3>1. [pc |-> "merge", agent |-> a, merged |-> allowed[a] \cup RoleScopes[x]]
              \in MergeState
      BY ConstantsAssumption DEF MergeState, ScopeSet
    <3>2. QED
      BY <2>16, <3>1, ShapesAreRequests DEF AssignRead, db, trail
  <2>17. ASSUME NEW r \in RoleRequest, AssignCommit(r) PROVE TypeOK'
    <3>1. r \in Request /\ req[r] \in MergeState
      BY <2>17, RequestShapes DEF AssignCommit, Request
    <3>2. req[r].agent \in Agent /\ req[r].merged \in ScopeSet
      BY <3>1 DEF MergeState
    <3>3. QED
      BY <2>17, <3>2, ShapesAreRequests DEF AssignCommit, trail
  <2>18. CASE UNCHANGED vars
    BY <2>18 DEF vars
  <2>19. QED
    BY <2>1, <2>2, <2>3, <2>4, <2>5, <2>6, <2>7, <2>8, <2>9, <2>10, <2>11,
       <2>12, <2>13, <2>14, <2>15, <2>16, <2>17, <2>18
       DEF Next, DelegateStep, RevokeStep, RoleStep, Environment
<1>3. QED
  BY <1>1, <1>2, PTL DEF Spec

-----------------------------------------------------------------------------
(***************************************************************************)
(* The inductive invariant.  LinkOK is what makes a row a lawful next hop  *)
(* of the chain above its parent; it holds of committed rows and of the    *)
(* rows still in flight, and it refers only to what cannot change any      *)
(* more.                                                                   *)
(***************************************************************************)
LinkOK(row) ==
    /\ row.parent_grant_id # None =>
          /\ row.parent_grant_id \in Committed
          /\ row.delegating_agent_id =
                grant[row.parent_grant_id].delegatee_agent_id
          /\ row.scopes \subseteq grant[row.parent_grant_id].scopes
    /\ row.delegation_depth = Cardinality(Chain(row.parent_grant_id)) + 1
    /\ row.delegation_depth <= MaxDepth
    /\ row.delegatee_agent_id \notin AllAgentIds(Chain(row.parent_grant_id))
    /\ row.delegating_agent_id # row.delegatee_agent_id

TokenOK(q) ==
    q.token.grant # None =>
          /\ q.token.grant \in Committed
          /\ q.token.agent = grant[q.token.grant].delegatee_agent_id
          /\ q.token.scopes = grant[q.token.grant].scopes

Links ==
    /\ \A g \in Committed : LinkOK(grant[g])
    /\ \A r \in Request : req[r].pc = "checked" => TokenOK(req[r])
    /\ \A r \in InFlight : req[r].id \notin Committed /\ LinkOK(req[r].row)
    /\ \A r, s \in InFlight : r # s => req[r].id # req[s].id

ChainInv == TypeOK /\ Links

(***************************************************************************)
(* parent_grant_id as a function of the grants.                            *)
(***************************************************************************)
LEMMA ParentOfType == TypeOK => ParentOf \in Pointers
BY DEF TypeOK, ParentOf, Pointers, Row

(***************************************************************************)
(* Ancestors of committed grants are committed.                            *)
(***************************************************************************)
LEMMA CommittedClosed ==
    ASSUME TypeOK, Links
    PROVE  /\ Committed \in SUBSET GrantId
           /\ ParentClosed(ParentOf, Committed)
BY DEF Committed, ParentClosed, ParentOf, Links, LinkOK

(***************************************************************************)
(* No step changes a committed row or the ceiling recorded with it.        *)
(***************************************************************************)
LEMMA RowsStay ==
    ASSUME TypeOK, Links, [Next]_vars
    PROVE  \A g \in Committed : /\ g \in Committed'
                               /\ grant'[g] = grant[g]
                               /\ ceiling'[g] = ceiling[g]
<1>1. CASE UNCHANGED <<grant, ceiling>>
  BY <1>1 DEF Committed
<1>2. ASSUME NEW r \in DelegateRequest, DelegateCommit(r)
      PROVE  \A g \in Committed : /\ g \in Committed'
                                 /\ grant'[g] = grant[g]
                                 /\ ceiling'[g] = ceiling[g]
  <2>1. r \in InFlight
    BY <1>2 DEF InFlight, DelegateCommit, Request
  <2>2. req[r].id \notin Committed
    BY <2>1 DEF Links
  <2>3. QED
    BY <1>2, <2>2 DEF DelegateCommit, Committed, TypeOK
<1>3. QED
  BY <1>1, <1>2
     DEF Next, vars, DelegateStep, RevokeStep, RoleStep, Environment,
         DelegateCheck, DelegateInsert, DelegateRefuse, DelegateAudit,
         RevokeStart, RevokeDescend, RevokeLock, RevokeBlacklist, RevokeAudit,
         RevokeCommit, Abort, Expire, Disable, Enable, AssignRead,
         AssignCommit, db

(***************************************************************************)
(* The lineage of a committed grant stays as it is.                        *)
(***************************************************************************)
LEMMA LineageStays ==
    ASSUME TypeOK, TypeOK', Links, [Next]_vars, NEW g \in Committed
    PROVE  Lineage(g)' = Lineage(g)
<1>1. ParentOf \in Pointers /\ ParentOf' \in Pointers
  BY DEF TypeOK, ParentOf, Pointers, Row
<1>2. \A x \in Committed : ParentOf'[x] = ParentOf[x]
  BY RowsStay DEF ParentOf, Committed
<1>3. LineageIn(ParentOf', g) = LineageIn(ParentOf, g)
  BY <1>1, <1>2, CommittedClosed, LineageStable
<1>4. QED
  BY <1>3 DEF Lineage

(***************************************************************************)
(* A lawful link stays lawful.                                             *)
(***************************************************************************)
LEMMA LinkStays ==
    ASSUME TypeOK, TypeOK', Links, [Next]_vars, NEW row \in Row, LinkOK(row)
    PROVE  LinkOK(row)'
<1> DEFINE p == row.parent_grant_id
<1>1. p \in GrantId \cup {None} /\ row.delegating_agent_id \in Agent
  BY DEF Row
<1>2. p # None => p \in Committed /\ p \in Committed' /\ grant'[p] = grant[p]
  BY RowsStay DEF LinkOK
<1>3. Chain(p)' = Chain(p)
  BY <1>2, LineageStays DEF Chain
<1>4. Chain(p) \subseteq Committed
  <2>1. CASE p = None
    BY <2>1 DEF Chain
  <2>2. CASE p # None
    BY <1>1, <1>2, <2>2, CommittedClosed, ParentOfType, LineageInClosed
       DEF Chain, Lineage
  <2>3. QED
    BY <2>1, <2>2
<1>5. AllAgentIds(Chain(p))' = AllAgentIds(Chain(p))
  BY <1>3, <1>4, RowsStay DEF AllAgentIds
<1>6. QED
  BY <1>2, <1>3, <1>5 DEF LinkOK

(***************************************************************************)
(* A step that leaves the request of a slot alone, or ends it, keeps what  *)
(* Links says of that slot; only the slot that moves needs an argument.    *)
(***************************************************************************)
SlotOK(r) ==
    /\ req[r].pc = "checked" => TokenOK(req[r])
    /\ r \in InFlight => /\ req[r].id \notin Committed
                         /\ LinkOK(req[r].row)
                         /\ \A s \in InFlight : s # r => req[s].id # req[r].id

(***************************************************************************)
(* Links, one request at a time.                                           *)
(***************************************************************************)
LEMMA LinksBySlot ==
    Links <=> /\ \A g \in Committed : LinkOK(grant[g])
              /\ \A r \in Request : SlotOK(r)
BY DEF Links, SlotOK, InFlight

(***************************************************************************)
(* The token of a request stays good: its grant keeps its row.             *)
(***************************************************************************)
LEMMA TokenStays ==
    ASSUME TypeOK, TypeOK', Links, [Next]_vars, NEW q \in CheckedState,
           TokenOK(q)
    PROVE  TokenOK(q)'
<1>1. q.token.agent \in Agent
  BY DEF CheckedState, Token
<1>2. QED
  BY <1>1, RowsStay DEF TokenOK

(***************************************************************************)
(* If no row is committed, Links is kept once the slots that change are    *)
(* shown to be in order.                                                   *)
(***************************************************************************)
LEMMA SlotsMove ==
    ASSUME TypeOK, TypeOK', Links, [Next]_vars, UNCHANGED grant,
           \A s \in Request : req'[s] = req[s] \/ SlotOK(s)'
    PROVE  Links'
<1>1. Committed' = Committed
  BY DEF Committed
<1>2. ASSUME NEW g \in Committed PROVE LinkOK(grant[g])'
  <2>1. grant[g] \in Row /\ LinkOK(grant[g]) /\ grant'[g] = grant[g]
    BY DEF Committed, TypeOK, Links
  <2>2. PICK row \in Row : row = grant[g]
    BY <2>1
  <2>3. LinkOK(row)'
    BY <2>1, <2>2, LinkStays
  <2>4. QED
    BY <2>1, <2>2, <2>3 DEF LinkOK
<1>3. ASSUME NEW s \in Request, req'[s] = req[s] PROVE SlotOK(s)'
  <2>1. req'[s] = req[s] /\ req[s] \in RequestState /\ SlotOK(s)
    BY <1>3, LinksBySlot DEF TypeOK
  <2>2. ASSUME req[s].pc = "checked" PROVE TokenOK(req[s])'
    <3>1. PICK q \in CheckedState : q = req[s]
      BY <2>1, <2>2, RequestShapes
    <3>2. TokenOK(q)'
      BY <2>1, <2>2, <3>1, TokenStays DEF SlotOK
    <3>3. QED
      BY <2>1, <3>1, <3>2 DEF TokenOK
  <2>3. ASSUME s \in InFlight PROVE LinkOK(req[s].row)'
    <3>1. req[s].row \in Row /\ LinkOK(req[s].row)
      BY <2>1, <2>3, RequestShapes DEF InFlight, InsertedState, SlotOK
    <3>2. PICK row \in Row : row = req[s].row
      BY <3>1
    <3>3. LinkOK(row)'
      BY <3>1, <3>2, LinkStays
    <3>4. QED
      BY <2>1, <3>2, <3>3 DEF LinkOK
  <2>4. ASSUME s \in InFlight, NEW t \in InFlight', t # s
        PROVE  (req[t].id # req[s].id)'
    <3>1. CASE SlotOK(t)'
      BY <1>1, <2>1, <2>4, <3>1 DEF SlotOK, InFlight
    <3>2. CASE req'[t] = req[t]
      BY <2>1, <2>4, <3>2 DEF SlotOK, InFlight
    <3>3. QED
      BY <2>4, <3>1, <3>2 DEF InFlight
  <2>5. QED
    BY <1>1, <2>1, <2>2, <2>3, <2>4 DEF SlotOK, InFlight
<1>4. (\A g \in Committed : LinkOK(grant[g]))'
  BY <1>1, <1>2
<1>5. (\A s \in Request : SlotOK(s))'
  BY <1>3
<1>6. QED
  BY <1>4, <1>5 DEF Links, SlotOK, InFlight

(***************************************************************************)
(* What delegate() checks makes the new row a lawful link.                 *)
(***************************************************************************)
LEMMA NewRowIsLink ==
    ASSUME TypeOK, NEW q \in CheckedState, TokenOK(q), ChecksPass(q)
    PROVE  LinkOK(NewRow(q))
<1>1. q.token.grant \in GrantId \cup {None}
  BY DEF CheckedState, Token
<1>2. Cardinality(Chain(q.token.grant)) \in Nat
  BY <1>1, ChainFinite
<1>3. QED
  BY <1>2 DEF LinkOK, NewRow, TokenOK, ChecksPass, Validate, Held

(***************************************************************************)
(* Committing a lawful in-flight row.                                      *)
(***************************************************************************)
LEMMA CommitKeepsLinks ==
    ASSUME TypeOK, TypeOK', Links, [Next]_vars,
           NEW r \in DelegateRequest, DelegateCommit(r)
    PROVE  Links'
<1> DEFINE id == req[r].id
<1>1. r \in InFlight /\ req[r] \in InsertedState /\ req'[r] = Idle
  BY RequestShapes DEF DelegateCommit, InFlight, Request, TypeOK
<1>2. id \in GrantId /\ req[r].row \in Row /\ id \notin Committed
      /\ LinkOK(req[r].row)
  BY <1>1 DEF InsertedState, Links
<1>3. Committed' = Committed \cup {id}
  BY <1>2, ConstantsAssumption DEF DelegateCommit, Committed, TypeOK
<1>4. \A s \in Request \ {r} : req'[s] = req[s]
  BY DEF DelegateCommit, TypeOK
<1>5. InFlight' = InFlight \ {r}
  BY <1>1, <1>4 DEF InFlight, Idle
<1>6. ASSUME NEW g \in Committed' PROVE LinkOK(grant[g])'
  <2>1. PICK row \in Row : row = grant'[g] /\ LinkOK(row)
    <3>1. CASE g = id
      BY <1>2, <3>1 DEF DelegateCommit, TypeOK
    <3>2. CASE g \in Committed
      BY <3>2, RowsStay DEF Links, TypeOK, Committed
    <3>3. QED
      BY <1>3, <3>1, <3>2
  <2>2. LinkOK(row)'
    BY <2>1, LinkStays
  <2>3. QED
    BY <2>1, <2>2 DEF LinkOK
<1>7. ASSUME NEW s \in Request, req'[s].pc = "checked"
      PROVE  TokenOK(req[s])'
  <2>1. s # r
    BY <1>1, <1>7 DEF Idle
  <2>2. req'[s] = req[s] /\ req[s].pc = "checked" /\ req[s] \in RequestState
    BY <1>4, <1>7, <2>1 DEF TypeOK
  <2>3. PICK q \in CheckedState : q = req[s]
    BY <2>2, RequestShapes
  <2>4. TokenOK(q)'
    BY <2>2, <2>3, TokenStays DEF Links
  <2>5. QED
    BY <2>2, <2>3, <2>4 DEF TokenOK
<1>8. ASSUME NEW s \in InFlight'
      PROVE  (req[s].id \notin Committed /\ LinkOK(req[s].row))'
  <2>1. s \in InFlight /\ s # r /\ req'[s] = req[s]
    BY <1>4, <1>5 DEF InFlight
  <2>2. req[s].id \notin Committed /\ req[s].id # id /\ LinkOK(req[s].row)
    BY <1>1, <2>1 DEF Links
  <2>3. req[s].row \in Row
    BY <2>1, RequestShapes DEF InFlight, InsertedState, TypeOK
  <2>4. PICK row \in Row : row = req[s].row
    BY <2>3
  <2>5. LinkOK(row)'
    BY <2>2, <2>4, LinkStays
  <2>6. QED
    BY <1>3, <2>1, <2>2, <2>4, <2>5 DEF LinkOK
<1>9. \A s, t \in InFlight' : s # t => req'[s].id # req'[t].id
  BY <1>4, <1>5 DEF Links, InFlight
<1>10. QED
  BY <1>6, <1>7, <1>8, <1>9 DEF Links

(***************************************************************************)
(* What taking a row lock changes in the request that takes it.            *)
(***************************************************************************)
LEMMA LockMoves ==
    ASSUME TypeOK, NEW r \in RevokeRequest, NEW g \in GrantId, RevokeLock(r, g)
    PROVE  /\ r \in Request
           /\ req[r] \in RevokeState
           /\ req[r].pc = "update"
           /\ req'[r].pc \in {"update", "blacklist"}
           /\ req'[r].target = req[r].target
           /\ req'[r].found = req[r].found
           /\ req'[r].todo = req[r].todo
           /\ \A s \in Request \ {r} : req'[s] = req[s]
<1>1. r \in Request /\ req[r] \in RevokeState /\ req[r].pc = "update"
  BY RequestShapes DEF RevokeLock, Updating, TypeOK, Request
<1>2. QED
  BY <1>1 DEF RevokeLock, RevokeState, TypeOK

(***************************************************************************)
(* Links is an invariant.                                                  *)
(***************************************************************************)
THEOREM ChainInvariance == Spec => []ChainInv
<1>1. Init => Links
  BY DEF Init, Links, Committed, InFlight, Idle
<1>2. ASSUME TypeOK, TypeOK', Links, [Next]_vars PROVE Links'
  <2> USE <1>2
  <2>1. ASSUME NEW r \in DelegateRequest, NEW t \in BearerTokens,
               NEW a \in Agent, NEW S \in ScopeSet, DelegateCheck(r, t, a, S)
        PROVE  Links'
    <3>1. UNCHANGED grant
          /\ \A s \in Request \ {r} : req'[s] = req[s]
      BY <2>1 DEF DelegateCheck, db, TypeOK
    <3>2. req'[r] = [pc |-> "checked", token |-> t, delegatee |-> a,
                     requested |-> S, ceiling |-> allowed[t.agent]]
      BY <2>1 DEF DelegateCheck, TypeOK, Request
    <3>3. SlotOK(r)'
      BY <3>1, <3>2, BearerToken DEF SlotOK, TokenOK, InFlight, Committed
    <3>4. QED
      BY <3>1, <3>3, SlotsMove
  <2>2. ASSUME NEW r \in DelegateRequest, NEW id \in GrantId,
               DelegateInsert(r, id)
        PROVE  Links'
    <3>1. UNCHANGED grant
          /\ \A s \in Request \ {r} : req'[s] = req[s]
      BY <2>2 DEF DelegateInsert, db, TypeOK
    <3>2. req[r] \in CheckedState /\ TokenOK(req[r])
      BY <2>2, RequestShapes DEF DelegateInsert, TypeOK, Request, Links
    <3>3. PICK row \in Row : row = NewRow(req[r])
      BY <3>2, NewRowType
    <3>4. LinkOK(row)
      BY <2>2, <3>2, <3>3, NewRowIsLink DEF DelegateInsert
    <3>5. LinkOK(row)'
      BY <3>4, LinkStays
    <3>6. req'[r] = [pc |-> "inserted", id |-> id, row |-> row,
                     ceiling |-> req[r].ceiling]
      BY <2>2, <3>3 DEF DelegateInsert, TypeOK, Request
    <3>7. id \notin Committed' /\ \A s \in InFlight : req[s].id # id
      BY <2>2, <3>1 DEF DelegateInsert, Fresh, Committed
    <3>8. SlotOK(r)'
      <4>1. LinkOK(req[r].row)'
        BY <3>5, <3>6 DEF LinkOK
      <4>2. QED
        BY <3>1, <3>6, <3>7, <4>1 DEF SlotOK, InFlight
    <3>9. QED
      BY <3>1, <3>8, SlotsMove
  <2>3. ASSUME NEW r \in DelegateRequest, DelegateAudit(r) PROVE Links'
    <3>1. UNCHANGED grant
          /\ \A s \in Request \ {r} : req'[s] = req[s]
      BY <2>3 DEF DelegateAudit, db, TypeOK
    <3>2. r \in InFlight /\ req[r] \in InsertedState
      BY <2>3, RequestShapes DEF DelegateAudit, TypeOK, Request, InFlight
    <3>3. req'[r].pc = "granted" /\ req'[r].id = req[r].id
          /\ req'[r].row = req[r].row
      BY <2>3, <3>2 DEF DelegateAudit, TypeOK, Request, InsertedState
    <3>4. PICK row \in Row : row = req[r].row
      BY <3>2 DEF InsertedState
    <3>5. LinkOK(row)'
      BY <3>2, <3>4, LinkStays DEF Links
    <3>6. SlotOK(r)'
      <4>1. LinkOK(req[r].row)'
        BY <3>3, <3>4, <3>5 DEF LinkOK
      <4>2. req'[r].id \notin Committed'
        BY <3>1, <3>2, <3>3 DEF Links, Committed
      <4>3. \A s \in InFlight' : s # r => req'[s].id # req'[r].id
        BY <3>1, <3>2, <3>3 DEF Links, InFlight
      <4>4. QED
        BY <3>3, <4>1, <4>2, <4>3 DEF SlotOK
    <3>7. QED
      BY <3>1, <3>6, SlotsMove
  <2>4. ASSUME NEW r \in DelegateRequest, DelegateCommit(r) PROVE Links'
    BY <2>4, CommitKeepsLinks
  <2>5. ASSUME UNCHANGED grant, NEW r \in Request,
               \A s \in Request \ {r} : req'[s] = req[s],
               req'[r].pc \notin {"checked", "inserted", "granted"}
        PROVE  Links'
    <3>1. SlotOK(r)'
      BY <2>5 DEF SlotOK, InFlight
    <3>2. QED
      BY <2>5, <3>1, SlotsMove
  <2>6. ASSUME NEW r \in Request, DelegateRefuse(r) \/ Abort(r) PROVE Links'
    BY <2>5, <2>6 DEF DelegateRefuse, Abort, Idle, db, TypeOK
  <2>7. ASSUME NEW r \in RevokeRequest, NEW g \in GrantId, RevokeStart(r, g)
        PROVE  Links'
    BY <2>5, <2>7 DEF RevokeStart, db, TypeOK, Request
  <2>8. ASSUME NEW r \in RevokeRequest, RevokeDescend(r) PROVE Links'
    BY <2>5, <2>8 DEF RevokeDescend, db, TypeOK, Request
  <2>9. ASSUME NEW r \in RevokeRequest, RevokeCommit(r) PROVE Links'
    BY <2>5, <2>9 DEF RevokeCommit, Idle, db, TypeOK, Request
  <2>10. ASSUME NEW r \in RevokeRequest, NEW g \in GrantId,
                RevokeBlacklist(r, g)
         PROVE  Links'
    <3>1. req[r] \in RevokeState
      BY <2>10, RequestShapes DEF RevokeBlacklist, TypeOK, Request
    <3>2. req'[r].pc = "blacklist"
      BY <2>10, <3>1 DEF RevokeBlacklist, RevokeState, TypeOK, Request
    <3>3. QED
      BY <2>5, <2>10, <3>2 DEF RevokeBlacklist, db, TypeOK, Request
  <2>11. ASSUME NEW r \in RevokeRequest, RevokeAudit(r) PROVE Links'
    <3>1. req[r] \in RevokeState
      BY <2>11, RequestShapes DEF RevokeAudit, TypeOK, Request
    <3>2. req'[r].pc = "revoked"
      BY <2>11, <3>1 DEF RevokeAudit, RevokeState, TypeOK, Request
    <3>3. QED
      BY <2>5, <2>11, <3>2 DEF RevokeAudit, db, TypeOK, Request
  <2>12. ASSUME NEW r \in RevokeRequest, NEW g \in GrantId, RevokeLock(r, g)
         PROVE  Links'
    <3>1. req'[r].pc \in {"update", "blacklist"}
      BY <2>12, LockMoves
    <3>2. QED
      BY <2>5, <2>12, <3>1 DEF RevokeLock, db, TypeOK, Request
  <2>13. ASSUME NEW r \in RoleRequest,
                \/ \E a \in Operated, x \in Role : AssignRead(r, a, x)
                \/ AssignCommit(r)
         PROVE  Links'
    BY <2>5, <2>13 DEF AssignRead, AssignCommit, Idle, db, TypeOK, Request
  <2>14. CASE UNCHANGED <<grant, req>>
    BY <2>14, SlotsMove
  <2>15. QED
    BY <2>1, <2>2, <2>3, <2>4, <2>6, <2>7, <2>8, <2>9, <2>10, <2>11, <2>12,
       <2>13, <2>14
       DEF Next, vars, DelegateStep, RevokeStep, RoleStep, Environment,
           Expire, Disable, Enable, db, Request
<1>3. QED
  BY <1>1, <1>2, TypeCorrect, PTL DEF Spec, ChainInv

-----------------------------------------------------------------------------
(***************************************************************************)
(* The consequences of the invariant for whole chains.  Each takes the set *)
(* of grants that satisfy the claim, shows it closed under the parent      *)
(* pointers, and so finds the whole lineage in it.                         *)
(***************************************************************************)
LEMMA LinksShrinkScopes ==
    ASSUME ChainInv, NEW g \in Committed, NEW h \in Lineage(g)
    PROVE  h \in Committed /\ grant[g].scopes \subseteq grant[h].scopes
<1> DEFINE S == {x \in Committed : grant[g].scopes \subseteq grant[x].scopes}
<1>1. TypeOK /\ Links /\ g \in GrantId
  BY DEF ChainInv, Committed
<1>2. S \in SUBSET GrantId /\ g \in S
  BY DEF Committed
<1>3. ParentClosed(ParentOf, S)
  <2> SUFFICES ASSUME NEW x \in S, ParentOf[x] # None
               PROVE  ParentOf[x] \in S
    BY DEF ParentClosed
  <2>1. LinkOK(grant[x]) /\ ParentOf[x] = grant[x].parent_grant_id
    BY <1>1 DEF Links, ParentOf, Committed
  <2>2. QED
    BY <2>1 DEF LinkOK
<1>4. Lineage(g) \subseteq S
  BY <1>1, <1>2, <1>3, ParentOfType, LineageInClosed DEF Lineage
<1>5. QED
  BY <1>4

(***************************************************************************)
(* The lineage of a committed grant is the grant and the chain it was      *)
(* validated against, and is not in that chain itself.                     *)
(***************************************************************************)
LEMMA LineageOfCommitted ==
    ASSUME ChainInv, NEW g \in Committed
    PROVE  /\ Lineage(g) = {g} \cup Chain(grant[g].parent_grant_id)
           /\ g \notin Chain(grant[g].parent_grant_id)
           /\ Lineage(g) \subseteq Committed
<1>1. TypeOK /\ Links /\ g \in GrantId /\ LinkOK(grant[g])
  BY DEF ChainInv, Committed, Links
<1>2. ParentOf[g] = grant[g].parent_grant_id
  BY <1>1 DEF ParentOf, Committed
<1>3. Lineage(g) = {g} \cup Chain(grant[g].parent_grant_id)
  BY <1>1, <1>2, ParentOfType, LineageStep DEF Lineage, Chain
<1>4. g \notin Chain(grant[g].parent_grant_id)
  BY <1>1 DEF LinkOK, AllAgentIds
<1>5. Lineage(g) \subseteq Committed
  BY <1>1, CommittedClosed, ParentOfType, LineageInClosed DEF Lineage
<1>6. QED
  BY <1>3, <1>4, <1>5

(***************************************************************************)
(* Depth is the size of the lineage, hop by hop.                           *)
(***************************************************************************)
LEMMA LinksGiveChainShape == ChainInv => ChainShape
<1> SUFFICES ASSUME ChainInv, NEW g \in Committed
             PROVE  /\ Lineage(g) \subseteq Committed
                    /\ grant[g].delegation_depth = Cardinality(Lineage(g))
                    /\ grant[g].delegation_depth <= MaxDepth
                    /\ ParentOf[g] # None =>
                          grant[g].delegating_agent_id =
                              grant[ParentOf[g]].delegatee_agent_id
  BY DEF ChainShape
<1> DEFINE p == grant[g].parent_grant_id
<1>1. LinkOK(grant[g]) /\ grant[g] \in Row /\ ParentOf[g] = p
  BY DEF ChainInv, TypeOK, Links, Committed, ParentOf
<1>2. p \in GrantId \cup {None}
  BY <1>1 DEF Row
<1>3. IsFiniteSet(Chain(p)) /\ Cardinality(Chain(p)) \in Nat
  BY <1>2, ChainFinite
<1>4. Cardinality(Lineage(g)) = Cardinality(Chain(p)) + 1
  BY <1>3, LineageOfCommitted, FS_AddElement
<1>5. QED
  BY <1>1, <1>4, LineageOfCommitted DEF LinkOK

(***************************************************************************)
(* Each link keeps its delegatee apart from the agents before it.          *)
(***************************************************************************)
LEMMA LinksGiveNoAgentTwice == ChainInv => NoAgentTwice
<1> SUFFICES ASSUME ChainInv, NEW g \in Committed, NEW h \in Lineage(g)
             PROVE  /\ grant[h].delegating_agent_id #
                          grant[g].delegatee_agent_id
                    /\ h # g => grant[h].delegatee_agent_id #
                                   grant[g].delegatee_agent_id
  BY DEF NoAgentTwice
<1>1. LinkOK(grant[g])
  BY DEF ChainInv, Links
<1>2. CASE h = g
  BY <1>1, <1>2 DEF LinkOK
<1>3. CASE h \in Chain(grant[g].parent_grant_id)
  BY <1>1, <1>3 DEF LinkOK, AllAgentIds
<1>4. QED
  BY <1>2, <1>3, LineageOfCommitted

(***************************************************************************)
(* The stored depth of a grant is the true length of its chain and within  *)
(* MAX_DELEGATION_DEPTH, and the chain is unbroken.                        *)
(***************************************************************************)
THEOREM ChainShapeHolds == Spec => []ChainShape
BY ChainInvariance, LinksGiveChainShape, PTL

(***************************************************************************)
(* No delegation chain visits an agent twice.                              *)
(***************************************************************************)
THEOREM NoAgentTwiceHolds == Spec => []NoAgentTwice
BY ChainInvariance, LinksGiveNoAgentTwice, PTL

-----------------------------------------------------------------------------
(***************************************************************************)
(* Revocation.  A revoke request in flight owes a blacklist entry for      *)
(* every id it is going to deactivate, except the ones still on its list;  *)
(* and every id on its way down descends from its target.                  *)
(***************************************************************************)
RevokeOK(q) ==
    /\ q.pc \in {"descend", "update", "blacklist", "revoked"} =>
          \A g \in AllIds(q) : g \in Committed /\ q.target \in Lineage(g)
    /\ q.pc = "descend" => q.frontier \subseteq AllIds(q)
    /\ q.pc \in {"update", "blacklist", "revoked"} =>
          AllIds(q) \subseteq blacklist \cup expired \cup q.todo
    /\ q.pc = "revoked" => q.todo = {} /\ q.target \in revoked

Revocations ==
    /\ inactive \subseteq Committed
    /\ inactive \subseteq blacklist \cup expired
    /\ \A g \in inactive : Lineage(g) \cap revoked # {}
    /\ Committed \subseteq granted
    /\ \A r \in Request :
          /\ RevokeOK(req[r])
          /\ req[r].pc = "granted" => req[r].id \in granted

RevokeInv == ChainInv /\ Revocations

(***************************************************************************)
(* The blacklist, the expired tokens and the audit trail only grow.        *)
(***************************************************************************)
LEMMA RecordsGrow ==
    ASSUME [Next]_vars
    PROVE  /\ blacklist \subseteq blacklist'
           /\ expired \subseteq expired'
           /\ granted \subseteq granted'
           /\ revoked \subseteq revoked'
BY DEF Next, vars, DelegateStep, RevokeStep, RoleStep, Environment,
       DelegateCheck, DelegateInsert, DelegateRefuse, DelegateAudit,
       DelegateCommit, RevokeStart, RevokeDescend, RevokeLock,
       RevokeBlacklist, RevokeAudit, RevokeCommit, Abort, Expire, Disable,
       Enable, AssignRead, AssignCommit, db, trail

(***************************************************************************)
(* What a revocation has collected stays good when records grow.           *)
(***************************************************************************)
LEMMA RevokeStays ==
    ASSUME ChainInv, TypeOK', [Next]_vars, NEW q \in RequestState, RevokeOK(q)
    PROVE  RevokeOK(q)'
<1>1. \A g \in Committed : g \in Committed' /\ Lineage(g)' = Lineage(g)
  BY RowsStay, LineageStays DEF ChainInv
<1>2. QED
  BY <1>1, RecordsGrow DEF RevokeOK, AllIds

SlotRecorded(r) ==
    /\ RevokeOK(req[r])
    /\ req[r].pc = "granted" => req[r].id \in granted

(***************************************************************************)
(* The frame of the argument: what is left to show of a step is that the   *)
(* ids it deactivates are rejected and on record, that the row it commits  *)
(* is on record, and that the slot it moves is in order.                   *)
(***************************************************************************)
LEMMA RevocationsStep ==
    ASSUME RevokeInv, TypeOK', [Next]_vars,
           \A g \in inactive' \ inactive :
              /\ g \in Committed
              /\ g \in blacklist \cup expired
              /\ Lineage(g) \cap revoked # {},
           Committed' \ Committed \subseteq granted,
           \A s \in Request : req'[s] = req[s] \/ SlotRecorded(s)'
    PROVE  Revocations'
<1>1. ChainInv /\ Revocations /\ TypeOK /\ Links
  BY DEF RevokeInv, ChainInv
<1>2. \A g \in Committed : g \in Committed' /\ Lineage(g)' = Lineage(g)
  BY <1>1, RowsStay, LineageStays
<1>3. (inactive \subseteq Committed /\ inactive \subseteq blacklist \cup expired
         /\ Committed \subseteq granted)'
  BY <1>1, <1>2, RecordsGrow DEF Revocations
<1>4. (\A g \in inactive : Lineage(g) \cap revoked # {})'
  BY <1>1, <1>2, RecordsGrow DEF Revocations
<1>5. ASSUME NEW s \in Request, req'[s] = req[s] PROVE SlotRecorded(s)'
  <2>1. PICK q \in RequestState : q = req[s]
    BY <1>1 DEF TypeOK
  <2>2. RevokeOK(q)'
    BY <1>1, <2>1, RevokeStays DEF Revocations
  <2>3. QED
    BY <1>1, <1>5, <2>1, <2>2, RecordsGrow
       DEF SlotRecorded, RevokeOK, AllIds, Revocations
<1>6. QED
  BY <1>3, <1>4, <1>5 DEF Revocations, SlotRecorded

(***************************************************************************)
(* Revocations is an invariant.                                            *)
(***************************************************************************)
THEOREM RevokeInvariance == Spec => []RevokeInv
<1>1. Init => Revocations
  BY DEF Init, Revocations, Committed, RevokeOK, Idle
<1>2. ASSUME RevokeInv, ChainInv', [Next]_vars PROVE Revocations'
  <2> USE <1>2
  <2>1. ChainInv /\ Revocations /\ TypeOK /\ Links /\ TypeOK' /\ Links'
    BY DEF RevokeInv, ChainInv
  <2>2. ASSUME UNCHANGED <<grant, inactive>>, NEW r \in Request,
               \A s \in Request \ {r} : req'[s] = req[s], SlotRecorded(r)'
        PROVE  Revocations'
    BY <2>1, <2>2, RevocationsStep DEF Committed
  <2>3. ASSUME UNCHANGED <<grant, inactive>>, NEW r \in Request,
               \A s \in Request \ {r} : req'[s] = req[s],
               req'[r].pc \in {"idle", "checked", "inserted", "merge"}
        PROVE  Revocations'
    <3>1. SlotRecorded(r)'
      BY <2>3 DEF SlotRecorded, RevokeOK
    <3>2. QED
      BY <2>2, <2>3, <3>1
  <2>4. ASSUME NEW r \in DelegateRequest,
               \/ \E t \in BearerTokens, a \in Agent, S \in ScopeSet :
                     DelegateCheck(r, t, a, S)
               \/ \E id \in GrantId : DelegateInsert(r, id)
        PROVE  Revocations'
    BY <2>1, <2>3, <2>4
       DEF DelegateCheck, DelegateInsert, db, TypeOK, Request
  <2>5. ASSUME NEW r \in Request, DelegateRefuse(r) \/ Abort(r)
        PROVE  Revocations'
    BY <2>1, <2>3, <2>5 DEF DelegateRefuse, Abort, Idle, db, TypeOK
  <2>6. ASSUME NEW r \in DelegateRequest, DelegateAudit(r)
        PROVE  Revocations'
    <3>1. r \in Request /\ req[r] \in InsertedState
      BY <2>1, <2>6, RequestShapes DEF DelegateAudit, TypeOK, Request
    <3>2. req'[r].pc = "granted" /\ req'[r].id \in granted'
      BY <2>1, <2>6, <3>1 DEF DelegateAudit, InsertedState, TypeOK
    <3>3. SlotRecorded(r)'
      BY <3>2 DEF SlotRecorded, RevokeOK
    <3>4. QED
      BY <2>1, <2>2, <2>6, <3>1, <3>3 DEF DelegateAudit, db, TypeOK
  <2>7. ASSUME NEW r \in DelegateRequest, DelegateCommit(r)
        PROVE  Revocations'
    <3>1. r \in Request /\ req[r].id \in granted /\ req'[r] = Idle
          /\ \A s \in Request \ {r} : req'[s] = req[s]
      BY <2>1, <2>7 DEF DelegateCommit, TypeOK, Request, Revocations
    <3>2. SlotRecorded(r)'
      BY <3>1 DEF SlotRecorded, RevokeOK, Idle
    <3>3. Committed' \ Committed \subseteq granted /\ inactive' = inactive
      BY <2>1, <2>7, <3>1 DEF DelegateCommit, Committed, TypeOK
    <3>4. QED
      BY <2>1, <3>1, <3>2, <3>3, RevocationsStep
  <2>8. ASSUME NEW r \in RevokeRequest, NEW g \in GrantId, RevokeStart(r, g)
        PROVE  Revocations'
    <3>1. r \in Request /\ UNCHANGED <<grant, inactive>>
          /\ \A s \in Request \ {r} : req'[s] = req[s]
      BY <2>1, <2>8 DEF RevokeStart, db, TypeOK, Request
    <3>2. req'[r] = [pc |-> "descend", target |-> g, found |-> {},
                     frontier |-> {g}]
      BY <2>1, <2>8, <3>1 DEF RevokeStart, TypeOK
    <3>3. g \in Committed' /\ g \in Lineage(g)'
      <4>1. g \in Committed /\ g \in Lineage(g)
        BY <2>1, <2>8, ParentOfType, LineageSelf DEF RevokeStart, Lineage
      <4>2. QED
        BY <2>1, <4>1, RowsStay, LineageStays
    <3>4. SlotRecorded(r)'
      BY <3>2, <3>3 DEF SlotRecorded, RevokeOK, AllIds
    <3>5. QED
      BY <2>2, <3>1, <3>4
  <2>9. ASSUME NEW r \in RevokeRequest, RevokeDescend(r) PROVE Revocations'
    <3> DEFINE t == req[r].target
               c == Children(req[r].frontier)
    <3>1. r \in Request /\ UNCHANGED <<grant, inactive>>
          /\ \A s \in Request \ {r} : req'[s] = req[s]
      BY <2>1, <2>9 DEF RevokeDescend, db, TypeOK, Request
    <3>2. req[r].pc = "descend" /\ RevokeOK(req[r])
      BY <2>1, <2>9, <3>1 DEF RevokeDescend, Revocations
    <3>3. \A x \in AllIds(req[r]) : x \in Committed /\ t \in Lineage(x)
      BY <3>2 DEF RevokeOK
    <3>4. \A x \in c : x \in Committed /\ t \in Lineage(x)
      <4> SUFFICES ASSUME NEW x \in c PROVE x \in Committed /\ t \in Lineage(x)
        OBVIOUS
      <4>1. x \in Committed /\ ParentOf[x] \in req[r].frontier
        BY DEF Children
      <4>2. ParentOf[x] \in Committed /\ t \in Lineage(ParentOf[x])
        BY <3>2, <3>3, <4>1 DEF RevokeOK
      <4>3. x \in GrantId /\ ParentOf[x] # None
        BY <4>1, <4>2, ConstantsAssumption DEF Committed
      <4>4. QED
        BY <2>1, <4>1, <4>2, <4>3, ParentOfType, LineageStep DEF Lineage
    <3>5. \A x \in AllIds(req[r]) \cup c :
             x \in Committed' /\ t \in Lineage(x)'
      BY <2>1, <3>3, <3>4, RowsStay, LineageStays
    <3>6. req'[r] = IF c = {}
                    THEN [pc |-> "update", target |-> t,
                          found |-> req[r].found, locked |-> {},
                          todo |-> JtisToRevoke(t, req[r].found)]
                    ELSE [pc |-> "descend", target |-> t,
                          found |-> req[r].found \cup c, frontier |-> c]
      BY <2>1, <2>9, <3>1 DEF RevokeDescend, TypeOK
    <3> HIDE DEF c
    <3>7. SlotRecorded(r)'
      <4>1. CASE c = {}
        <5>1. expired' = expired
          BY <2>9 DEF RevokeDescend
        <5>2. QED
          BY <3>5, <3>6, <4>1, <5>1
             DEF SlotRecorded, RevokeOK, AllIds, JtisToRevoke
      <4>2. CASE c # {}
        BY <3>5, <3>6, <4>2 DEF SlotRecorded, RevokeOK, AllIds
      <4>3. QED
        BY <4>1, <4>2
    <3>8. QED
      BY <2>2, <3>1, <3>7
  <2>10. ASSUME NEW r \in RevokeRequest, NEW g \in GrantId, RevokeLock(r, g)
         PROVE  Revocations'
    <3>1. r \in Request /\ UNCHANGED <<grant, inactive, expired, blacklist>>
          /\ \A s \in Request \ {r} : req'[s] = req[s]
      BY <2>1, <2>10, LockMoves DEF RevokeLock, db
    <3>2. PICK q \in RequestState : q = req[r]
      BY <2>1, <3>1 DEF TypeOK
    <3>3. q.pc = "update" /\ RevokeOK(q)
      BY <2>1, <2>10, <3>1, <3>2, LockMoves DEF Revocations
    <3>4. RevokeOK(q)'
      BY <2>1, <3>3, RevokeStays
    <3>5. /\ req'[r].pc \in {"update", "blacklist"}
          /\ req'[r].target = q.target /\ req'[r].found = q.found
          /\ req'[r].todo = q.todo
      BY <2>1, <2>10, <3>2, LockMoves
    <3>6. SlotRecorded(r)'
      BY <3>3, <3>4, <3>5 DEF SlotRecorded, RevokeOK, AllIds
    <3>7. QED
      BY <2>2, <3>1, <3>6
  <2>11. ASSUME NEW r \in RevokeRequest, NEW g \in GrantId,
                RevokeBlacklist(r, g)
         PROVE  Revocations'
    <3>1. r \in Request /\ UNCHANGED <<grant, inactive, expired>>
          /\ \A s \in Request \ {r} : req'[s] = req[s]
      BY <2>1, <2>11 DEF RevokeBlacklist, db, TypeOK, Request
    <3>2. PICK q \in RevokeState : q = req[r]
      BY <2>1, <2>11, <3>1, RequestShapes DEF RevokeBlacklist, TypeOK
    <3>3. q.pc = "blacklist" /\ q \in RequestState /\ RevokeOK(q)
      BY <2>1, <2>11, <3>1, <3>2, ShapesAreRequests
         DEF RevokeBlacklist, Revocations
    <3>4. RevokeOK(q)'
      BY <2>1, <3>3, RevokeStays
    <3>5. /\ req'[r].pc = "blacklist" /\ req'[r].target = q.target
          /\ req'[r].found = q.found /\ req'[r].todo = q.todo \ {g}
          /\ blacklist' = blacklist \cup {g}
      BY <2>1, <2>11, <3>1, <3>2, <3>3
         DEF RevokeBlacklist, RevokeState, TypeOK
    <3>6. SlotRecorded(r)'
      BY <3>3, <3>4, <3>5 DEF SlotRecorded, RevokeOK, AllIds
    <3>7. QED
      BY <2>2, <3>1, <3>6
  <2>12. ASSUME NEW r \in RevokeRequest, RevokeAudit(r) PROVE Revocations'
    <3>1. r \in Request /\ UNCHANGED <<grant, inactive>>
          /\ \A s \in Request \ {r} : req'[s] = req[s]
      BY <2>1, <2>12 DEF RevokeAudit, db, TypeOK, Request
    <3>2. PICK q \in RevokeState : q = req[r]
      BY <2>1, <2>12, <3>1, RequestShapes DEF RevokeAudit, TypeOK
    <3>3. q.pc = "blacklist" /\ q \in RequestState /\ RevokeOK(q)
          /\ q.todo = {}
      BY <2>1, <2>12, <3>1, <3>2, ShapesAreRequests
         DEF RevokeAudit, Revocations
    <3>4. RevokeOK(q)'
      BY <2>1, <3>3, RevokeStays
    <3>5. /\ req'[r].pc = "revoked" /\ req'[r].target = q.target
          /\ req'[r].found = q.found /\ req'[r].todo = q.todo
          /\ revoked' = revoked \cup {q.target}
      BY <2>1, <2>12, <3>1, <3>2, <3>3 DEF RevokeAudit, RevokeState, TypeOK
    <3>6. SlotRecorded(r)'
      BY <3>3, <3>4, <3>5 DEF SlotRecorded, RevokeOK, AllIds
    <3>7. QED
      BY <2>2, <3>1, <3>6
  <2>13. ASSUME NEW r \in RevokeRequest, RevokeCommit(r) PROVE Revocations'
    <3>1. r \in Request /\ UNCHANGED grant /\ req'[r] = Idle
          /\ inactive' = inactive \cup AllIds(req[r])
          /\ \A s \in Request \ {r} : req'[s] = req[s]
      BY <2>1, <2>13 DEF RevokeCommit, TypeOK, Request
    <3>2. req[r].pc = "revoked" /\ RevokeOK(req[r])
      BY <2>1, <2>13, <3>1 DEF RevokeCommit, Revocations
    <3>3. \A g \in AllIds(req[r]) :
             /\ g \in Committed
             /\ g \in blacklist \cup expired
             /\ Lineage(g) \cap revoked # {}
      BY <3>2 DEF RevokeOK
    <3>4. SlotRecorded(r)'
      BY <3>1 DEF SlotRecorded, RevokeOK, Idle
    <3>5. Committed' = Committed
      BY <3>1 DEF Committed
    <3>6. QED
      BY <2>1, <3>1, <3>3, <3>4, <3>5, RevocationsStep
  <2>14. ASSUME NEW r \in RoleRequest,
                \/ \E a \in Operated, x \in Role : AssignRead(r, a, x)
                \/ AssignCommit(r)
         PROVE  Revocations'
    BY <2>1, <2>3, <2>14
       DEF AssignRead, AssignCommit, Idle, db, TypeOK, Request
  <2>15. CASE UNCHANGED <<grant, inactive, req>>
    BY <2>1, <2>15, RevocationsStep DEF Committed
  <2>16. QED
    BY <2>4, <2>5, <2>6, <2>7, <2>8, <2>9, <2>10, <2>11, <2>12, <2>13, <2>14,
       <2>15
       DEF Next, vars, DelegateStep, RevokeStep, RoleStep, Environment,
           Expire, Disable, Enable, db, Request
<1>3. QED
  BY <1>1, <1>2, ChainInvariance, PTL DEF RevokeInv, Spec

(***************************************************************************)
(* A committed revocation is effective: no token of an inactive grant      *)
(* passes the middleware, whatever failed in between.                      *)
(***************************************************************************)
THEOREM RevokedIsRejectedHolds == Spec => []RevokedIsRejected
<1>1. RevokeInv => RevokedIsRejected
  BY DEF RevokeInv, Revocations, RevokedIsRejected, Accepted
<1>2. QED
  BY <1>1, RevokeInvariance, PTL

(***************************************************************************)
(* Every committed grant and every revocation is on the audit trail.       *)
(***************************************************************************)
THEOREM AuditedHolds == Spec => []Audited
<1>1. RevokeInv => Audited
  BY DEF RevokeInv, Revocations, Audited
<1>2. QED
  BY <1>1, RevokeInvariance, PTL

(***************************************************************************)
(* A row in flight was in flight before, or has just been inserted.        *)
(***************************************************************************)
LEMMA WhereRowsComeFrom ==
    ASSUME TypeOK, [Next]_vars, NEW r \in InFlight'
    PROVE  \/ /\ r \in InFlight
              /\ req'[r].id = req[r].id
              /\ req'[r].row = req[r].row
              /\ req'[r].ceiling = req[r].ceiling
           \/ \E id \in GrantId : DelegateInsert(r, id)
<1> DEFINE same == /\ r \in InFlight
                   /\ req'[r].id = req[r].id
                   /\ req'[r].row = req[r].row
                   /\ req'[r].ceiling = req[r].ceiling
<1>1. r \in Request /\ req'[r].pc \in {"inserted", "granted"}
  BY DEF InFlight
<1>2. ASSUME req'[r] = req[r] PROVE same
  BY <1>1, <1>2 DEF InFlight
<1>3. ASSUME NEW s \in Request, NEW v, v.pc \notin {"inserted", "granted"},
             req' = [req EXCEPT ![s] = v]
      PROVE  same
  BY <1>1, <1>3 DEF InFlight, TypeOK
<1>4. ASSUME NEW s \in DelegateRequest,
             \/ \E t \in BearerTokens, a \in Agent, S \in ScopeSet :
                   DelegateCheck(s, t, a, S)
             \/ DelegateRefuse(s)
             \/ DelegateCommit(s)
      PROVE  same
  BY <1>3, <1>4 DEF DelegateCheck, DelegateRefuse, DelegateCommit, Idle,
                    Request
<1>5. ASSUME NEW s \in DelegateRequest, NEW id \in GrantId,
             DelegateInsert(s, id)
      PROVE  same \/ DelegateInsert(r, id)
  <2>1. CASE s = r
    BY <1>5, <2>1
  <2>2. CASE s # r
    <3>1. req'[r] = req[r]
      BY <1>1, <1>5, <2>2 DEF DelegateInsert, TypeOK
    <3>2. QED
      BY <1>2, <3>1
  <2>3. QED
    BY <2>1, <2>2
<1>6. ASSUME NEW s \in DelegateRequest, DelegateAudit(s) PROVE same
  <2>1. req[s] \in InsertedState /\ s \in Request
    BY <1>6, RequestShapes DEF DelegateAudit, TypeOK, Request
  <2>2. CASE s = r
    BY <1>1, <1>6, <2>1, <2>2 DEF DelegateAudit, InFlight, TypeOK,
                                   InsertedState
  <2>3. CASE s # r
    <3>1. req'[r] = req[r]
      BY <1>1, <1>6, <2>3 DEF DelegateAudit, TypeOK
    <3>2. QED
      BY <1>2, <3>1
  <2>4. QED
    BY <2>2, <2>3
<1>7. ASSUME NEW s \in RevokeRequest,
             \/ \E g \in GrantId : RevokeStart(s, g)
             \/ RevokeCommit(s)
      PROVE  same
  BY <1>3, <1>7 DEF RevokeStart, RevokeCommit, Idle, Request
<1>8. ASSUME NEW s \in RevokeRequest, RevokeDescend(s) PROVE same
  BY <1>3, <1>8 DEF RevokeDescend, Request
<1>9. ASSUME NEW s \in RevokeRequest,
             RevokeAudit(s) \/ \E g \in GrantId : RevokeBlacklist(s, g)
      PROVE  same
  <2>1. req[s] \in RevokeState /\ s \in Request
    BY <1>9, RequestShapes DEF RevokeAudit, RevokeBlacklist, TypeOK, Request
  <2>2. req'[s].pc \in {"blacklist", "revoked"}
    BY <1>9, <2>1 DEF RevokeAudit, RevokeBlacklist, RevokeState, TypeOK
  <2>3. s # r
    BY <1>1, <2>2
  <2>4. req'[r] = req[r]
    BY <1>1, <1>9, <2>3 DEF RevokeAudit, RevokeBlacklist, TypeOK
  <2>5. QED
    BY <1>2, <2>4
<1>10. ASSUME NEW s \in Request, Abort(s) PROVE same
  BY <1>3, <1>10 DEF Abort, Idle
<1>11. ASSUME UNCHANGED req PROVE same
  BY <1>2, <1>11
<1>12. ASSUME NEW s \in RevokeRequest, NEW g \in GrantId, RevokeLock(s, g)
       PROVE  same
  <2>1. s # r /\ req'[r] = req[r]
    BY <1>1, <1>12, LockMoves
  <2>2. QED
    BY <1>2, <2>1
<1>13. ASSUME NEW s \in RoleRequest,
              \/ \E a \in Operated, x \in Role : AssignRead(s, a, x)
              \/ AssignCommit(s)
       PROVE  same
  BY <1>3, <1>13 DEF AssignRead, AssignCommit, Idle, Request
<1> HIDE DEF same
<1>14. same \/ \E id \in GrantId : DelegateInsert(r, id)
  BY <1>4, <1>5, <1>6, <1>7, <1>8, <1>9, <1>10, <1>11, <1>12, <1>13
     DEF Next, vars, DelegateStep, RevokeStep, RoleStep, Environment, Expire,
         Disable, Enable
<1>15. QED
  BY <1>14 DEF same

(***************************************************************************)
(* A row committed by a step was in flight before it.                      *)
(***************************************************************************)
LEMMA WhereGrantsComeFrom ==
    ASSUME TypeOK, Links, [Next]_vars, NEW g \in Committed', g \notin Committed
    PROVE  \E r \in InFlight : /\ req[r].id = g
                              /\ grant'[g] = req[r].row
                              /\ ceiling'[g] = req[r].ceiling
                              /\ DelegateCommit(r)
<1>1. ASSUME NEW r \in DelegateRequest, DelegateCommit(r)
      PROVE  /\ r \in InFlight
             /\ req[r].id = g
             /\ grant'[g] = req[r].row
             /\ ceiling'[g] = req[r].ceiling
  <2>1. r \in InFlight
    BY <1>1 DEF DelegateCommit, InFlight, Request
  <2>2. g = req[r].id
    BY <1>1 DEF DelegateCommit, Committed, TypeOK
  <2>3. QED
    BY <1>1, <2>1, <2>2 DEF DelegateCommit, Committed, TypeOK
<1>2. CASE UNCHANGED grant
  BY <1>2 DEF Committed
<1>3. QED
  BY <1>1, <1>2
     DEF Next, vars, DelegateStep, RevokeStep, RoleStep, Environment,
         DelegateCheck, DelegateInsert, DelegateRefuse, DelegateAudit,
         RevokeStart, RevokeDescend, RevokeLock, RevokeBlacklist, RevokeAudit,
         RevokeCommit, Abort, Expire, Disable, Enable, AssignRead,
         AssignCommit, db

(***************************************************************************)
(* The window of the race is closed by _load_chain: once a revocation has  *)
(* committed, no request that loads its chain afterwards gets a grant      *)
(* below it.                                                               *)
(***************************************************************************)
THEOREM NoNewGrantHolds == Spec => NoNewGrantUnderRevoked
<1>1. ASSUME RevokeInv, RevokeInv', [Next]_vars, inactive' = inactive,
             NEW g \in Doomed'
      PROVE  g \in Doomed
  <2> USE <1>1
  <2>1. TypeOK /\ TypeOK' /\ Links /\ Links' /\ Revocations
    BY DEF RevokeInv, ChainInv
  <2>2. ASSUME NEW p \in GrantId \cup {None}, p # None => p \in Committed
        PROVE  Chain(p)' = Chain(p)
    BY <2>1, <2>2, LineageStays DEF Chain
  <2>3. ASSUME NEW r \in InFlight, req[r].id = g,
               Chain(req[r].row.parent_grant_id) \cap inactive # {}
        PROVE  g \in Doomed
    BY <2>3 DEF Doomed
  <2>4. ASSUME g \in Committed', (Lineage(g) \cap inactive # {})'
        PROVE  g \in Doomed
    <3>1. CASE g \in Committed
      BY <2>1, <2>4, <3>1, LineageStays DEF Doomed
    <3>2. CASE g \notin Committed
      <4>1. PICK r \in InFlight : req[r].id = g /\ grant'[g] = req[r].row
        BY <2>1, <2>4, <3>2, WhereGrantsComeFrom
      <4>2. PICK p \in GrantId \cup {None} :
               p = req[r].row.parent_grant_id /\ (p # None => p \in Committed)
        BY <2>1, <4>1, RequestShapes
           DEF Links, LinkOK, InFlight, InsertedState, TypeOK, Row
      <4>3. g \in GrantId /\ ParentOf' \in Pointers /\ ParentOf'[g] = p
        BY <2>1, <2>4, <4>1, <4>2 DEF Committed, ParentOf, TypeOK, Pointers, Row
      <4>4. Lineage(g)' = {g} \cup Chain(p)'
        BY <4>3, LineageStep DEF Lineage, Chain
      <4>5. Chain(p)' = Chain(p)
        BY <2>2, <4>2
      <4>6. g \notin inactive
        BY <2>1, <3>2 DEF Revocations
      <4>7. QED
        BY <2>3, <2>4, <4>1, <4>2, <4>4, <4>5, <4>6
    <3>3. QED
      BY <3>1, <3>2
  <2>5. ASSUME NEW r \in InFlight', g = req'[r].id,
               (Chain(req[r].row.parent_grant_id) \cap inactive # {})'
        PROVE  g \in Doomed
    <3>1. CASE /\ r \in InFlight
               /\ req'[r].id = req[r].id
               /\ req'[r].row = req[r].row
      <4>1. req[r].row \in Row /\ LinkOK(req[r].row)
        BY <2>1, <3>1, RequestShapes
           DEF Links, InFlight, InsertedState, TypeOK
      <4>2. PICK p \in GrantId \cup {None} :
               p = req[r].row.parent_grant_id /\ (p # None => p \in Committed)
        BY <4>1 DEF Row, LinkOK
      <4>3. Chain(p)' = Chain(p)
        BY <2>2, <4>2
      <4>4. Chain(p)' \cap inactive' # {}
        BY <2>5, <3>1, <4>2
      <4>5. QED
        BY <2>3, <2>5, <3>1, <4>2, <4>3, <4>4
    <3>2. CASE \E id \in GrantId : DelegateInsert(r, id)
      <4>1. r \in Request /\ req[r] \in CheckedState
            /\ req'[r].row = NewRow(req[r]) /\ TokenOK(req[r])
            /\ ChecksPass(req[r])
        BY <2>1, <2>5, <3>2, RequestShapes
           DEF DelegateInsert, InFlight, TypeOK, Links
      <4>2. PICK p \in GrantId \cup {None} :
               /\ p = req[r].token.grant
               /\ p # None => p \in Committed
        BY <4>1 DEF CheckedState, Token, TokenOK
      <4>3. req'[r].row.parent_grant_id = p
        BY <4>1, <4>2 DEF NewRow
      <4>4. Chain(p)' = Chain(p)
        BY <2>2, <4>2
      <4>5. Chain(p) \cap inactive = {}
        BY <4>1, <4>2 DEF ChecksPass, ChainIsActive
      <4>6. QED
        BY <2>5, <4>3, <4>4, <4>5
    <3>3. QED
      BY <2>1, <3>1, <3>2, WhereRowsComeFrom
  <2>6. QED
    BY <2>4, <2>5 DEF Doomed
<1>2. RevokeInv /\ RevokeInv' /\ [Next]_vars
         => [inactive' = inactive => Doomed' \subseteq Doomed]_vars
  BY <1>1
<1>3. QED
  BY <1>2, RevokeInvariance, PTL DEF NoNewGrantUnderRevoked, Spec

-----------------------------------------------------------------------------
(***************************************************************************)
(* What a grant carries was within its delegator's allowed_scopes as       *)
(* delegate() read them; for a request in flight, as recorded with it.     *)
(***************************************************************************)
CeilingOK ==
    /\ \A g \in Committed : grant[g].scopes \subseteq ceiling[g]
    /\ \A r \in InFlight : req[r].row.scopes \subseteq req[r].ceiling

(***************************************************************************)
(* Scope attenuation holds along every chain of grants, however delegate,  *)
(* revoke and role assignment requests overlap and fail: no grant has a    *)
(* scope one of its ancestors lacks, or one that some agent on its chain   *)
(* was not allowed when it delegated.  No assumption is made on what       *)
(* allowed_scopes is now.                                                  *)
(***************************************************************************)
THEOREM AttenuationHolds == Spec => []Attenuation
<1>1. Init => CeilingOK
  BY DEF Init, CeilingOK, Committed, InFlight, Idle
<1>2. ASSUME ChainInv, ChainInv', CeilingOK, [Next]_vars PROVE CeilingOK'
  <2> USE <1>2
  <2>1. TypeOK /\ Links
    BY DEF ChainInv
  <2>2. ASSUME NEW g \in Committed' PROVE grant'[g].scopes \subseteq ceiling'[g]
    <3>1. CASE g \in Committed
      BY <2>1, <3>1, RowsStay DEF CeilingOK
    <3>2. CASE g \notin Committed
      BY <2>1, <3>2, WhereGrantsComeFrom DEF CeilingOK
    <3>3. QED
      BY <3>1, <3>2
  <2>3. ASSUME NEW r \in InFlight'
        PROVE  req'[r].row.scopes \subseteq req'[r].ceiling
    <3>1. CASE /\ r \in InFlight
               /\ req'[r].row = req[r].row
               /\ req'[r].ceiling = req[r].ceiling
      BY <3>1 DEF CeilingOK
    <3>2. ASSUME NEW id \in GrantId, DelegateInsert(r, id)
          PROVE  req'[r].row.scopes \subseteq req'[r].ceiling
      <4>1. /\ req'[r].row = NewRow(req[r])
            /\ req'[r].ceiling = req[r].ceiling
            /\ ChecksPass(req[r])
        BY <2>1, <3>2 DEF DelegateInsert, InFlight, TypeOK
      <4>2. QED
        BY <4>1 DEF NewRow, ChecksPass, Validate, Held
    <3>3. QED
      BY <2>1, <3>1, <3>2, WhereRowsComeFrom
  <2>4. QED
    BY <2>2, <2>3 DEF CeilingOK
<1>3. ChainInv /\ CeilingOK => Attenuation
  BY LinksShrinkScopes DEF Attenuation, CeilingOK
<1>4. QED
  BY <1>1, <1>2, <1>3, ChainInvariance, PTL DEF Spec

-----------------------------------------------------------------------------
(***************************************************************************)
(* A request that is past its check was there before, or its delegatee was *)
(* found ACTIVE by this very step.                                         *)
(***************************************************************************)
LEMMA WhereChecksComeFrom ==
    ASSUME TypeOK, [Next]_vars, NEW r \in Request, req'[r].pc = "checked"
    PROVE  req'[r] = req[r] \/ req'[r].delegatee \in active
<1> DEFINE good == req'[r] = req[r] \/ req'[r].delegatee \in active
<1>1. ASSUME NEW s \in Request, NEW v, v.pc # "checked",
             req' = [req EXCEPT ![s] = v]
      PROVE  good
  BY <1>1 DEF TypeOK
<1>2. ASSUME NEW s \in DelegateRequest, NEW t \in BearerTokens,
             NEW a \in Agent, NEW S \in ScopeSet, DelegateCheck(s, t, a, S)
      PROVE  good
  BY <1>2 DEF DelegateCheck, TypeOK, Request
<1>3. ASSUME NEW s \in DelegateRequest,
             \/ \E id \in GrantId : DelegateInsert(s, id)
             \/ DelegateRefuse(s)
             \/ DelegateCommit(s)
      PROVE  good
  BY <1>1, <1>3 DEF DelegateInsert, DelegateRefuse, DelegateCommit, Idle,
                    Request
<1>4. ASSUME NEW s \in DelegateRequest, DelegateAudit(s) PROVE good
  <2>1. s \in Request /\ req[s] \in InsertedState
    BY <1>4, RequestShapes DEF DelegateAudit, TypeOK, Request
  <2>2. req'[s].pc = "granted" /\ \A x \in Request \ {s} : req'[x] = req[x]
    BY <1>4, <2>1 DEF DelegateAudit, InsertedState, TypeOK
  <2>3. QED
    BY <2>2
<1>5. ASSUME NEW s \in RevokeRequest,
             \/ \E g \in GrantId : RevokeStart(s, g)
             \/ RevokeDescend(s)
             \/ RevokeCommit(s)
      PROVE  good
  BY <1>1, <1>5 DEF RevokeStart, RevokeDescend, RevokeCommit, Idle, Request
<1>6. ASSUME NEW s \in RevokeRequest, NEW g \in GrantId, RevokeLock(s, g)
      PROVE  good
  BY <1>6, LockMoves
<1>7. ASSUME NEW s \in RevokeRequest,
             RevokeAudit(s) \/ \E g \in GrantId : RevokeBlacklist(s, g)
      PROVE  good
  <2>1. req[s] \in RevokeState /\ s \in Request
    BY <1>7, RequestShapes DEF RevokeAudit, RevokeBlacklist, TypeOK, Request
  <2>2. req'[s].pc \in {"blacklist", "revoked"}
        /\ \A x \in Request \ {s} : req'[x] = req[x]
    BY <1>7, <2>1 DEF RevokeAudit, RevokeBlacklist, RevokeState, TypeOK
  <2>3. QED
    BY <2>2
<1>8. ASSUME NEW s \in RoleRequest,
             \/ \E a \in Operated, x \in Role : AssignRead(s, a, x)
             \/ AssignCommit(s)
      PROVE  good
  BY <1>1, <1>8 DEF AssignRead, AssignCommit, Idle, Request
<1>9. ASSUME NEW s \in Request, Abort(s) PROVE good
  BY <1>1, <1>9 DEF Abort, Idle
<1>10. ASSUME UNCHANGED req PROVE good
  BY <1>10
<1> HIDE DEF good
<1>11. ASSUME NEW s \in DelegateRequest, DelegateStep(s) PROVE good
  BY <1>2, <1>3, <1>4, <1>11 DEF DelegateStep
<1>12. ASSUME NEW s \in RevokeRequest,
              (\E g \in GrantId : RevokeStart(s, g)) \/ RevokeStep(s)
       PROVE  good
  BY <1>5, <1>6, <1>7, <1>12 DEF RevokeStep
<1>13. ASSUME Environment \/ UNCHANGED vars PROVE good
  BY <1>10, <1>13 DEF Environment, Expire, Disable, Enable, vars
<1>14. good
  BY <1>8, <1>9, <1>11, <1>12, <1>13 DEF Next, RoleStep
<1>15. QED
  BY <1>14 DEF good

(***************************************************************************)
(* Trading one element for one outside never makes two finite sets larger  *)
(* together.                                                               *)
(***************************************************************************)
LEMMA Traded ==
    ASSUME NEW U, IsFiniteSet(U), NEW V, IsFiniteSet(V), NEW x \in U, NEW y,
           NEW U1, U1 \subseteq U \ {x}, NEW V1, V1 \subseteq V \cup {y}
    PROVE  Cardinality(U1) + Cardinality(V1) <= Cardinality(U) + Cardinality(V)
<1>1. /\ IsFiniteSet(U \ {x}) /\ Cardinality(U \ {x}) = Cardinality(U) - 1
      /\ Cardinality(U) \in Nat /\ Cardinality(U \ {x}) \in Nat
  BY FS_RemoveElement, FS_CardinalityType
<1>2. /\ IsFiniteSet(V \cup {y}) /\ Cardinality(V \cup {y}) \in Nat
      /\ Cardinality(V) \in Nat
      /\ \/ Cardinality(V \cup {y}) = Cardinality(V)
         \/ Cardinality(V \cup {y}) = Cardinality(V) + 1
  BY FS_AddElement, FS_CardinalityType
<1>3. /\ Cardinality(U1) \in Nat
      /\ Cardinality(U1) <= Cardinality(U \ {x})
  BY <1>1, FS_Subset, FS_CardinalityType
<1>4. /\ Cardinality(V1) \in Nat
      /\ Cardinality(V1) <= Cardinality(V \cup {y})
  BY <1>2, FS_Subset, FS_CardinalityType
<1>5. QED
  BY <1>1, <1>2, <1>3, <1>4

(***************************************************************************)
(* An agent that is not ACTIVE does not gain by delegations: one more      *)
(* usable token is one less delegation under way.                          *)
(***************************************************************************)
THEOREM DisabledGainsNothingHolds == Spec => DisabledGainsNothing
<1>1. ASSUME ChainInv, ChainInv', [Next]_vars, NEW a \in Agent \ active
      PROVE  Cardinality(Underway(a))' + Cardinality(Usable(a))'
                <= Cardinality(Underway(a)) + Cardinality(Usable(a))
  <2> USE <1>1
  <2>1. TypeOK /\ Links /\ TypeOK' /\ Links'
    BY DEF ChainInv
  <2>2. /\ Underway(a) \in SUBSET Request /\ IsFiniteSet(Underway(a))
        /\ Usable(a) \in SUBSET GrantId /\ IsFiniteSet(Usable(a))
    <3>1. Underway(a) \in SUBSET Request /\ Usable(a) \in SUBSET GrantId
      BY DEF Underway, Usable, InFlight
    <3>2. QED
      BY <3>1, ConstantsAssumption, FS_Subset
  <2>3. Underway(a)' \subseteq Underway(a)
    <3> SUFFICES ASSUME NEW r \in Underway(a)' PROVE r \in Underway(a)
      OBVIOUS
    <3>1. CASE req'[r].pc = "checked" /\ req'[r].delegatee = a
      <4>1. r \in Request /\ req'[r] = req[r]
        BY <2>1, <3>1, WhereChecksComeFrom DEF Underway, InFlight
      <4>2. QED
        BY <3>1, <4>1 DEF Underway
    <3>2. CASE /\ r \in InFlight'
               /\ req'[r].row.delegatee_agent_id = a
               /\ req'[r].id \notin blacklist'
      <4>1. CASE /\ r \in InFlight
                 /\ req'[r].id = req[r].id
                 /\ req'[r].row = req[r].row
        BY <3>2, <4>1, RecordsGrow DEF Underway
      <4>2. ASSUME NEW id \in GrantId, DelegateInsert(r, id)
            PROVE  r \in Underway(a)
        <5>1. r \in Request /\ req'[r].row = NewRow(req[r])
              /\ req[r].pc = "checked"
          BY <2>1, <3>2, <4>2 DEF DelegateInsert, InFlight, TypeOK
        <5>2. req[r].delegatee = a
          BY <3>2, <5>1 DEF NewRow
        <5>3. QED
          BY <5>1, <5>2 DEF Underway
      <4>3. QED
        BY <2>1, <3>2, <4>1, <4>2, WhereRowsComeFrom
    <3>3. QED
      BY <3>1, <3>2 DEF Underway
  <2>4. ASSUME NEW g \in Usable(a)', g \in Committed PROVE g \in Usable(a)
    BY <2>1, <2>4, RowsStay, RecordsGrow DEF Usable, Accepted
  <2>5. CASE Usable(a)' \subseteq Usable(a)
    <3>1. /\ Cardinality(Underway(a)') <= Cardinality(Underway(a))
          /\ Cardinality(Underway(a)') \in Nat
          /\ Cardinality(Underway(a)) \in Nat
      BY <2>2, <2>3, FS_Subset, FS_CardinalityType
    <3>2. /\ Cardinality(Usable(a)') <= Cardinality(Usable(a))
          /\ Cardinality(Usable(a)') \in Nat
          /\ Cardinality(Usable(a)) \in Nat
      BY <2>2, <2>5, FS_Subset, FS_CardinalityType
    <3>3. QED
      BY <3>1, <3>2
  <2>6. ASSUME NEW g \in Usable(a)', g \notin Usable(a)
        PROVE  Cardinality(Underway(a))' + Cardinality(Usable(a))'
                  <= Cardinality(Underway(a)) + Cardinality(Usable(a))
    <3>1. g \in Committed' /\ g \notin Committed /\ g \notin blacklist'
          /\ grant'[g].delegatee_agent_id = a
      BY <2>4, <2>6 DEF Usable, Accepted
    <3>2. PICK r \in InFlight : /\ req[r].id = g /\ grant'[g] = req[r].row
                                /\ DelegateCommit(r)
      BY <2>1, <3>1, WhereGrantsComeFrom
    <3>3. r \in Underway(a)
      BY <3>1, <3>2, RecordsGrow DEF Underway
    <3>4. req'[r] = Idle
      BY <2>1, <3>2 DEF DelegateCommit, TypeOK, InFlight
    <3>5. Underway(a)' \subseteq Underway(a) \ {r}
      BY <2>3, <3>4 DEF Underway, InFlight, Idle
    <3>6. Committed' \subseteq Committed \cup {g}
      BY <2>1, <3>2 DEF DelegateCommit, Committed, TypeOK
    <3>7. Usable(a)' \subseteq Usable(a) \cup {g}
      BY <2>4, <3>6 DEF Usable, Accepted
    <3>8. QED
      BY <2>2, <3>3, <3>5, <3>7, Traded
  <2>7. QED
    BY <2>5, <2>6
<1>2. ChainInv /\ ChainInv' /\ [Next]_vars
         => [\A a \in Agent \ active :
                Cardinality(Underway(a))' + Cardinality(Usable(a))'
                   <= Cardinality(Underway(a)) + Cardinality(Usable(a))]_vars
  BY <1>1
<1>3. QED
  BY <1>2, ChainInvariance, PTL DEF DisabledGainsNothing, Spec
=============================================================================
