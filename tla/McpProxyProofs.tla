--------------------------- MODULE McpProxyProofs ---------------------------
(***************************************************************************)
(* Proofs about McpProxy, for any bindings and tokens, any number of calls *)
(* and traces.                                                             *)
(*                                                                         *)
(* Why the taint arrives in time: a result is told to the agent only after *)
(* its row is committed (OnRecord), rows stay, and so the query of a call  *)
(* made after that finds the row (Judged).                                 *)
(***************************************************************************)
EXTENDS McpProxy, TLAPS

Live(c) == call[c].pc \notin {"idle", "over"}

(***************************************************************************)
(* The row of a committed call is the one it built, with its audit entry;  *)
(* the agent is told the outcome of a call when it is answered.            *)
(***************************************************************************)
OnRecordAt(c) ==
    /\ call[c].pc \in {"outcome", "audited", "committed", "answered"}
          => call[c].status \in Outcome
    /\ call[c].pc \in {"audited", "committed", "answered"}
          => <<c, call[c].status>> \in audit
    /\ call[c].pc \in {"committed", "answered"}
          => session[c] = NewRow(call[c])
    /\ session[c] # None
          => call[c].pc \in {"committed", "answered", "over"}
    /\ told[c] # None
          => call[c].pc = "answered" /\ told[c] = call[c].status

OnRecord == \A c \in Call : OnRecordAt(c)

(***************************************************************************)
(* A call made by an exposed agent is in a tainted trace, and has been     *)
(* judged as such once it is past the query; a call that was sent was      *)
(* allowed.                                                                *)
(***************************************************************************)
JudgedAt(c) ==
    Live(c) =>
        /\ call[c].exposed => TraceIsTainted(call[c].trace)
        /\ call[c].pc \in {"resolved", "policy"} => ~ call[c].reached
        /\ call[c].exposed /\ (call[c].pc \in {"policy", "sent"} \/ call[c].reached)
              => call[c].tainted
        /\ call[c].reached
              => ~ (call[c].tainted /\ HighRisk(call[c].server, call[c].tool))

Judged == \A c \in Call : JudgedAt(c)

ProxyInv == TypeOK /\ OnRecord /\ Judged

-----------------------------------------------------------------------------
(***************************************************************************)
(* What pc says about the shape of a call.                                 *)
(***************************************************************************)
LEMMA CallShape ==
    ASSUME TypeOK, NEW c \in Call, Live(c)
    PROVE  call[c] \in Progress
BY DEF TypeOK, Live, Idle, Over

(***************************************************************************)
(* The row of a call that has its outcome is a row of mcp_sessions.        *)
(***************************************************************************)
LEMMA NewRowType ==
    ASSUME NEW q \in Progress, q.status \in Outcome
    PROVE  NewRow(q) \in Row
BY DEF NewRow, Row, Progress, Untrusted

TypeInv == TypeOK /\ \A c \in Call :
              call[c].pc \in {"outcome", "audited", "committed", "answered"}
                 => call[c].status \in Outcome

(***************************************************************************)
(* The proxy model is type correct.                                        *)
(***************************************************************************)
THEOREM TypeCorrect == Spec => []TypeOK
<1>1. Init => TypeInv
  BY ConstantsAssumption DEF Init, TypeInv, TypeOK, Idle
<1>2. TypeInv /\ [Next]_vars => TypeInv'
  <2> SUFFICES ASSUME TypeInv, [Next]_vars PROVE TypeInv'
    OBVIOUS
  <2> USE ConstantsAssumption DEF TypeInv
  <2>1. ASSUME NEW c \in Call, NEW tr \in Trace, NEW s \in Server,
               NEW t \in Tool, NEW k \in Token, Start(c, tr, s, t, k)
        PROVE  TypeInv'
    <3>1. call'[c] \in Progress
      BY <2>1 DEF Start, Progress, TypeOK, Exposed, Outcome
    <3>2. call'[c].pc = "outcome" => call'[c].status = "blocked"
      BY <2>1 DEF Start, TypeOK
    <3>3. call'[c].pc \in {"resolved", "outcome"}
      BY <2>1 DEF Start, TypeOK
    <3>4. QED
      BY <2>1, <3>1, <3>2, <3>3 DEF Start, TypeOK, Outcome, breaker
  <2>2. ASSUME NEW c \in Call, ReadTaint(c) PROVE TypeInv'
    <3>1. call[c] \in Progress
      BY <2>2, CallShape DEF ReadTaint, Live
    <3>2. TraceIsTainted(call[c].trace) \in BOOLEAN
      BY DEF TraceIsTainted
    <3>3. QED
      BY <2>2, <3>1, <3>2 DEF ReadTaint, TypeOK, Progress, breaker
  <2>3. ASSUME NEW c \in Call, call[c].pc = "policy", Block(c) PROVE TypeInv'
    <3>1. call[c] \in Progress
      BY <2>3, CallShape DEF Live
    <3>2. QED
      BY <2>3, <3>1 DEF Block, TypeOK, Progress, Outcome, breaker
  <2>4. ASSUME NEW c \in Call, ShortCircuit(c) PROVE TypeInv'
    <3>1. call[c] \in Progress
      BY <2>4, CallShape DEF ShortCircuit, Allowed, Live
    <3>2. QED
      BY <2>4, <3>1 DEF ShortCircuit, TypeOK, Progress, Outcome, breaker
  <2>5. ASSUME NEW c \in Call, Send(c) PROVE TypeInv'
    <3>1. call[c] \in Progress /\ call[c].server \in Server
      BY <2>5, CallShape DEF Send, Allowed, Live, Progress
    <3>2. call' \in [Call -> {Idle, Over} \cup Progress]
      BY <2>5, <3>1 DEF Send, TypeOK, Progress
    <3>3. failures' \in [Server -> Nat]
      BY <2>5, <3>1 DEF Send, Close, TypeOK, breaker
    <3>4. opened' \in [Server -> 0..Cooldown \cup {None}]
      BY <2>5, <3>1 DEF Send, Close, TypeOK, breaker
    <3>5. QED
      BY <2>5, <3>1, <3>2, <3>3, <3>4 DEF Send, TypeOK
  <2>6. ASSUME NEW c \in Call, Succeed(c) PROVE TypeInv'
    <3>1. call[c] \in Progress /\ call[c].server \in Server
      BY <2>6, CallShape DEF Succeed, Live, Progress
    <3>2. QED
      BY <2>6, <3>1 DEF Succeed, Close, TypeOK, Progress, Outcome
  <2>7. ASSUME NEW c \in Call, Fail(c) PROVE TypeInv'
    <3>1. call[c] \in Progress /\ call[c].server \in Server
      BY <2>7, CallShape DEF Fail, Live, Progress
    <3>2. call' \in [Call -> {Idle, Over} \cup Progress]
      BY <2>7, <3>1 DEF Fail, TypeOK, Progress, Outcome
    <3>3. failures' \in [Server -> Nat]
      BY <2>7, <3>1 DEF Fail, record_failure, TypeOK
    <3>4. opened' \in [Server -> 0..Cooldown \cup {None}]
      BY <2>7, <3>1 DEF Fail, record_failure, TypeOK
    <3>5. QED
      BY <2>7, <3>1, <3>2, <3>3, <3>4 DEF Fail, TypeOK, Outcome
  <2>8. ASSUME NEW c \in Call, Audit(c) PROVE TypeInv'
    <3>1. call[c] \in Progress
      BY <2>8, CallShape DEF Audit, Live
    <3>2. QED
      BY <2>8, <3>1 DEF Audit, TypeOK, Progress, breaker
  <2>9. ASSUME NEW c \in Call, Commit(c) PROVE TypeInv'
    <3>1. call[c] \in Progress /\ call[c].status \in Outcome
      BY <2>9, CallShape DEF Commit, Live
    <3>2. NewRow(call[c]) \in Row
      BY <3>1, NewRowType
    <3>3. QED
      BY <2>9, <3>1, <3>2 DEF Commit, TypeOK, Progress, breaker
  <2>10. ASSUME NEW c \in Call, Answer(c) PROVE TypeInv'
    <3>1. call[c] \in Progress
      BY <2>10, CallShape DEF Answer, Live
    <3>2. QED
      BY <2>10, <3>1 DEF Answer, TypeOK, Progress, breaker
  <2>11. ASSUME NEW c \in Call, Abort(c) PROVE TypeInv'
    BY <2>11 DEF Abort, TypeOK, Over, breaker
  <2>12. CASE Restart
    <3>1. call' \in [Call -> {Idle, Over} \cup Progress]
      BY <2>12 DEF Restart, TypeOK
    <3>2. QED
      BY <2>12, <3>1 DEF Restart, TypeOK, Over, InProgress
  <2>13. CASE Tick
    <3>1. opened' \in [Server -> 0..Cooldown \cup {None}]
      BY <2>13 DEF Tick, TypeOK, is_open
    <3>2. QED
      BY <2>13, <3>1 DEF Tick, TypeOK
  <2>14. CASE UNCHANGED vars
    BY <2>14 DEF vars, TypeOK
  <2>15. QED
    BY <2>1, <2>2, <2>3, <2>4, <2>5, <2>6, <2>7, <2>8, <2>9, <2>10, <2>11,
       <2>12, <2>13, <2>14 DEF Next, Step, Deny, PolicyUnavailable
<1>3. QED
  BY <1>1, <1>2, PTL DEF Spec, TypeInv

-----------------------------------------------------------------------------
(***************************************************************************)
(* Rows stay: only a call that has none commits one.                       *)
(***************************************************************************)
LEMMA RowsStay ==
    ASSUME TypeOK, OnRecord, [Next]_vars, NEW c \in Call, session[c] # None
    PROVE  session'[c] = session[c]
<1>1. CASE \E d \in Call : Commit(d)
  <2>1. PICK d \in Call : Commit(d)
    BY <1>1
  <2>2. d # c
    BY <2>1 DEF Commit, OnRecord, OnRecordAt
  <2>3. QED
    BY <2>1, <2>2 DEF Commit, TypeOK
<1>2. CASE ~ \E d \in Call : Commit(d)
  <2>1. UNCHANGED session
    BY <1>2 DEF Next, Step, Start, ReadTaint, Deny, PolicyUnavailable, Block,
                ShortCircuit, Send, Succeed, Fail, Audit, Answer, Abort,
                Restart, Tick, vars
  <2>2. QED
    BY <2>1
<1>3. QED
  BY <1>1, <1>2

(***************************************************************************)
(* So a tainted trace stays tainted.                                       *)
(***************************************************************************)
LEMMA TaintStays ==
    ASSUME TypeOK, OnRecord, [Next]_vars, NEW tr, TraceIsTainted(tr)
    PROVE  TraceIsTainted(tr)'
<1>1. PICK d \in Call : /\ session[d] # None
                        /\ session[d].trace = tr
                        /\ session[d].source_untrusted
                        /\ session[d].status = "success"
  BY DEF TraceIsTainted
<1>2. session'[d] = session[d]
  BY <1>1, RowsStay
<1>3. QED
  BY <1>1, <1>2 DEF TraceIsTainted

(***************************************************************************)
(* The taint is on record when the agent sees the content.                 *)
(***************************************************************************)
LEMMA ExposedIsTainted ==
    ASSUME TypeOK, OnRecord, NEW tr, Exposed(tr)
    PROVE  TraceIsTainted(tr)
<1>1. PICK d \in Call : /\ told[d] = "success"
                        /\ call[d].pc = "answered"
                        /\ call[d].trace = tr
                        /\ Untrusted(call[d].server)
  BY DEF Exposed
<1>2. session[d] = NewRow(call[d]) /\ call[d].status = "success"
  BY <1>1, ConstantsAssumption DEF OnRecord, OnRecordAt, Outcome
<1>3. session[d] # None
  <2>1. call[d] \in Progress
    BY <1>1, CallShape DEF Live
  <2>2. NewRow(call[d]) \in Row
    BY <1>2, <2>1, NewRowType DEF Outcome
  <2>3. QED
    BY <1>2, <2>2, ConstantsAssumption
<1>4. /\ session[d].trace = tr
      /\ session[d].status = "success"
      /\ session[d].source_untrusted
  <2>1. session[d].trace = tr /\ session[d].status = "success"
    BY <1>1, <1>2 DEF NewRow
  <2>2. session[d].source_untrusted
           = (Untrusted(call[d].server) /\ call[d].status = "success")
    BY <1>2 DEF NewRow
  <2>3. QED
    BY <1>1, <1>2, <2>1, <2>2, Zenon
<1>5. QED
  BY <1>3, <1>4 DEF TraceIsTainted

-----------------------------------------------------------------------------
(***************************************************************************)
(* A call that a step does not touch keeps what is recorded of it, and     *)
(* stays judged.                                                           *)
(***************************************************************************)
LEMMA Untouched ==
    ASSUME ProxyInv, [Next]_vars, NEW d \in Call,
           call'[d] = call[d], session'[d] = session[d], told'[d] = told[d],
           audit \subseteq audit'
    PROVE  OnRecordAt(d)' /\ JudgedAt(d)'
<1>1. OnRecordAt(d)'
  <2>1. OnRecordAt(d)
    BY DEF ProxyInv, OnRecord
  <2>2. NewRow(call[d])' = NewRow(call[d])
    BY DEF NewRow, Untrusted
  <2>3. QED
    BY <2>1, <2>2 DEF OnRecordAt
<1>2. JudgedAt(d)'
  <2>1. JudgedAt(d)
    BY DEF ProxyInv, Judged
  <2>2. \A tr : TraceIsTainted(tr) => TraceIsTainted(tr)'
    BY TaintStays DEF ProxyInv
  <2>3. QED
    BY <2>1, <2>2 DEF JudgedAt, Live, HighRisk
<1>3. QED
  BY <1>1, <1>2

(***************************************************************************)
(* So of a step of one call only that call has to be looked at.            *)
(***************************************************************************)
LEMMA OneCall ==
    ASSUME ProxyInv, [Next]_vars, NEW c \in Call,
           \A d \in Call \ {c} : /\ call'[d] = call[d]
                                  /\ session'[d] = session[d]
                                  /\ told'[d] = told[d],
           audit \subseteq audit',
           OnRecordAt(c)', JudgedAt(c)'
    PROVE  OnRecord' /\ Judged'
<1>1. ASSUME NEW d \in Call PROVE OnRecordAt(d)' /\ JudgedAt(d)'
  <2>1. CASE d = c
    BY <2>1
  <2>2. CASE d # c
    BY <2>2, Untouched
  <2>3. QED
    BY <2>1, <2>2
<1>2. QED
  BY <1>1 DEF OnRecord, Judged

(***************************************************************************)
(* A new call has no row; if its agent is exposed, the trace is tainted    *)
(* already.                                                                *)
(***************************************************************************)
LEMMA StartStep ==
    ASSUME ProxyInv, [Next]_vars, NEW c \in Call, NEW tr \in Trace,
           NEW s \in Server, NEW t \in Tool, NEW k \in Token,
           Start(c, tr, s, t, k)
    PROVE  OnRecord' /\ Judged'
<1>1. OnRecordAt(c) /\ call[c].pc = "idle"
  BY DEF ProxyInv, OnRecord, Start, Idle
<1>2. OnRecordAt(c)'
  BY <1>1 DEF Start, OnRecordAt, ProxyInv, TypeOK, Outcome
<1>3. JudgedAt(c)'
  <2>1. /\ call'[c].exposed = Exposed(tr)
        /\ call'[c].trace = tr
        /\ call'[c].reached = FALSE
        /\ call'[c].pc \in {"resolved", "outcome"}
    BY DEF Start, ProxyInv, TypeOK
  <2>2. Exposed(tr) => TraceIsTainted(tr)'
    BY ExposedIsTainted, TaintStays DEF ProxyInv
  <2>3. QED
    BY <2>1, <2>2 DEF JudgedAt
<1>4. QED
  BY <1>2, <1>3, OneCall DEF Start, ProxyInv, TypeOK

(***************************************************************************)
(* Up to its outcome a call has no row, no entry and no answer.            *)
(***************************************************************************)
LEMMA BeforeOutcome ==
    ASSUME ProxyInv, [Next]_vars, NEW c \in Call, NEW st \in Outcome,
           call[c].pc \in {"policy", "sent"},
           call' = [call EXCEPT ![c].pc = "outcome", ![c].status = st],
           UNCHANGED <<session, audit, told>>
    PROVE  OnRecord' /\ Judged'
<1>1. call[c] \in Progress /\ OnRecordAt(c) /\ JudgedAt(c) /\ Live(c)
  BY CallShape DEF ProxyInv, OnRecord, Judged, Live
<1>2. /\ call'[c].pc = "outcome"
      /\ call'[c].status = st
      /\ call'[c].exposed = call[c].exposed
      /\ call'[c].reached = call[c].reached
      /\ call'[c].tainted = call[c].tainted
      /\ call'[c].trace = call[c].trace
      /\ call'[c].server = call[c].server
      /\ call'[c].tool = call[c].tool
  BY <1>1 DEF ProxyInv, TypeOK, Progress
<1>3. OnRecordAt(c)'
  BY <1>1, <1>2 DEF OnRecordAt
<1>4. JudgedAt(c)'
  <2>1. \A tr : TraceIsTainted(tr) => TraceIsTainted(tr)'
    BY TaintStays DEF ProxyInv
  <2>2. QED
    BY <1>1, <1>2, <2>1 DEF JudgedAt, HighRisk
<1>5. QED
  BY <1>3, <1>4, OneCall DEF ProxyInv, TypeOK

(***************************************************************************)
(* The query sees the taint of an exposed agent.                           *)
(***************************************************************************)
LEMMA ReadTaintStep ==
    ASSUME ProxyInv, [Next]_vars, NEW c \in Call, ReadTaint(c)
    PROVE  OnRecord' /\ Judged'
<1>1. call[c] \in Progress /\ OnRecordAt(c) /\ JudgedAt(c) /\ Live(c)
  BY CallShape DEF ProxyInv, OnRecord, Judged, Live, ReadTaint
<1>2. /\ call'[c].pc = "policy"
      /\ call'[c].reached = call[c].reached
      /\ call'[c].tainted = TraceIsTainted(call[c].trace)
      /\ call'[c].exposed = call[c].exposed
      /\ call'[c].trace = call[c].trace
      /\ call'[c].server = call[c].server
      /\ call'[c].tool = call[c].tool
  BY <1>1 DEF ProxyInv, TypeOK, Progress, ReadTaint
<1>3. OnRecordAt(c)'
  BY <1>1, <1>2 DEF OnRecordAt, ReadTaint
<1>4. JudgedAt(c)'
  <2>1. \A tr : TraceIsTainted(tr) => TraceIsTainted(tr)'
    BY TaintStays DEF ProxyInv
  <2>2. QED
    BY <1>1, <1>2, <2>1 DEF JudgedAt, ReadTaint, Live
<1>5. QED
  BY <1>3, <1>4, OneCall DEF ReadTaint, ProxyInv, TypeOK

(***************************************************************************)
(* A call is sent only when the policy, given the taint, allowed it.       *)
(***************************************************************************)
LEMMA SendStep ==
    ASSUME ProxyInv, [Next]_vars, NEW c \in Call, Send(c)
    PROVE  OnRecord' /\ Judged'
<1>1. call[c] \in Progress /\ OnRecordAt(c) /\ JudgedAt(c) /\ Live(c)
  BY CallShape DEF ProxyInv, OnRecord, Judged, Live, Send, Allowed
<1>2. /\ call'[c].pc = "sent"
      /\ call'[c].reached = TRUE
      /\ call'[c].tainted = call[c].tainted
      /\ call'[c].exposed = call[c].exposed
      /\ call'[c].trace = call[c].trace
      /\ call'[c].server = call[c].server
      /\ call'[c].tool = call[c].tool
  BY <1>1 DEF ProxyInv, TypeOK, Progress, Send
<1>3. OnRecordAt(c)'
  BY <1>1, <1>2 DEF OnRecordAt, Send, Allowed
<1>4. JudgedAt(c)'
  <2>1. \A tr : TraceIsTainted(tr) => TraceIsTainted(tr)'
    BY TaintStays DEF ProxyInv
  <2>2. ~ (call[c].tainted /\ HighRisk(call[c].server, call[c].tool))
    BY DEF Send, Allowed, Allow
  <2>3. call[c].exposed => call[c].tainted
    BY <1>1 DEF JudgedAt, Send, Allowed
  <2>4. QED
    BY <1>1, <1>2, <2>1, <2>2, <2>3 DEF JudgedAt, HighRisk
<1>5. QED
  BY <1>3, <1>4, OneCall DEF Send, ProxyInv, TypeOK

(***************************************************************************)
(* The audit entry is written before anything is committed.                *)
(***************************************************************************)
LEMMA AuditStep ==
    ASSUME ProxyInv, [Next]_vars, NEW c \in Call, Audit(c)
    PROVE  OnRecord' /\ Judged'
<1>1. call[c] \in Progress /\ OnRecordAt(c) /\ JudgedAt(c) /\ Live(c)
  BY CallShape DEF ProxyInv, OnRecord, Judged, Live, Audit
<1>2. /\ call'[c].pc = "audited"
      /\ call'[c].reached = call[c].reached
      /\ call'[c].tainted = call[c].tainted
      /\ call'[c].status = call[c].status
      /\ call'[c].exposed = call[c].exposed
      /\ call'[c].trace = call[c].trace
      /\ call'[c].server = call[c].server
      /\ call'[c].tool = call[c].tool
  BY <1>1 DEF ProxyInv, TypeOK, Progress, Audit
<1>3. OnRecordAt(c)'
  BY <1>1, <1>2 DEF OnRecordAt, Audit
<1>4. JudgedAt(c)'
  <2>1. \A tr : TraceIsTainted(tr) => TraceIsTainted(tr)'
    BY TaintStays DEF ProxyInv
  <2>2. QED
    BY <1>1, <1>2, <2>1 DEF JudgedAt, HighRisk
<1>5. QED
  BY <1>3, <1>4, OneCall DEF Audit, ProxyInv, TypeOK

(***************************************************************************)
(* The row committed is the one the call built.                            *)
(***************************************************************************)
LEMMA CommitStep ==
    ASSUME ProxyInv, [Next]_vars, NEW c \in Call, Commit(c)
    PROVE  OnRecord' /\ Judged'
<1>1. call[c] \in Progress /\ OnRecordAt(c) /\ JudgedAt(c) /\ Live(c)
  BY CallShape DEF ProxyInv, OnRecord, Judged, Live, Commit
<1>2. /\ call'[c].pc = "committed"
      /\ call'[c].reached = call[c].reached
      /\ call'[c].tainted = call[c].tainted
      /\ call'[c].status = call[c].status
      /\ call'[c].exposed = call[c].exposed
      /\ call'[c].trace = call[c].trace
      /\ call'[c].server = call[c].server
      /\ call'[c].tool = call[c].tool
  BY <1>1 DEF ProxyInv, TypeOK, Progress, Commit
<1>3. OnRecordAt(c)'
  <2>1. session'[c] = NewRow(call[c])
    BY DEF Commit, ProxyInv, TypeOK
  <2>2. NewRow(call[c])' = NewRow(call[c])
    BY <1>2 DEF NewRow, Untrusted
  <2>3. QED
    BY <1>1, <1>2, <2>1, <2>2 DEF OnRecordAt, Commit
<1>4. JudgedAt(c)'
  <2>1. \A tr : TraceIsTainted(tr) => TraceIsTainted(tr)'
    BY TaintStays DEF ProxyInv
  <2>2. QED
    BY <1>1, <1>2, <2>1 DEF JudgedAt, HighRisk
<1>5. QED
  BY <1>3, <1>4, OneCall DEF Commit, ProxyInv, TypeOK

(***************************************************************************)
(* The agent is told the status that was committed.                        *)
(***************************************************************************)
LEMMA AnswerStep ==
    ASSUME ProxyInv, [Next]_vars, NEW c \in Call, Answer(c)
    PROVE  OnRecord' /\ Judged'
<1>1. call[c] \in Progress /\ OnRecordAt(c) /\ JudgedAt(c) /\ Live(c)
  BY CallShape DEF ProxyInv, OnRecord, Judged, Live, Answer
<1>2. /\ call'[c].pc = "answered"
      /\ call'[c].reached = call[c].reached
      /\ call'[c].tainted = call[c].tainted
      /\ call'[c].status = call[c].status
      /\ call'[c].exposed = call[c].exposed
      /\ call'[c].trace = call[c].trace
      /\ call'[c].server = call[c].server
      /\ call'[c].tool = call[c].tool
  BY <1>1 DEF ProxyInv, TypeOK, Progress, Answer
<1>3. OnRecordAt(c)'
  <2>1. told'[c] = call[c].status
    BY DEF Answer, ProxyInv, TypeOK
  <2>2. NewRow(call[c])' = NewRow(call[c])
    BY <1>2 DEF NewRow, Untrusted
  <2>3. QED
    BY <1>1, <1>2, <2>1, <2>2 DEF OnRecordAt, Answer
<1>4. JudgedAt(c)'
  <2>1. \A tr : TraceIsTainted(tr) => TraceIsTainted(tr)'
    BY TaintStays DEF ProxyInv
  <2>2. QED
    BY <1>1, <1>2, <2>1 DEF JudgedAt, HighRisk
<1>5. QED
  BY <1>3, <1>4, OneCall DEF Answer, ProxyInv, TypeOK

(***************************************************************************)
(* A call given up before its answer leaves nothing said.                  *)
(***************************************************************************)
LEMMA AbortStep ==
    ASSUME ProxyInv, [Next]_vars, NEW c \in Call, Abort(c)
    PROVE  OnRecord' /\ Judged'
<1>1. OnRecordAt(c) /\ call'[c].pc = "over"
  BY DEF ProxyInv, OnRecord, Abort, Over, TypeOK
<1>2. OnRecordAt(c)'
  BY <1>1 DEF OnRecordAt, Abort, InProgress
<1>3. JudgedAt(c)'
  BY <1>1 DEF JudgedAt, Live
<1>4. QED
  BY <1>2, <1>3, OneCall DEF Abort, ProxyInv, TypeOK

(***************************************************************************)
(* So does a restart, for every call in progress.                          *)
(***************************************************************************)
LEMMA RestartStep ==
    ASSUME ProxyInv, [Next]_vars, Restart
    PROVE  OnRecord' /\ Judged'
<1>1. ASSUME NEW d \in Call PROVE OnRecordAt(d)' /\ JudgedAt(d)'
  <2>1. CASE InProgress(d)
    <3>1. OnRecordAt(d) /\ call'[d].pc = "over"
      BY <2>1 DEF ProxyInv, OnRecord, Restart, Over
    <3>2. OnRecordAt(d)'
      BY <2>1, <3>1 DEF OnRecordAt, Restart, InProgress
    <3>3. JudgedAt(d)'
      BY <3>1 DEF JudgedAt, Live
    <3>4. QED
      BY <3>2, <3>3
  <2>2. CASE ~ InProgress(d)
    BY <2>2, Untouched DEF Restart
  <2>3. QED
    BY <2>1, <2>2
<1>2. QED
  BY <1>1 DEF OnRecord, Judged

-----------------------------------------------------------------------------
(***************************************************************************)
(* The inductive invariant of the proxy.                                   *)
(***************************************************************************)
THEOREM ProxyInvariant == Spec => []ProxyInv
<1>1. Init => ProxyInv
  <2> SUFFICES ASSUME Init PROVE ProxyInv
    OBVIOUS
  <2>1. TypeOK
    BY ConstantsAssumption DEF Init, TypeOK
  <2>2. OnRecord /\ Judged
    BY DEF Init, OnRecord, OnRecordAt, Judged, JudgedAt, Live, Idle
  <2>3. QED
    BY <2>1, <2>2 DEF ProxyInv
<1>2. TypeOK' /\ ProxyInv /\ [Next]_vars => ProxyInv'
  <2> SUFFICES ASSUME TypeOK', ProxyInv, [Next]_vars PROVE OnRecord' /\ Judged'
    BY DEF ProxyInv
  <2>1. ASSUME NEW c \in Call, Step(c) PROVE OnRecord' /\ Judged'
    <3>1. CASE Deny(c) \/ PolicyUnavailable(c)
      BY <3>1, BeforeOutcome DEF Deny, PolicyUnavailable, Block, Outcome
    <3>2. CASE ShortCircuit(c)
      BY <3>2, BeforeOutcome DEF ShortCircuit, Allowed, Outcome
    <3>3. CASE Succeed(c)
      BY <3>3, BeforeOutcome DEF Succeed, Outcome
    <3>4. CASE Fail(c)
      BY <3>4, BeforeOutcome DEF Fail, Outcome
    <3>5. QED
      BY <2>1, <3>1, <3>2, <3>3, <3>4, ReadTaintStep, SendStep, AuditStep,
         CommitStep, AnswerStep, AbortStep DEF Step
  <2>2. ASSUME UNCHANGED <<call, session, audit, told>>
        PROVE  OnRecord' /\ Judged'
    BY <2>2, Untouched DEF OnRecord, Judged
  <2>3. QED
    BY <2>1, <2>2, StartStep, RestartStep DEF Next, Tick, vars
<1>3. QED
  BY <1>1, <1>2, TypeCorrect, PTL DEF Spec

(***************************************************************************)
(* No high-risk call reaches a server once the agent that makes it has     *)
(* been given untrusted content in the trace (mcp_proxy_service.py,        *)
(* _trace_is_tainted and the policy), however its calls interleave, fail   *)
(* and restart.                                                            *)
(***************************************************************************)
THEOREM NoRiskAfterExposureHolds == Spec => []NoRiskAfterExposure
<1>1. ProxyInv => NoRiskAfterExposure
  BY DEF ProxyInv, Judged, JudgedAt, Live, NoRiskAfterExposure
<1>2. QED
  BY <1>1, ProxyInvariant, PTL

(***************************************************************************)
(* What the agent has been told of a call is in mcp_sessions and in the    *)
(* audit trail (execute_tool and _block commit before they answer).        *)
(***************************************************************************)
THEOREM RecordedHolds == Spec => []Recorded
<1>1. ProxyInv => Recorded
  <2> SUFFICES ASSUME ProxyInv, NEW c \in Call, told[c] # None
               PROVE  /\ session[c] # None
                      /\ session[c].status = told[c]
                      /\ <<c, told[c]>> \in audit
    BY DEF Recorded
  <2>1. call[c].pc = "answered" /\ told[c] = call[c].status
    BY DEF ProxyInv, OnRecord, OnRecordAt
  <2>2. /\ session[c] = NewRow(call[c])
        /\ <<c, told[c]>> \in audit
        /\ call[c].status \in Outcome
    BY <2>1 DEF ProxyInv, OnRecord, OnRecordAt
  <2>3. call[c] \in Progress
    BY <2>1, CallShape DEF ProxyInv, Live
  <2>4. session[c] # None
    BY <2>2, <2>3, NewRowType, ConstantsAssumption
  <2>5. session[c].status = told[c]
    BY <2>1, <2>2 DEF NewRow
  <2>6. QED
    BY <2>2, <2>4, <2>5
<1>2. QED
  BY <1>1, ProxyInvariant, PTL

(***************************************************************************)
(* The breaker (_CircuitBreaker) is open exactly when the failures counted *)
(* have reached the threshold, in whatever order answers come in.          *)
(***************************************************************************)
THEOREM TrippedByFailuresHolds == Spec => []TrippedByFailures
<1>1. Init => TrippedByFailures
  BY ConstantsAssumption DEF Init, TrippedByFailures
<1>2. TypeOK /\ TrippedByFailures /\ [Next]_vars => TrippedByFailures'
  <2> SUFFICES ASSUME TypeOK, TrippedByFailures, [Next]_vars
               PROVE  TrippedByFailures'
    OBVIOUS
  <2>1. ASSUME NEW s \in Server, Close(s) PROVE TrippedByFailures'
    BY <2>1, ConstantsAssumption DEF Close, TrippedByFailures, TypeOK
  <2>2. ASSUME NEW s \in Server, record_failure(s) PROVE TrippedByFailures'
    BY <2>2, ConstantsAssumption DEF record_failure, TrippedByFailures, TypeOK
  <2>3. ASSUME UNCHANGED breaker PROVE TrippedByFailures'
    BY <2>3 DEF breaker, TrippedByFailures
  <2>4. ASSUME NEW c \in Call, Send(c) \/ Succeed(c) \/ Fail(c)
        PROVE  TrippedByFailures'
    <3>1. call[c].server \in Server
      BY <2>4, CallShape DEF Send, Allowed, Succeed, Fail, Live, Progress
    <3>2. QED
      BY <2>1, <2>2, <2>3, <2>4, <3>1 DEF Send, Succeed, Fail
  <2>5. CASE Restart
    BY <2>5, ConstantsAssumption DEF Restart, TrippedByFailures
  <2>6. CASE Tick
    BY <2>6, ConstantsAssumption DEF Tick, is_open, TrippedByFailures, TypeOK
  <2>7. QED
    BY <2>3, <2>4, <2>5, <2>6
    DEF Next, Step, Start, ReadTaint, Deny, PolicyUnavailable, Block,
        ShortCircuit, Audit, Commit, Answer, Abort, vars, breaker
<1>3. QED
  BY <1>1, <1>2, TypeCorrect, PTL DEF Spec
=============================================================================
