-------------------------- MODULE TokenClockProofs --------------------------
(***************************************************************************)
(* Proofs about TokenClock for any resolution of the clock, any lifetime   *)
(* and any number of tokens.                                               *)
(*                                                                         *)
(* A revocation is short by less than a second for a delegation token and  *)
(* by nothing for an access token (Safe).  The invariant follows a token   *)
(* through its revocation: a token that is not safe is still in the index, *)
(* then among the members the sweep read, until its entry is written.      *)
(***************************************************************************)
EXTENDS TokenClock, TLAPS

End(j) == exp[j] * Hz

(***************************************************************************)
(* The blacklist entry lasts long enough, or it is too late to matter.     *)
(***************************************************************************)
Safe(j) ==
    IF j \in Delegated
    THEN now > End(j) - Hz \/ until[j] > End(j) - Hz
    ELSE now >= End(j) \/ until[j] >= End(j)

OpSound ==
    /\ op.kind = "sweep" =>
          /\ op.at * Hz <= now
          /\ op.members \subseteq Minted
          /\ \A j \in op.members : exp[j] >= op.at
    /\ op.kind = "grant" => op.jti \in Minted /\ op.at <= now

Followed ==
    /\ index \subseteq Minted
    /\ target \subseteq Minted
    /\ \A j \in Minted : Safe(j) \/ j \in index
    /\ op.kind = "sweep" => \A j \in Minted : Safe(j) \/ j \in op.members
    /\ op.kind = "grant" => \A j \in target : Safe(j) \/ j = op.jti
    /\ op = Idle => \A j \in target : Safe(j)

ClockInv == TypeOK /\ OpSound /\ Followed

-----------------------------------------------------------------------------
(***************************************************************************)
(* Whole seconds and ticks.                                                *)
(***************************************************************************)
LEMMA Scaled ==
    ASSUME NEW a \in Int, NEW b \in Int, a <= b
    PROVE  a * Hz \in Int /\ b * Hz \in Int /\ a * Hz <= b * Hz
BY ConstantsAssumption

LEMMA WholeSecond ==
    ASSUME NEW t \in Nat
    PROVE  /\ Second(t) \in Nat
           /\ Second(t) * Hz <= t
           /\ t < Second(t) * Hz + Hz
BY ConstantsAssumption DEF Second

LEMMA AtLeastOne ==
    ASSUME NEW ttl \in Nat
    PROVE  Max({ttl, 1}) \in Nat /\ Max({ttl, 1}) >= ttl
<1>1. \E x \in {ttl, 1} : \A y \in {ttl, 1} : x >= y
  OBVIOUS
<1> QED
  BY <1>1 DEF Max

(***************************************************************************)
(* What an index member, a target or a member of a sweep is known to have. *)
(***************************************************************************)
LEMMA EndType ==
    ASSUME TypeOK, NEW j \in Minted
    PROVE  exp[j] \in Nat /\ End(j) \in Nat /\ until[j] \in Nat /\ j \in Jti
<1>1. exp[j] \in Nat /\ j \in Jti /\ until[j] \in Nat
  BY DEF TypeOK, Minted
<1> QED
  BY <1>1, ConstantsAssumption DEF End

(***************************************************************************)
(* A token whose exp the clock has reached is safe.                        *)
(***************************************************************************)
LEMMA PastIsSafe ==
    ASSUME TypeOK, NEW j \in Minted, exp[j] <= Second(now)
    PROVE  Safe(j)
<1>1. now \in Nat /\ exp[j] \in Nat /\ End(j) \in Nat
  BY EndType, ConstantsAssumption DEF TypeOK
<1>2. Second(now) \in Nat /\ Second(now) * Hz <= now
  BY <1>1, WholeSecond
<1>3. End(j) <= Second(now) * Hz /\ Second(now) * Hz \in Int
  BY <1>1, <1>2, Scaled DEF End
<1>4. End(j) <= now
  BY <1>1, <1>2, <1>3
<1> QED
  BY <1>1, <1>4, ConstantsAssumption DEF Safe

(***************************************************************************)
(* The entry a sweep writes lasts to the token's exp.                      *)
(***************************************************************************)
LEMMA SweepHolds ==
    ASSUME TypeOK, OpSound, NEW j \in Jti, SweepRevoke(j)
    PROVE  /\ until' \in [Jti -> Nat]
           /\ until'[j] >= End(j)
<1>1. op \in [kind : {"sweep"}, at : Nat, members : SUBSET Jti]
  BY DEF SweepRevoke, TypeOK, Idle
<1>2. /\ j \in Minted /\ exp[j] \in Nat /\ End(j) \in Nat
      /\ op.at \in Nat /\ exp[j] >= op.at /\ op.at * Hz <= now /\ now \in Nat
  BY <1>1, EndType, ConstantsAssumption DEF SweepRevoke, OpSound, TypeOK
<1> DEFINE ttl == exp[j] - op.at
           m == Max({ttl, 1})
<1>3. ttl \in Nat /\ m \in Nat /\ m >= ttl
  BY <1>2, AtLeastOne
<1> HIDE DEF m
<1>4. ttl * Hz <= m * Hz /\ m * Hz \in Nat
  BY <1>3, Scaled, ConstantsAssumption
<1>5. ttl * Hz = exp[j] * Hz - op.at * Hz /\ op.at * Hz \in Nat
  BY <1>2, ConstantsAssumption
<1>6. now + m * Hz >= End(j) /\ now + m * Hz \in Nat
  BY <1>2, <1>3, <1>4, <1>5 DEF End
<1>7. until' = [until EXCEPT ![j] = now + m * Hz]
  BY DEF SweepRevoke, revoke_jti, m
<1> QED
  BY <1>6, <1>7 DEF TypeOK

(***************************************************************************)
(* The entry revoke_grant writes, or leaves out, is short by less than a   *)
(* second.                                                                 *)
(***************************************************************************)
LEMMA GrantHolds ==
    ASSUME TypeOK, OpSound, GrantRevoke
    PROVE  /\ op.jti \in Delegated \cap Minted
           /\ until' \in [Jti -> Nat]
           /\ \A i \in Jti : i # op.jti => until'[i] = until[i]
           /\ now > End(op.jti) - Hz \/ until'[op.jti] > End(op.jti) - Hz
<1>1. op \in [kind : {"grant"}, at : Nat, jti : Delegated]
  BY DEF GrantRevoke, TypeOK, Idle
<1> DEFINE j == op.jti
           rem == Remaining(j, op.at)
<1>2. /\ j \in Delegated /\ j \in Minted /\ j \in Jti /\ End(j) \in Nat
      /\ op.at \in Nat /\ op.at <= now /\ now \in Nat
      /\ until \in [Jti -> Nat]
  BY <1>1, EndType, ConstantsAssumption DEF GrantRevoke, OpSound, TypeOK
<1>3. Hz \in Nat /\ Hz > 0
  BY ConstantsAssumption
<1>4. CASE End(j) < op.at
  <2>1. rem = 0
    BY <1>4 DEF Remaining, End
  <2>2. UNCHANGED until
    BY <2>1 DEF GrantRevoke
  <2> QED
    BY <1>2, <1>3, <1>4, <2>2
<1>5. CASE ~ (End(j) < op.at)
  <2> DEFINE d == End(j) - op.at
             m == Max({rem, 1})
  <2>1. rem = d \div Hz
    BY <1>5 DEF Remaining, End
  <2>2. d \in Nat
    BY <1>2, <1>5
  <2> HIDE DEF rem
  <2>3. rem \in Nat /\ rem * Hz \in Nat /\ d < rem * Hz + Hz
    BY <2>1, <2>2, WholeSecond, ConstantsAssumption DEF Second
  <2>4. CASE rem = 0
    <3>1. UNCHANGED until
      BY <2>4 DEF GrantRevoke, rem
    <3>2. d < Hz
      BY <1>3, <2>2, <2>3, <2>4
    <3>3. now > End(j) - Hz
      BY <1>2, <1>3, <3>2
    <3> QED
      BY <1>2, <3>1, <3>3
  <2>5. CASE rem > 0
    <3>1. m \in Nat /\ m >= rem
      BY <2>3, AtLeastOne
    <3>2. until' = [until EXCEPT ![j] = now + m * Hz]
      BY <2>5 DEF GrantRevoke, revoke_jti, rem
    <3> HIDE DEF m
    <3>3. m * Hz \in Nat /\ rem * Hz <= m * Hz
      BY <1>3, <2>3, <3>1, Scaled
    <3>4. now + m * Hz > End(j) - Hz /\ now + m * Hz \in Nat
      BY <1>2, <1>3, <2>3, <3>3
    <3> QED
      BY <1>2, <3>2, <3>4
  <2> QED
    BY <2>3, <2>4, <2>5
<1> QED
  BY <1>4, <1>5

(***************************************************************************)
(* A safe token stays safe while the clock goes on and its entry is left   *)
(* alone or written by a sweep.                                            *)
(***************************************************************************)
LEMMA SafeStays ==
    ASSUME TypeOK, NEW j \in Minted, Safe(j), exp'[j] = exp[j],
           now' \in Nat, now' >= now, until'[j] \in Nat,
           until'[j] >= until[j] \/ until'[j] >= End(j)
    PROVE  Safe(j)'
<1>1. /\ End(j)' = End(j) /\ End(j) \in Nat /\ until[j] \in Nat
      /\ now \in Nat /\ Hz \in Nat /\ Hz > 0
  BY EndType, ConstantsAssumption DEF End, TypeOK
<1> QED
  BY <1>1 DEF Safe

-----------------------------------------------------------------------------
(***************************************************************************)
(* The steps, one by one.                                                  *)
(***************************************************************************)
LEMMA MintStep ==
    ASSUME ClockInv, NEW j \in Jti, Mint(j)
    PROVE  ClockInv'
<1> USE DEF ClockInv
<1>1. /\ op = Idle /\ j \notin Minted
      /\ exp' = [exp EXCEPT ![j] = Second(now) + Lifetime]
      /\ index' = {i \in index \cup {j} : exp'[i] > Second(now)}
      /\ UNCHANGED <<now, until, op, target>>
  BY DEF Mint, Pruned, Second
<1>2. now \in Nat /\ Second(now) \in Nat /\ Lifetime \in Nat \ {0}
  BY WholeSecond, ConstantsAssumption DEF TypeOK
<1>3. /\ exp'[j] = Second(now) + Lifetime /\ exp'[j] \in Nat
      /\ \A i \in Jti \ {j} : exp'[i] = exp[i]
      /\ exp' \in [Jti -> Nat \cup {None}]
  BY <1>1, <1>2 DEF TypeOK
<1>4. Minted' = Minted \cup {j} /\ j \in index'
  BY <1>1, <1>2, <1>3, ConstantsAssumption DEF Minted
<1>5. TypeOK' /\ OpSound'
  BY <1>1, <1>3 DEF TypeOK, OpSound, Idle
<1>6. ASSUME NEW i \in Minted, Safe(i) PROVE Safe(i)'
  BY <1>1, <1>2, <1>3, <1>6, SafeStays, EndType DEF Minted
<1>7. ASSUME NEW i \in Minted' PROVE Safe(i)' \/ i \in index'
  <2>1. CASE i = j
    BY <1>4, <2>1
  <2>2. CASE i \in Minted /\ i \notin index
    BY <1>6, <2>2 DEF Followed
  <2>3. CASE i \in Minted /\ i \in index /\ exp[i] <= Second(now)
    BY <1>6, <2>3, PastIsSafe
  <2>4. CASE i \in Minted /\ i \in index /\ exp[i] > Second(now)
    BY <1>1, <1>3, <2>4 DEF Minted
  <2> QED
    BY <1>2, <1>4, <2>1, <2>2, <2>3, <2>4, EndType
<1>8. index' \subseteq Minted' /\ target' \subseteq Minted'
  BY <1>1, <1>4 DEF Followed
<1>9. \A i \in target' : Safe(i)'
  BY <1>1, <1>6 DEF Followed
<1> QED
  BY <1>1, <1>5, <1>7, <1>8, <1>9 DEF Followed, Idle

LEMMA SweepRangeStep ==
    ASSUME ClockInv, SweepRange
    PROVE  ClockInv'
<1> USE DEF ClockInv
<1> DEFINE read == {j \in index : exp[j] >= Second(now)}
<1>1. /\ op = Idle
      /\ op' = [kind |-> "sweep", at |-> Second(now), members |-> read]
      /\ target' = target \cup {j \in Minted : ~ Expired(j)}
      /\ UNCHANGED <<now, exp, index, until>>
  BY DEF SweepRange
<1>2. now \in Nat /\ Second(now) \in Nat /\ Second(now) * Hz <= now
  BY WholeSecond, ConstantsAssumption DEF TypeOK
<1>3. Minted' = Minted /\ read \subseteq Minted /\ index \subseteq Minted
  BY <1>1 DEF Minted, Followed
<1>4. TypeOK'
  BY <1>1, <1>2, <1>3 DEF TypeOK, Minted
<1>5. OpSound'
  BY <1>1, <1>2, <1>3 DEF OpSound
<1>6. ASSUME NEW i \in Minted, Safe(i) PROVE Safe(i)'
  BY <1>1, <1>2, <1>6, SafeStays, EndType
<1>7. ASSUME NEW i \in Minted PROVE Safe(i)' \/ i \in read
  <2>1. CASE i \in index /\ ~ (exp[i] >= Second(now))
    BY <1>2, <1>6, <2>1, PastIsSafe, EndType
  <2> QED
    BY <1>6, <2>1 DEF Followed
<1> QED
  BY <1>1, <1>3, <1>4, <1>5, <1>6, <1>7 DEF Followed, Idle

LEMMA SweepRevokeStep ==
    ASSUME ClockInv, NEW j \in Jti, SweepRevoke(j)
    PROVE  ClockInv'
<1> USE DEF ClockInv
<1>1. op \in [kind : {"sweep"}, at : Nat, members : SUBSET Jti]
  BY DEF SweepRevoke, TypeOK, Idle
<1>2. /\ op' = [kind |-> "sweep", at |-> op.at, members |-> op.members \ {j}]
      /\ UNCHANGED <<now, exp, index, target>>
      /\ \A i \in Jti \ {j} : until'[i] = until[i]
  BY <1>1 DEF SweepRevoke, revoke_jti, TypeOK
<1>3. until' \in [Jti -> Nat] /\ until'[j] >= End(j)
  BY SweepHolds
<1>4. now \in Nat /\ Minted' = Minted /\ Minted \subseteq Jti
  BY <1>2, ConstantsAssumption DEF Minted, TypeOK
<1>5. TypeOK' /\ OpSound'
  BY <1>1, <1>2, <1>3, <1>4 DEF TypeOK, OpSound
<1>6. ASSUME NEW i \in Minted, Safe(i) \/ i = j PROVE Safe(i)'
  <2>1. CASE i # j
    BY <1>2, <1>3, <1>4, <1>6, <2>1, SafeStays, EndType
  <2>2. CASE i = j
    <3>1. End(j)' = End(j) /\ End(j) \in Nat
      BY <1>2, <1>6, <2>2, EndType DEF End
    <3> QED
      BY <1>3, <2>2, <3>1, ConstantsAssumption DEF Safe
  <2> QED
    BY <2>1, <2>2
<1>7. \A i \in Minted : Safe(i)' \/ i \in op.members \ {j}
  BY <1>1, <1>6 DEF Followed
<1>8. \A i \in Minted : Safe(i)' \/ i \in index
  BY <1>6 DEF Followed
<1> QED
  BY <1>1, <1>2, <1>4, <1>5, <1>7, <1>8 DEF Followed, Idle

LEMMA SweepDeleteStep ==
    ASSUME ClockInv, SweepDelete
    PROVE  ClockInv'
<1> USE DEF ClockInv
<1>1. /\ op.kind = "sweep" /\ op.members = {} /\ index' = {} /\ op' = Idle
      /\ UNCHANGED <<now, exp, until, target>>
  BY DEF SweepDelete
<1>2. Minted' = Minted /\ now \in Nat
  BY <1>1, ConstantsAssumption DEF Minted, TypeOK
<1>3. ASSUME NEW i \in Minted PROVE Safe(i)'
  BY <1>1, <1>2, SafeStays, EndType DEF Followed
<1>4. TypeOK' /\ OpSound'
  BY <1>1 DEF TypeOK, OpSound, Idle
<1> QED
  BY <1>1, <1>2, <1>3, <1>4 DEF Followed, Idle

LEMMA GrantReadStep ==
    ASSUME ClockInv, NEW j \in Jti, GrantRead(j)
    PROVE  ClockInv'
<1> USE DEF ClockInv
<1>1. /\ op = Idle /\ j \in Minted \cap Delegated
      /\ op' = [kind |-> "grant", at |-> now, jti |-> j]
      /\ target \subseteq target' /\ target' \subseteq target \cup {j}
      /\ UNCHANGED <<now, exp, index, until>>
  BY DEF GrantRead
<1>2. Minted' = Minted /\ now \in Nat
  BY <1>1, ConstantsAssumption DEF Minted, TypeOK
<1>3. ASSUME NEW i \in Minted, Safe(i) PROVE Safe(i)'
  BY <1>1, <1>2, <1>3, SafeStays, EndType
<1>4. TypeOK' /\ OpSound'
  BY <1>1, <1>2 DEF TypeOK, OpSound
<1> QED
  BY <1>1, <1>2, <1>3, <1>4 DEF Followed, Idle

LEMMA GrantRevokeStep ==
    ASSUME ClockInv, GrantRevoke
    PROVE  ClockInv'
<1> USE DEF ClockInv
<1>1. /\ op.kind = "grant" /\ op' = Idle
      /\ UNCHANGED <<now, exp, index, target>>
  BY DEF GrantRevoke
<1>2. /\ op.jti \in Delegated \cap Minted
      /\ until' \in [Jti -> Nat]
      /\ \A i \in Jti : i # op.jti => until'[i] = until[i]
      /\ now > End(op.jti) - Hz \/ until'[op.jti] > End(op.jti) - Hz
  BY GrantHolds
<1>3. Minted' = Minted /\ now \in Nat
  BY <1>1, ConstantsAssumption DEF Minted, TypeOK
<1>4. ASSUME NEW i \in Minted, Safe(i) \/ i = op.jti PROVE Safe(i)'
  <2>1. CASE i # op.jti
    BY <1>1, <1>2, <1>3, <1>4, <2>1, SafeStays, EndType
  <2>2. CASE i = op.jti
    BY <1>1, <1>2, <2>2 DEF Safe, End
  <2> QED
    BY <2>1, <2>2
<1>5. TypeOK' /\ OpSound'
  BY <1>1, <1>2 DEF TypeOK, OpSound, Idle
<1> QED
  BY <1>1, <1>3, <1>4, <1>5 DEF Followed, Idle

LEMMA TickStep ==
    ASSUME ClockInv, Tick
    PROVE  ClockInv'
<1> USE DEF ClockInv
<1>1. /\ now \in Nat /\ now' = now + 1 /\ now' \in 0 .. MaxTick
      /\ UNCHANGED <<exp, index, until, op, target>>
  BY ConstantsAssumption DEF Tick, TypeOK
<1>2. Minted' = Minted
  BY <1>1 DEF Minted
<1>3. ASSUME NEW i \in Minted, Safe(i) PROVE Safe(i)'
  BY <1>1, <1>3, SafeStays, EndType
<1>4. TypeOK'
  BY <1>1 DEF TypeOK
<1>5. OpSound'
  <2>1. CASE op.kind = "sweep"
    <3>1. op.at \in Nat /\ op.at * Hz \in Nat
      BY <2>1, ConstantsAssumption DEF TypeOK, Idle
    <3> QED
      BY <1>1, <1>2, <2>1, <3>1 DEF OpSound
  <2>2. CASE op.kind # "sweep"
    BY <1>1, <1>2, <2>2 DEF OpSound, TypeOK, Idle
  <2> QED
    BY <2>1, <2>2
<1> QED
  BY <1>1, <1>2, <1>3, <1>4, <1>5 DEF Followed, Idle

-----------------------------------------------------------------------------
(***************************************************************************)
(* The inductive invariant.                                                *)
(***************************************************************************)
THEOREM ClockInvariance == Spec => []ClockInv
<1>1. Init => ClockInv
  <2> SUFFICES ASSUME Init PROVE ClockInv
    OBVIOUS
  <2>1. Minted = {}
    BY DEF Init, Minted
  <2>2. TypeOK
    BY ConstantsAssumption DEF Init, TypeOK
  <2> QED
    BY <2>1, <2>2 DEF Init, ClockInv, OpSound, Followed, Idle
<1>2. ClockInv /\ [Next]_vars => ClockInv'
  <2> SUFFICES ASSUME ClockInv, [Next]_vars PROVE ClockInv'
    OBVIOUS
  <2>1. CASE UNCHANGED vars
    BY <2>1 DEF vars, ClockInv, TypeOK, OpSound, Followed, Minted, Safe, End
  <2> QED
    BY <2>1, MintStep, SweepRangeStep, SweepRevokeStep, SweepDeleteStep,
       GrantReadStep, GrantRevokeStep, TickStep
    DEF Next
<1> QED
  BY <1>1, <1>2, PTL DEF Spec

(***************************************************************************)
(* Every variable keeps its type; the lifetimes given to Redis are whole   *)
(* numbers of seconds, never negative.                                     *)
(***************************************************************************)
THEOREM TypeCorrect == Spec => []TypeOK
<1>1. ClockInv => TypeOK
  BY DEF ClockInv
<1> QED
  BY <1>1, ClockInvariance, PTL

(***************************************************************************)
(* revoke_grant and revoke_all_in_index hold a token until less than a     *)
(* second before its exp, for any lifetime and resolution of the clock.    *)
(***************************************************************************)
THEOREM HeldUntilLastSecondHolds == Spec => []HeldUntilLastSecond
<1>1. ASSUME ClockInv PROVE HeldUntilLastSecond
  <2> SUFFICES ASSUME NEW j \in Revoked, Accepted(j)
               PROVE  now > (exp[j] - 1) * Hz
    BY DEF HeldUntilLastSecond
  <2>1. j \in Minted /\ Safe(j) /\ ~ (now < until[j])
    BY <1>1 DEF Revoked, Accepted, is_revoked, ClockInv, Followed
  <2>2. /\ exp[j] \in Nat /\ End(j) \in Nat /\ until[j] \in Nat /\ now \in Nat
        /\ Hz \in Nat /\ Hz > 0
    BY <1>1, <2>1, EndType, ConstantsAssumption DEF ClockInv, TypeOK
  <2>3. (exp[j] - 1) * Hz = End(j) - Hz
    BY <2>2 DEF End
  <2>4. now > End(j) - Hz
    BY <2>1, <2>2 DEF Safe
  <2> QED
    BY <2>3, <2>4
<1> QED
  BY <1>1, ClockInvariance, PTL

(***************************************************************************)
(* revoke_all_in_index holds an access token right up to its exp.          *)
(***************************************************************************)
THEOREM SweptHeldUntilExpHolds == Spec => []SweptHeldUntilExp
<1>1. ASSUME ClockInv PROVE SweptHeldUntilExp
  <2> SUFFICES ASSUME NEW j \in Revoked \ Delegated, Accepted(j)
               PROVE  now >= exp[j] * Hz
    BY DEF SweptHeldUntilExp
  <2>1. j \in Minted /\ Safe(j) /\ ~ (now < until[j])
    BY <1>1 DEF Revoked, Accepted, is_revoked, ClockInv, Followed
  <2>2. End(j) \in Nat /\ until[j] \in Nat /\ now \in Nat
    BY <1>1, <2>1, EndType, ConstantsAssumption DEF ClockInv, TypeOK
  <2> QED
    BY <2>1, <2>2 DEF Safe, End
<1> QED
  BY <1>1, ClockInvariance, PTL
=============================================================================
