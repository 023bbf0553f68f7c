----------------------------- MODULE TokenClock -----------------------------
(***************************************************************************)
(* The clock arithmetic of revocation.  A token's exp is a whole second;   *)
(* python-jose takes it as expired once the whole seconds of the clock     *)
(* have passed it; core/revocation.py gives a blacklist entry a lifetime   *)
(* in whole seconds that Redis counts from the moment of the SET.  The     *)
(* other modules take a revocation to last as long as its token; this one  *)
(* shows how far that is true.                                             *)
(*                                                                         *)
(* One agent with one index, agent:{agent_id}:jtis; access tokens and      *)
(* delegation tokens, which revoke_grant blacklists from the grant's own   *)
(* expires_at.  Revocations run one at a time, and what an exchange that   *)
(* overlaps a sweep can lose is the subject of AgentCredentials.           *)
(***************************************************************************)
EXTENDS Naturals, FiniteSetsExt

CONSTANTS
    Jti,        \* bound: tokens that may be minted
    Delegated,  \* those that are delegation tokens
    Hz,         \* clock ticks in a second
    Lifetime,   \* seconds from iat to exp
    MaxTick,    \* bound on the clock
    None

ASSUME ConstantsAssumption ==
    /\ Delegated \subseteq Jti
    /\ Hz \in Nat \ {0}
    /\ Lifetime \in Nat \ {0}
    /\ MaxTick \in Nat /\ MaxTick >= Hz
    /\ None \notin Nat \cup Jti

VARIABLES
    now,    \* the clock, in ticks
    exp,    \* the exp claim of a minted token, in seconds; None before
    index,  \* the members of the sorted set, scored by exp
    until,  \* revoked_jti:{jti}: the tick at which Redis drops the entry
    op,     \* the revocation under way
    target  \* history: the live tokens that revocations were to stop

vars == <<now, exp, index, until, op, target>>

Idle == [kind |-> "idle"]

TypeOK ==
    /\ now \in 0 .. MaxTick
    /\ exp \in [Jti -> Nat \cup {None}]
    /\ index \subseteq Jti
    /\ until \in [Jti -> Nat]
    /\ op \in {Idle}
              \cup [kind : {"sweep"}, at : Nat, members : SUBSET Jti]
              \cup [kind : {"grant"}, at : Nat, jti : Delegated]
    /\ target \subseteq Jti

-----------------------------------------------------------------------------
(***************************************************************************)
(* int(time.time()).                                                       *)
(***************************************************************************)
Second(t) == t \div Hz

Minted == {j \in Jti : exp[j] # None}

(***************************************************************************)
(* jwt.decode raises ExpiredSignatureError when exp < now in whole         *)
(* seconds.                                                                *)
(***************************************************************************)
Expired(j) == exp[j] < Second(now)

is_revoked(j) == now < until[j]

(***************************************************************************)
(* _validate_token lets the token through.                                 *)
(***************************************************************************)
Accepted(j) == j \in Minted /\ ~ is_revoked(j) /\ ~ Expired(j)

\* Mutant: the lifetime is cut to a second.
revoke_jti_Capped(j, ttl) == until' = [until EXCEPT ![j] = now + Min({ttl, 1}) * Hz]

(***************************************************************************)
(* SET revoked_jti:{jti} EX max(ttl, 1).                                   *)
(***************************************************************************)
revoke_jti(j, ttl) == until' = [until EXCEPT ![j] = now + Max({ttl, 1}) * Hz]

\* Mutant: the pruning runs a second ahead.
Pruned_Early(members, e) == {i \in members : e[i] > Second(now) + 1}

(***************************************************************************)
(* ZREMRANGEBYSCORE -inf int(now).                                         *)
(***************************************************************************)
Pruned(members, e) == {i \in members : e[i] > Second(now)}

(***************************************************************************)
(* A token is minted and tracked; tracking prunes the index.               *)
(***************************************************************************)
Mint(j) ==
    /\ op = Idle
    /\ j \notin Minted
    /\ exp' = [exp EXCEPT ![j] = Second(now) + Lifetime]
    /\ index' = Pruned(index \cup {j}, exp')
    /\ UNCHANGED <<now, until, op, target>>

(***************************************************************************)
(* revoke_all_in_index: the time is read once and the members with an exp  *)
(* of at least that second are blacklisted for exp - now.                  *)
(***************************************************************************)
SweepRange ==
    /\ op = Idle
    /\ op' = [kind |-> "sweep", at |-> Second(now),
              members |-> {j \in index : exp[j] >= Second(now)}]
    /\ target' = target \cup {j \in Minted : ~ Expired(j)}
    /\ UNCHANGED <<now, exp, index, until>>

SweepRevoke(j) ==
    /\ op.kind = "sweep"
    /\ j \in op.members
    /\ revoke_jti(j, exp[j] - op.at)
    /\ op' = [op EXCEPT !.members = @ \ {j}]
    /\ UNCHANGED <<now, exp, index, target>>

SweepDelete ==
    /\ op.kind = "sweep"
    /\ op.members = {}
    /\ index' = {}
    /\ op' = Idle
    /\ UNCHANGED <<now, exp, until, target>>

(***************************************************************************)
(* revoke_grant reads the time before its UPDATE ...                       *)
(***************************************************************************)
GrantRead(j) ==
    /\ op = Idle
    /\ j \in Minted \cap Delegated
    /\ op' = [kind |-> "grant", at |-> now, jti |-> j]
    /\ target' = IF Expired(j) THEN target ELSE target \cup {j}
    /\ UNCHANGED <<now, exp, index, until>>

(***************************************************************************)
(* ... and blacklists the token for the whole seconds that were left then, *)
(* if there were any.                                                      *)
(***************************************************************************)
Remaining(j, at) == IF exp[j] * Hz < at THEN 0 ELSE (exp[j] * Hz - at) \div Hz

GrantRevoke ==
    /\ op.kind = "grant"
    /\ IF Remaining(op.jti, op.at) > 0
       THEN revoke_jti(op.jti, Remaining(op.jti, op.at))
       ELSE UNCHANGED until
    /\ op' = Idle
    /\ UNCHANGED <<now, exp, index, target>>

Tick ==
    /\ now < MaxTick
    /\ now' = now + 1
    /\ UNCHANGED <<exp, index, until, op, target>>

Init ==
    /\ now \in 0 .. Hz - 1
    /\ exp = [j \in Jti |-> None]
    /\ index = {}
    /\ until = [j \in Jti |-> 0]
    /\ op = Idle
    /\ target = {}

Next ==
    \/ \E j \in Jti : Mint(j) \/ SweepRevoke(j) \/ GrantRead(j)
    \/ SweepRange
    \/ SweepDelete
    \/ GrantRevoke
    \/ Tick

Spec == Init /\ [][Next]_vars
-----------------------------------------------------------------------------
(***************************************************************************)
(* Tokens whose revocation has returned.                                   *)
(***************************************************************************)
Revoked == IF op = Idle THEN target ELSE {}

(***************************************************************************)
(* A revoked token is refused until less than a second before its exp,     *)
(* however the roundings of the two revocation paths combine, a later      *)
(* revocation overwriting an earlier one's entry included.  From there to  *)
(* the end of the second exp the token may be accepted again.              *)
(***************************************************************************)
HeldUntilLastSecond ==
    \A j \in Revoked : Accepted(j) => now > (exp[j] - 1) * Hz

(***************************************************************************)
(* A revoked access token is refused right up to its exp; neither the      *)
(* pruning of the index nor the rounding of the lifetime lets it go        *)
(* earlier.                                                                *)
(***************************************************************************)
SweptHeldUntilExp ==
    \A j \in Revoked \ Delegated : Accepted(j) => now >= exp[j] * Hz
=============================================================================
