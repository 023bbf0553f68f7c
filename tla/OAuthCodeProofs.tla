-------------------------- MODULE OAuthCodeProofs --------------------------
(***************************************************************************)
(* Proofs about OAuthCode and the TokenClaims it extends, for any agents,  *)
(* operators, scopes, bindings, clients and numbers of tokens, codes and   *)
(* requests in flight.                                                     *)
(*                                                                         *)
(* What a token claims is decided when its request starts and only read    *)
(* when the token is minted, so the invariant says of a request about to   *)
(* mint what the properties say of a token (RequestSound).  It stays true  *)
(* because nothing a request relied on is ever taken back: tokens and      *)
(* grants are written once (Kept).                                         *)
(*                                                                         *)
(* A code is used once because at any time either its key is in Redis or   *)
(* one request has it (SingleUse).                                         *)
(*                                                                         *)
(* A suspended agent gains nothing because every step of the flow trades:  *)
(* a request for a code, a code for a request, a request for the token it  *)
(* minted (AnswersFor).                                                    *)
(***************************************************************************)
EXTENDS OAuthCode, FiniteSetTheorems, TLAPS

(***************************************************************************)
(* What is left of Permitted when the agent has changed since.             *)
(***************************************************************************)
Lawful(d) ==
    /\ d.tool_name # None => <<d.resource, d.tool_name>> \in Reach[d.agent]
    /\ d.scopes \cap TaskScoped # {} => d.tool_name # None

(***************************************************************************)
(* Claims c of a token that descends from one with the claims rc.          *)
(***************************************************************************)
Anchored(c, rc) ==
    /\ c.on_behalf_of # None => Vouches(c.on_behalf_of, rc.agent, c.scopes)
    /\ c.scopes \cap TaskScoped # {} => rc.task \in Reach[rc.agent]

RootClaims(q) ==
    IF q.parent = None THEN q.claims ELSE token[token[q.parent].root].claims

RequestSound(r) ==
    /\ req[r].pc \in {"store", "resolve"} => Lawful(req[r].data)
    /\ req[r].pc = "mint" =>
          /\ req[r].parent # None => req[r].parent \in Minted
          /\ Anchored(req[r].claims, RootClaims(req[r]))
    /\ req[r].pc = "answer" => req[r].jti \in Minted
    /\ req[r].pc \in {"sweep", "swept"} => req[r].members \subseteq Minted

TokenSound(j) ==
    /\ token[j].root \in Minted
    /\ Anchored(token[j].claims, token[token[j].root].claims)

ActiveGranted == \A g \in active : grant[g] # None

CodesLawful ==
    /\ \A c \in Code : codeData[c] # None => Lawful(codeData[c])
    /\ \A c \in live : codeData[c] # None

ClaimsInv ==
    /\ TypeOK
    /\ ActiveGranted
    /\ CodesLawful
    /\ \A r \in Request : RequestSound(r)
    /\ \A j \in Minted : TokenSound(j)

(***************************************************************************)
(* A step takes back no token and no grant.                                *)
(***************************************************************************)
Kept ==
    /\ \A j \in Minted : token'[j] = token[j]
    /\ \A g \in Grant : grant[g] # None => grant'[g] = grant[g]

-----------------------------------------------------------------------------
(***************************************************************************)
(* What pc says about the shape of a request.                              *)
(***************************************************************************)
LEMMA Shape ==
    ASSUME TypeOK, NEW r \in Request
    PROVE  /\ req[r] \in RequestState
           /\ req[r].pc \in {"mint", "answer"} => req[r] \in MintState
           /\ req[r].pc \in {"sweep", "swept"} => req[r] \in SweepState
           /\ req[r].pc = "store" => req[r] \in StoreState
           /\ req[r].pc = "resolve" => req[r] \in ResolveState
BY DEF TypeOK, RequestState, Idle, MintState, SweepState, StoreState, ResolveState

LEMMA TokenShape ==
    ASSUME TypeOK, NEW j \in Minted
    PROVE  /\ token[j] \in TokenRecord(Via)
           /\ token[j].claims \in Claims
           /\ token[j].root \in Jti
BY DEF TypeOK, Minted, TokenRecord

(***************************************************************************)
(* A step that does no more than replace the state of one request.         *)
(***************************************************************************)
LEMMA RequestOnly ==
    ASSUME TypeOK, NEW r \in Request, NEW q \in RequestState,
           req' = [req EXCEPT ![r] = q],
           UNCHANGED <<status, grants, token, delivered, index, blacklist,
                       oauthVars>>
    PROVE  TypeOK'
BY DEF TypeOK, grants, oauthVars, Minted

(***************************************************************************)
(* resolve_on_behalf_of names nobody or somebody who vouches for it.       *)
(***************************************************************************)
LEMMA ResolveVouches ==
    ASSUME TypeOK, ActiveGranted, NEW a \in Agent, NEW s \in SUBSET Scope,
           NEW u \in resolve_on_behalf_of(a, s)
    PROVE  u \in User \cup {None} /\ Vouches(u, a, s)
<1> DEFINE covering == {g \in active : Covers(g, a, s)}
<1>1. CASE covering = {}
  BY <1>1, ClaimsAssumption DEF resolve_on_behalf_of, Vouches
<1>2. CASE covering # {}
  <2>1. PICK g \in covering : u = grant[g].user
    BY <1>2 DEF resolve_on_behalf_of
  <2>2. g \in Grant /\ grant[g] \in GrantRow /\ Covers(g, a, s)
    BY <2>1 DEF TypeOK, ActiveGranted
  <2>3. QED
    BY <2>1, <2>2, ClaimsAssumption DEF Vouches, Covers, GrantRow, TypeOK, ActiveGranted
<1> QED
  BY <1>1, <1>2

(***************************************************************************)
(* The claims a code stands for are claims.                                *)
(***************************************************************************)
LEMMA RedeemedType ==
    ASSUME NEW d \in CodeData, Lawful(d), NEW u \in User \cup {None}
    PROVE  /\ RedeemedClaims(d, u) \in Claims
           /\ d.tool_name # None =>
                 /\ <<d.resource, d.tool_name>> \in Call
                 /\ <<d.resource, d.tool_name>> # None
<1>1. d.tool_name # None => <<d.resource, d.tool_name>> \in Server \X Tool
  BY ClaimsAssumption DEF Lawful, CodeData
<1>2. d.tool_name # None => <<d.resource, d.tool_name>> # None
  BY <1>1, ClaimsAssumption DEF Call
<1> QED
  BY <1>1, <1>2 DEF RedeemedClaims, Claims, CodeData, Call, Converted

(***************************************************************************)
(* Tokens and grants are written once.                                     *)
(***************************************************************************)
LEMMA NothingTakenBack ==
    ASSUME TypeOK, [Next]_vars
    PROVE  Kept
<1>1. ASSUME UNCHANGED <<token, grant>> PROVE Kept
  BY <1>1 DEF Kept
<1>2. ASSUME NEW r \in Request, NEW j \in Jti, Mint(r, j) PROVE Kept
  BY <1>2 DEF Mint, Kept, grants, Minted, TypeOK
<1>3. ASSUME NEW g \in Grant, NEW row \in GrantRequest, GrantOnBehalfOf(g, row)
      PROVE  Kept
  BY <1>3 DEF GrantOnBehalfOf, Kept, TypeOK
<1> QED
  BY <1>1, <1>2, <1>3
  DEF Next, vars, claimVars, grants, ClaimsNext, ClaimsStep, Exchange, Delegate,
      Answer, RevokeOnBehalfOf, GrantLapses, Suspend, SweepIndex, CommitSuspend,
      Abort, register_client, Authorize, AuthorizeStore, CodeExpires, Take,
      Resolve

LEMMA MintedGrows ==
    ASSUME TypeOK, Kept
    PROVE  Minted \subseteq Minted'
BY DEF Kept, Minted

LEMMA VouchesStays ==
    ASSUME Kept, NEW u, NEW a, NEW s, Vouches(u, a, s)
    PROVE  Vouches(u, a, s)'
BY DEF Kept, Vouches

LEMMA AnchoredStays ==
    ASSUME Kept, NEW c, NEW rc, Anchored(c, rc)
    PROVE  Anchored(c, rc)'
BY VouchesStays DEF Anchored

(***************************************************************************)
(* A request that a step leaves alone stays sound, and so does every       *)
(* token there was.                                                        *)
(***************************************************************************)
LEMMA TokensStaySound ==
    ASSUME ClaimsInv, Kept, NEW j \in Minted
    PROVE  TokenSound(j)'
<1>1. /\ token[j].root \in Minted
      /\ Anchored(token[j].claims, token[token[j].root].claims)
  BY DEF ClaimsInv, TokenSound
<1>2. token'[j] = token[j] /\ token'[token[j].root] = token[token[j].root]
  BY <1>1 DEF Kept
<1>3. Anchored(token[j].claims, token[token[j].root].claims)'
  BY <1>1, <1>2, AnchoredStays
<1>4. token[j].root \in Minted'
  BY <1>1, MintedGrows DEF ClaimsInv
<1> QED
  BY <1>2, <1>3, <1>4 DEF TokenSound

LEMMA RequestStaysSound ==
    ASSUME ClaimsInv, Kept, NEW r \in Request, req'[r] = req[r]
    PROVE  RequestSound(r)'
<1>1. RequestSound(r) /\ Minted \subseteq Minted'
  BY MintedGrows DEF ClaimsInv
<1>2. ASSUME req[r].pc = "mint"
      PROVE  Anchored(req[r].claims, RootClaims(req[r]))'
  <2>1. Anchored(req[r].claims, RootClaims(req[r]))
    BY <1>1, <1>2 DEF RequestSound
  <2>2. RootClaims(req[r])' = RootClaims(req[r])
    <3>1. CASE req[r].parent = None
      BY <3>1 DEF RootClaims
    <3>2. CASE req[r].parent # None
      <4>1. req[r].parent \in Minted
        BY <1>1, <1>2, <3>2 DEF RequestSound
      <4>2. token[req[r].parent].root \in Minted
        BY <4>1 DEF ClaimsInv, TokenSound
      <4> QED
        BY <4>1, <4>2 DEF RootClaims, Kept
    <3> QED
      BY <3>1, <3>2
  <2> QED
    BY <2>1, <2>2, AnchoredStays
<1>3. req[r].pc \in {"store", "resolve"} => Lawful(req[r].data)'
  BY <1>1 DEF RequestSound, Lawful
<1> QED
  BY <1>1, <1>2, <1>3 DEF RequestSound

-----------------------------------------------------------------------------
(***************************************************************************)
(* The claims of a token about to be minted are sound when its request     *)
(* starts: for an exchange and a redemption because the human was just     *)
(* resolved and the task just checked, for a delegation because it narrows *)
(* a sound token.                                                          *)
(***************************************************************************)
LEMMA ExchangeSound ==
    ASSUME ClaimsInv, NEW r \in Request, NEW a \in Agent,
           NEW i \in Call \cup {None}, Exchange(r, a, i)
    PROVE  /\ req'[r] \in MintState
           /\ req'[r].pc = "mint" /\ req'[r].parent = None
           /\ req'[r].op # "oauth" /\ req'[r].via = None
           /\ Anchored(req'[r].claims, req'[r].claims)
<1>1. PICK u \in resolve_on_behalf_of(a, KeyScopes[a]) :
          req' = [req EXCEPT ![r] =
            Minting("exchange",
                    [agent |-> a, scopes |-> Converted(KeyScopes[a]),
                     resource |-> None, task |-> i, on_behalf_of |-> u],
                    None, None)]
  BY DEF Exchange
<1> DEFINE c == [agent |-> a, scopes |-> Converted(KeyScopes[a]),
                 resource |-> None, task |-> i, on_behalf_of |-> u]
<1>2. a \in KeyHolder /\ KeyScopes[a] \in SUBSET Scope
  BY ClaimsAssumption DEF Exchange
<1>3. u \in User \cup {None} /\ Vouches(u, a, KeyScopes[a])
  BY <1>1, <1>2, ResolveVouches DEF ClaimsInv
<1>4. c \in Claims
  BY <1>2, <1>3 DEF Claims, Converted
<1>5. KeyScopes[a] \cap TaskScoped # {} => i \in Reach[a]
  BY DEF Exchange
<1>6. req'[r] = Minting("exchange", c, None, None)
  BY <1>1 DEF ClaimsInv, TypeOK
<1>7. Anchored(c, c)
  BY <1>3, <1>5 DEF Anchored, Vouches, Converted
<1> QED
  BY <1>4, <1>6, <1>7 DEF Minting, MintState

LEMMA DelegateSound ==
    ASSUME ClaimsInv, NEW r \in Request, NEW j \in Minted, NEW b \in Agent,
           NEW s \in SUBSET Scope, Delegate(r, j, b, s)
    PROVE  /\ req'[r] \in MintState
           /\ req'[r].pc = "mint" /\ req'[r].parent = j
           /\ req'[r].op # "oauth" /\ req'[r].via = None
           /\ Anchored(req'[r].claims, token[token[j].root].claims)
<1> DEFINE t == token[j].claims
           c == DelegatedClaims(t, b, s)
<1>1. t \in Claims /\ Anchored(t, token[token[j].root].claims) /\ j \in Jti
  BY TokenShape DEF ClaimsInv, TokenSound, Minted
<1>2. s \subseteq t.scopes
  BY DEF Delegate, Ceiling
<1>3. c \in Claims
  BY <1>1 DEF DelegatedClaims, Claims, Converted
<1>4. req'[r] = Minting("delegate", c, j, None)
  BY DEF Delegate, ClaimsInv, TypeOK
<1>5. Anchored(c, token[token[j].root].claims)
  BY <1>1, <1>2 DEF Anchored, DelegatedClaims, Vouches, Converted
<1> QED
  BY <1>1, <1>3, <1>4, <1>5 DEF Minting, MintState

LEMMA ResolveSound ==
    ASSUME ClaimsInv, NEW r \in Request, Resolve(r)
    PROVE  /\ req'[r] \in MintState
           /\ req'[r].pc = "mint" /\ req'[r].parent = None
           /\ Anchored(req'[r].claims, req'[r].claims)
           /\ \E u \in User \cup {None} :
                 req'[r] = Minting("oauth", RedeemedClaims(req[r].data, u),
                                   None, req[r].via)
<1> DEFINE d == req[r].data
<1>1. req[r] \in ResolveState /\ d \in CodeData /\ Lawful(d)
  BY Shape DEF Resolve, ClaimsInv, RequestSound, ResolveState
<1>2. PICK u \in resolve_on_behalf_of(d.agent, d.scopes) :
          req' = [req EXCEPT ![r] =
                    Minting("oauth", RedeemedClaims(d, u), None, req[r].via)]
  BY DEF Resolve
<1> DEFINE c == RedeemedClaims(d, u)
<1>3. u \in User \cup {None} /\ Vouches(u, d.agent, d.scopes)
  BY <1>1, <1>2, ResolveVouches DEF ClaimsInv, CodeData
<1>4. c \in Claims
  BY <1>1, <1>3, RedeemedType
<1>5. Anchored(c, c)
  BY <1>1, <1>3 DEF Anchored, RedeemedClaims, Lawful, Vouches, Converted
<1>6. req'[r] = Minting("oauth", c, None, req[r].via)
  BY <1>2 DEF ClaimsInv, TypeOK
<1> QED
  BY <1>1, <1>3, <1>4, <1>5, <1>6 DEF Minting, MintState, ResolveState

(***************************************************************************)
(* What Mint writes is what its request claimed.                           *)
(***************************************************************************)
LEMMA MintWrites ==
    ASSUME ClaimsInv, NEW r \in Request, NEW j \in Jti, Mint(r, j)
    PROVE  /\ req[r] \in MintState
           /\ j \in Minted' /\ Minted' = Minted \cup {j}
           /\ token'[j] \in TokenRecord(Via)
           /\ token'[j].claims = req[r].claims /\ token'[j].via = req[r].via
           /\ req[r].parent = None => token'[j].root = j
           /\ req[r].parent # None =>
                 /\ req[r].parent \in Minted
                 /\ token'[j].root = token[req[r].parent].root
                 /\ token'[j].root \in Minted
           /\ \A k \in Jti \ {j} : token'[k] = token[k]
<1>1. req[r] \in MintState /\ req[r].pc = "mint"
  BY Shape DEF Mint, ClaimsInv
<1>2. req[r].parent # None =>
         /\ req[r].parent \in Minted
         /\ token[req[r].parent].root \in Minted
  BY <1>1 DEF ClaimsInv, RequestSound, TokenSound
<1>3. /\ token' = [token EXCEPT ![j] =
            [claims |-> req[r].claims,
             root   |-> IF req[r].parent = None THEN j
                        ELSE token[req[r].parent].root,
             via    |-> req[r].via]]
      /\ j \notin Minted
  BY DEF Mint
<1>4. token \in [Jti -> TokenRecord(Via) \cup {None}]
  BY DEF ClaimsInv, TypeOK
<1>5. token'[j] = [claims |-> req[r].claims,
                   root   |-> IF req[r].parent = None THEN j
                              ELSE token[req[r].parent].root,
                   via    |-> req[r].via]
  BY <1>3, <1>4
<1>6. token'[j] \in TokenRecord(Via)
  BY <1>1, <1>2, <1>5 DEF TokenRecord, MintState, Minted
<1>7. token'[j] # None
  BY <1>6, OAuthAssumption
<1> QED
  BY <1>1, <1>2, <1>3, <1>4, <1>5, <1>6, <1>7 DEF Minted

(***************************************************************************)
(* Every step keeps the variables in their types.                          *)
(***************************************************************************)
LEMMA TypePreserved ==
    ASSUME ClaimsInv, [Next]_vars
    PROVE  TypeOK'
<1> USE DEF ClaimsInv
<1> Idle \in RequestState
  BY DEF RequestState
<1>1. CASE UNCHANGED vars
  BY <1>1 DEF vars, claimVars, grants, oauthVars, TypeOK, Minted
<1>2. ASSUME NEW r \in Request, NEW a \in Agent, NEW i \in Call \cup {None},
             Exchange(r, a, i), UNCHANGED oauthVars
      PROVE  TypeOK'
  <2>1. req'[r] \in RequestState /\ req' = [req EXCEPT ![r] = req'[r]]
    BY <1>2, ExchangeSound DEF Exchange, RequestState, TypeOK
  <2> QED
    BY <1>2, <2>1, RequestOnly DEF Exchange
<1>3. ASSUME NEW r \in Request, NEW j \in Minted, NEW b \in Agent,
             NEW s \in SUBSET Scope, Delegate(r, j, b, s), UNCHANGED oauthVars
      PROVE  TypeOK'
  <2>1. req'[r] \in RequestState /\ req' = [req EXCEPT ![r] = req'[r]]
    BY <1>3, DelegateSound DEF Delegate, RequestState, TypeOK
  <2> QED
    BY <1>3, <2>1, RequestOnly DEF Delegate
<1>4. ASSUME NEW r \in Request, NEW j \in Jti, Mint(r, j), UNCHANGED oauthVars
      PROVE  TypeOK'
  <2>1. /\ req[r] \in MintState
        /\ Minted' = Minted \cup {j}
        /\ token'[j] \in TokenRecord(Via)
    BY <1>4, MintWrites
  <2>2. token' \in [Jti -> TokenRecord(Via) \cup {None}]
    BY <1>4, <2>1 DEF Mint, TypeOK
  <2>3. req' \in [Request -> RequestState]
    <3>1. [req[r] EXCEPT !.pc = "answer", !.jti = j] \in MintState
      BY <2>1 DEF MintState
    <3>2. req' = [req EXCEPT ![r] = [req[r] EXCEPT !.pc = "answer", !.jti = j]]
      BY <1>4 DEF Mint, TypeOK
    <3> QED
      BY <3>1, <3>2 DEF RequestState, TypeOK
  <2>4. index' \in [Agent -> SUBSET Minted']
    BY <1>4, <2>1 DEF Mint, TypeOK
  <2> QED
    BY <1>4, <2>1, <2>2, <2>3, <2>4 DEF Mint, grants, oauthVars, TypeOK
<1>5. ASSUME NEW r \in Request, Answer(r), UNCHANGED oauthVars PROVE TypeOK'
  <2>1. req[r].jti \in Minted
    BY <1>5 DEF Answer, RequestSound
  <2> QED
    BY <1>5, <2>1 DEF Answer, grants, oauthVars, Minted, TypeOK
<1>6. ASSUME NEW r \in Request, NEW a \in Operated, Suspend(r, a),
             UNCHANGED oauthVars
      PROVE  TypeOK'
  <2>1. [pc |-> "sweep", agent |-> a, members |-> index[a]] \in RequestState
    BY ClaimsAssumption DEF RequestState, SweepState, TypeOK, Minted
  <2> QED
    BY <1>6, <2>1, RequestOnly DEF Suspend
<1>7. ASSUME NEW r \in Request, SweepIndex(r), UNCHANGED oauthVars
      PROVE  TypeOK'
  <2>1. req[r] \in SweepState /\ req[r].members \subseteq Minted
    BY <1>7, Shape DEF SweepIndex, RequestSound
  <2>2. [req[r] EXCEPT !.pc = "swept"] \in RequestState
    BY <2>1 DEF SweepState, RequestState
  <2> QED
    BY <1>7, <2>1, <2>2 DEF SweepIndex, grants, oauthVars, Minted, TypeOK
<1>8. ASSUME NEW r \in Request, CommitSuspend(r), UNCHANGED oauthVars
      PROVE  TypeOK'
  BY <1>8 DEF CommitSuspend, grants, oauthVars, Minted, TypeOK
<1>9. ASSUME NEW r \in Request, Abort(r), UNCHANGED oauthVars PROVE TypeOK'
  BY <1>9, RequestOnly DEF Abort
<1>10. ASSUME NEW g \in Grant, NEW row \in GrantRequest,
              GrantOnBehalfOf(g, row), UNCHANGED oauthVars
       PROVE  TypeOK'
  BY <1>10, ClaimsAssumption DEF GrantOnBehalfOf, oauthVars, Minted, TypeOK
<1>11. ASSUME NEW g \in Grant, RevokeOnBehalfOf(g) \/ GrantLapses(g),
              UNCHANGED oauthVars
       PROVE  TypeOK'
  BY <1>11 DEF RevokeOnBehalfOf, GrantLapses, oauthVars, Minted, TypeOK
<1>12. ASSUME NEW c \in Client, NEW type, NEW uris \in SUBSET Uri,
              register_client(c, type, uris)
       PROVE  TypeOK'
  BY <1>12 DEF register_client, claimVars, grants, Minted, TypeOK
<1>13. ASSUME NEW r \in Request, NEW d \in AuthorizeRequest, Authorize(r, d)
       PROVE  TypeOK'
  <2>1. [pc |-> "store", data |-> d] \in RequestState
    BY OAuthAssumption DEF RequestState, StoreState
  <2> QED
    BY <1>13, <2>1, RequestOnly DEF Authorize
<1>14. ASSUME NEW r \in Request, NEW c \in Code, AuthorizeStore(r, c)
       PROVE  TypeOK'
  <2>1. req[r].data \in CodeData
    BY <1>14, Shape DEF AuthorizeStore, StoreState
  <2> QED
    BY <1>14, <2>1 DEF AuthorizeStore, grants, Minted, TypeOK
<1>15. ASSUME NEW r \in Request, NEW c \in Code, NEW p \in Presentation,
              Take(r, c, p)
       PROVE  TypeOK'
  <2> DEFINE q == [pc |-> "resolve", data |-> codeData[c],
                   via |-> [code |-> c, presented |-> p]]
  <2>1. q \in RequestState
    BY <1>15 DEF CodesLawful, Take, RequestState, ResolveState, Via, TypeOK
  <2>2. req' \in [Request -> RequestState]
    BY <1>15, <2>1 DEF Take, TypeOK
  <2> QED
    BY <1>15, <2>2 DEF Take, GetDel, grants, Minted, TypeOK
<1>16. ASSUME NEW r \in Request, Resolve(r) PROVE TypeOK'
  <2>1. req'[r] \in RequestState /\ req' = [req EXCEPT ![r] = req'[r]]
    BY <1>16, ResolveSound DEF Resolve, RequestState, TypeOK
  <2> QED
    BY <1>16, <2>1, RequestOnly DEF Resolve
<1>17. ASSUME NEW c \in Code, CodeExpires(c) PROVE TypeOK'
  BY <1>17 DEF CodeExpires, claimVars, grants, Minted, TypeOK
<1> QED
  BY <1>1, <1>2, <1>3, <1>4, <1>5, <1>6, <1>7, <1>8, <1>9, <1>10, <1>11,
     <1>12, <1>13, <1>14, <1>15, <1>16, <1>17
  DEF Next, ClaimsNext, ClaimsStep

(***************************************************************************)
(* Every step keeps what the invariant says of requests, of tokens, and of *)
(* grants and codes.                                                       *)
(***************************************************************************)
LEMMA RequestsPreserved ==
    ASSUME ClaimsInv, [Next]_vars, Kept, NEW x \in Request
    PROVE  RequestSound(x)'
<1> USE DEF ClaimsInv
<1>0. Minted \subseteq Minted'
  BY MintedGrows
<1>1. ASSUME req'[x] = Idle PROVE RequestSound(x)'
  BY <1>1 DEF Idle, RequestSound
<1>2. ASSUME req'[x] = req[x] PROVE RequestSound(x)'
  BY <1>2, RequestStaysSound
<1>3. ASSUME req'[x].pc = "mint", req'[x].parent = None,
             Anchored(req'[x].claims, req'[x].claims)
      PROVE  RequestSound(x)'
  <2>1. PICK c : c = req'[x].claims
    OBVIOUS
  <2>2. Anchored(c, c)'
    BY <1>3, <2>1, AnchoredStays
  <2> QED
    BY <1>3, <2>1, <2>2 DEF RequestSound, RootClaims
<1>4. ASSUME NEW j \in Minted, NEW b \in Agent, NEW s \in SUBSET Scope,
             Delegate(x, j, b, s)
      PROVE  RequestSound(x)'
  <2>1. /\ req'[x].pc = "mint" /\ req'[x].parent = j
        /\ Anchored(req'[x].claims, token[token[j].root].claims)
    BY <1>4, DelegateSound
  <2>2. j # None /\ token' = token /\ j \in Minted'
    BY <1>0, <1>4, ClaimsAssumption DEF Delegate, Minted
  <2>3. PICK c, rc : c = req'[x].claims /\ rc = token[token[j].root].claims
    OBVIOUS
  <2>4. Anchored(c, rc)'
    BY <2>1, <2>3, AnchoredStays
  <2> QED
    BY <2>1, <2>2, <2>3, <2>4 DEF RequestSound, RootClaims
<1>5. ASSUME NEW j \in Jti, Mint(x, j) PROVE RequestSound(x)'
  <2>1. j \in Minted' /\ req[x] \in MintState
    BY <1>5, MintWrites
  <2>2. req'[x].pc = "answer" /\ req'[x].jti = j
    BY <1>5, <2>1 DEF Mint, TypeOK, MintState
  <2> QED
    BY <2>1, <2>2 DEF RequestSound
<1>6. ASSUME NEW a \in Operated, Suspend(x, a) PROVE RequestSound(x)'
  <2>1. req'[x] = [pc |-> "sweep", agent |-> a, members |-> index[a]]
    BY <1>6 DEF Suspend, TypeOK
  <2>2. index[a] \subseteq Minted'
    BY <1>0, ClaimsAssumption DEF TypeOK
  <2> QED
    BY <2>1, <2>2 DEF RequestSound
<1>7. ASSUME SweepIndex(x) PROVE RequestSound(x)'
  <2>1. req[x] \in SweepState /\ req[x].members \subseteq Minted
    BY <1>7, Shape DEF SweepIndex, RequestSound
  <2>2. req'[x].pc = "swept" /\ req'[x].members = req[x].members
    BY <1>7, <2>1 DEF SweepIndex, TypeOK, SweepState
  <2> QED
    BY <1>0, <2>1, <2>2 DEF RequestSound
<1>8. ASSUME NEW d \in AuthorizeRequest, Authorize(x, d) PROVE RequestSound(x)'
  <2>1. req'[x] = [pc |-> "store", data |-> d]
    BY <1>8 DEF Authorize, TypeOK
  <2> QED
    BY <1>8, <2>1 DEF Authorize, Permitted, Lawful, RequestSound
<1>9. ASSUME NEW c \in Code, NEW p \in Presentation, Take(x, c, p)
      PROVE  RequestSound(x)'
  <2>1. Lawful(codeData[c])
    BY <1>9 DEF Take, CodesLawful, TypeOK
  <2>2. CASE Matches(p, codeData[c])
    <3>1. req'[x] = [pc |-> "resolve", data |-> codeData[c],
                     via |-> [code |-> c, presented |-> p]]
      BY <1>9, <2>2 DEF Take, TypeOK
    <3> QED
      BY <2>1, <3>1 DEF RequestSound, Lawful
  <2>3. CASE ~ Matches(p, codeData[c])
    BY <1>2, <1>9, <2>3 DEF Take
  <2> QED
    BY <2>2, <2>3
<1>10. CASE UNCHANGED req
  BY <1>2, <1>10
<1>11. ASSUME NEW r \in Request, ClaimsStep(r) PROVE RequestSound(x)'
  <2>1. CASE x # r
    <3>1. req'[x] = req[x]
      BY <1>11, <2>1
      DEF ClaimsStep, Exchange, Delegate, Mint, Answer, Suspend, SweepIndex,
          CommitSuspend, Abort, TypeOK
    <3> QED
      BY <1>2, <3>1
  <2>2. CASE x = r
    <3>1. ASSUME NEW a \in Agent, NEW i \in Call \cup {None}, Exchange(x, a, i)
          PROVE  RequestSound(x)'
      BY <1>3, <3>1, ExchangeSound
    <3>2. ASSUME Answer(x) \/ CommitSuspend(x) \/ Abort(x)
          PROVE  RequestSound(x)'
      BY <1>1, <3>2 DEF Answer, CommitSuspend, Abort, TypeOK
    <3> QED
      BY <1>4, <1>5, <1>6, <1>7, <1>11, <2>2, <3>1, <3>2 DEF ClaimsStep
  <2> QED
    BY <2>1, <2>2
<1>12. ASSUME NEW r \in Request,
              \/ \E d \in AuthorizeRequest : Authorize(r, d)
              \/ \E c \in Code : AuthorizeStore(r, c)
              \/ \E c \in Code, p \in Presentation : Take(r, c, p)
              \/ Resolve(r)
       PROVE  RequestSound(x)'
  <2>1. CASE x # r
    <3>1. req'[x] = req[x]
      BY <1>12, <2>1 DEF Authorize, AuthorizeStore, Take, Resolve, TypeOK
    <3> QED
      BY <1>2, <3>1
  <2>2. CASE x = r
    <3>1. ASSUME NEW c \in Code, AuthorizeStore(x, c) PROVE RequestSound(x)'
      BY <1>1, <3>1 DEF AuthorizeStore, TypeOK
    <3>2. ASSUME Resolve(x) PROVE RequestSound(x)'
      BY <1>3, <3>2, ResolveSound
    <3> QED
      BY <1>8, <1>9, <1>12, <2>2, <3>1, <3>2
  <2> QED
    BY <2>1, <2>2
<1> QED
  BY <1>10, <1>11, <1>12
  DEF Next, vars, claimVars, ClaimsNext, GrantOnBehalfOf, RevokeOnBehalfOf,
      GrantLapses, register_client, CodeExpires

LEMMA TokensPreserved ==
    ASSUME ClaimsInv, [Next]_vars, Kept, NEW k \in Minted'
    PROVE  TokenSound(k)'
<1>1. CASE k \in Minted
  BY <1>1, TokensStaySound
<1>2. ASSUME NEW r \in Request, NEW j \in Jti, Mint(r, j), k = j
      PROVE  TokenSound(k)'
  <2>1. /\ j \in Minted'
        /\ token'[j].claims = req[r].claims
        /\ req[r].parent = None => token'[j].root = j
        /\ req[r].parent # None =>
              /\ token'[j].root = token[req[r].parent].root
              /\ token'[j].root \in Minted
    BY <1>2, MintWrites
  <2>2. Anchored(req[r].claims, RootClaims(req[r]))
    BY <1>2 DEF Mint, ClaimsInv, RequestSound
  <2>3. PICK c, rc : c = req[r].claims /\ rc = RootClaims(req[r])
    OBVIOUS
  <2>4. Anchored(c, rc)'
    BY <2>2, <2>3, AnchoredStays
  <2>5. token'[token'[j].root].claims = rc
    BY <2>1, <2>3 DEF RootClaims, Kept
  <2>6. token'[j].root \in Minted'
    BY <2>1, MintedGrows DEF ClaimsInv
  <2> QED
    BY <1>2, <2>1, <2>3, <2>4, <2>5, <2>6 DEF TokenSound
<1>3. ASSUME NEW r \in Request, NEW j \in Jti, Mint(r, j)
      PROVE  TokenSound(k)'
  BY <1>1, <1>2, <1>3, MintWrites
<1>4. CASE UNCHANGED token
  BY <1>1, <1>4 DEF Minted
<1> QED
  BY <1>3, <1>4
  DEF Next, vars, claimVars, ClaimsNext, ClaimsStep, Exchange, Delegate,
      Answer, GrantOnBehalfOf, RevokeOnBehalfOf, GrantLapses, Suspend,
      SweepIndex, CommitSuspend, Abort, register_client, Authorize,
      AuthorizeStore, CodeExpires, Take, Resolve

LEMMA GrantsAndCodesPreserved ==
    ASSUME ClaimsInv, [Next]_vars
    PROVE  ActiveGranted' /\ CodesLawful'
<1> USE DEF ClaimsInv
<1>1. ASSUME UNCHANGED grants PROVE ActiveGranted'
  BY <1>1 DEF grants, ActiveGranted
<1>2. ASSUME UNCHANGED codeData, live' \subseteq live PROVE CodesLawful'
  BY <1>2 DEF CodesLawful, Lawful
<1>3. ASSUME NEW g \in Grant, NEW row \in GrantRequest, GrantOnBehalfOf(g, row)
      PROVE  ActiveGranted'
  BY <1>3, ClaimsAssumption DEF GrantOnBehalfOf, ActiveGranted, TypeOK
<1>4. ASSUME NEW g \in Grant, RevokeOnBehalfOf(g) \/ GrantLapses(g)
      PROVE  ActiveGranted'
  BY <1>4 DEF RevokeOnBehalfOf, GrantLapses, ActiveGranted
<1>5. ASSUME NEW r \in Request, NEW c \in Code, AuthorizeStore(r, c)
      PROVE  CodesLawful'
  <2>1. req[r].data \in CodeData /\ req[r].data # None /\ Lawful(req[r].data)
    BY <1>5, Shape, OAuthAssumption DEF AuthorizeStore, StoreState, RequestSound
  <2> QED
    BY <1>5, <2>1 DEF AuthorizeStore, CodesLawful, Lawful, TypeOK
<1>6. ActiveGranted'
  BY <1>1, <1>3, <1>4
  DEF Next, vars, claimVars, ClaimsNext, ClaimsStep, Exchange, Delegate, Mint,
      Answer, Suspend, SweepIndex, CommitSuspend, Abort, register_client,
      Authorize, AuthorizeStore, CodeExpires, Take, Resolve
<1>7. CodesLawful'
  BY <1>2, <1>5
  DEF Next, vars, oauthVars, register_client, Authorize, CodeExpires, Take,
      GetDel, Resolve
<1> QED
  BY <1>6, <1>7

-----------------------------------------------------------------------------
(***************************************************************************)
(* The invariant: whatever was minted, and whatever is about to be, is     *)
(* what the code promises of a token.                                      *)
(***************************************************************************)
THEOREM ClaimsInvariance == Spec => []ClaimsInv
<1>1. Init => ClaimsInv
  <2> SUFFICES ASSUME Init PROVE ClaimsInv
    OBVIOUS
  <2>1. Minted = {}
    BY DEF Init, ClaimsInit, Minted
  <2>2. TypeOK
    BY <2>1 DEF Init, ClaimsInit, TypeOK, RequestState
  <2>3. \A r \in Request : RequestSound(r)
    BY DEF Init, ClaimsInit, Idle, RequestSound
  <2>4. ActiveGranted /\ CodesLawful
    BY DEF Init, ClaimsInit, ActiveGranted, CodesLawful
  <2> QED
    BY <2>1, <2>2, <2>3, <2>4 DEF ClaimsInv
<1>2. ClaimsInv /\ [Next]_vars => ClaimsInv'
  <2> SUFFICES ASSUME ClaimsInv, [Next]_vars PROVE ClaimsInv'
    OBVIOUS
  <2>1. Kept
    BY NothingTakenBack DEF ClaimsInv
  <2>2. TypeOK' /\ ActiveGranted' /\ CodesLawful'
    BY TypePreserved, GrantsAndCodesPreserved
  <2>3. \A r \in Request : RequestSound(r)'
    BY <2>1, RequestsPreserved
  <2>4. \A j \in Minted' : TokenSound(j)'
    BY <2>1, TokensPreserved
  <2> QED
    BY <2>2, <2>3, <2>4 DEF ClaimsInv
<1> QED
  BY <1>1, <1>2, PTL DEF Spec

(***************************************************************************)
(* Every variable keeps its type: a token is bound to a whole call or to   *)
(* none, the index and the blacklist hold minted tokens only.              *)
(***************************************************************************)
THEOREM TypeCorrect == Spec => []TypeOK
<1>1. ClaimsInv => TypeOK
  BY DEF ClaimsInv
<1> QED
  BY <1>1, ClaimsInvariance, PTL

(***************************************************************************)
(* The human a token names activated the agent it descends from, or        *)
(* vouched for all its scopes, whatever happened to grants and agents in   *)
(* between (resolve_on_behalf_of, create_delegation_token).                *)
(***************************************************************************)
THEOREM HumanAnchoredHolds == Spec => []HumanAnchored
<1>1. ClaimsInv => HumanAnchored
  BY DEF ClaimsInv, TokenSound, Anchored, HumanAnchored
<1> QED
  BY <1>1, ClaimsInvariance, PTL

(***************************************************************************)
(* A scope that requires task-scoping is never in a token whose root was   *)
(* not bound to one call its agent can make, however it was minted and     *)
(* delegated.                                                              *)
(***************************************************************************)
THEOREM TaskScopedRootsHolds == Spec => []TaskScopedRoots
<1>1. ClaimsInv => TaskScopedRoots
  BY DEF ClaimsInv, TokenSound, Anchored, TaskScopedRoots
<1> QED
  BY <1>1, ClaimsInvariance, PTL

-----------------------------------------------------------------------------
(***************************************************************************)
(* A request that has taken a code holds the consent the code stands for.  *)
(***************************************************************************)
HoldsConsent(r) ==
    /\ req[r].pc = "resolve" =>
          /\ codeData[req[r].via.code] = req[r].data
          /\ Matches(req[r].via.presented, req[r].data)
    /\ req[r].pc = "mint" =>
          IF req[r].op = "oauth"
          THEN /\ req[r].via # None
               /\ Understood(codeData[req[r].via.code]) = Amounts(req[r])
               /\ codeData[req[r].via.code] # None
          ELSE req[r].via = None

(***************************************************************************)
(* Either the key is there or one request has the code.                    *)
(***************************************************************************)
SingleUse ==
    /\ \A r \in Request : HoldsConsent(r)
    /\ \A r \in Request, c \in Code : Holds(r, c) => c \notin live
    /\ \A r, s \in Request, c \in Code : Holds(r, c) /\ Holds(s, c) => r = s

CodesKept == \A c \in Code : codeData[c] # None => codeData'[c] = codeData[c]

(***************************************************************************)
(* What is stored for a code is never written again.                       *)
(***************************************************************************)
LEMMA CodesWrittenOnce ==
    ASSUME TypeOK, [Next]_vars
    PROVE  CodesKept
<1>1. ASSUME UNCHANGED codeData PROVE CodesKept
  BY <1>1 DEF CodesKept
<1>2. ASSUME NEW r \in Request, NEW c \in Code, AuthorizeStore(r, c)
      PROVE  CodesKept
  BY <1>2 DEF AuthorizeStore, CodesKept, TypeOK
<1> QED
  BY <1>1, <1>2
  DEF Next, vars, oauthVars, register_client, Authorize, CodeExpires, Take,
      Resolve

(***************************************************************************)
(* A consent, its scopes converted, is one.                                *)
(***************************************************************************)
LEMMA UnderstoodType ==
    ASSUME NEW d \in CodeData
    PROVE  /\ Understood(d) \in CodeData
           /\ Understood(d) = [client_id |-> d.client_id,
                               redirect_uri |-> d.redirect_uri,
                               code_challenge |-> d.code_challenge,
                               agent |-> d.agent, scopes |-> Converted(d.scopes),
                               resource |-> d.resource, tool_name |-> d.tool_name]
BY DEF Understood, Converted, CodeData

(***************************************************************************)
(* The claims a code is redeemed for amount to the consent it stands for.  *)
(***************************************************************************)
LEMMA RedeemedAmounts ==
    ASSUME NEW d \in CodeData, Lawful(d), NEW u \in User \cup {None},
           NEW v \in Via, Matches(v.presented, d),
           NEW q, q = Minting("oauth", RedeemedClaims(d, u), None, v)
    PROVE  Amounts(q) = Understood(d)
<1> DEFINE tool == IF q.claims.task = None THEN None ELSE q.claims.task[2]
<1>1. q.via = v /\ q.claims = RedeemedClaims(d, u)
  BY DEF Minting
<1>2. tool = d.tool_name
  BY <1>1, RedeemedType DEF RedeemedClaims
<1>3. /\ q.claims.agent = d.agent /\ q.claims.scopes = Converted(d.scopes)
      /\ q.claims.resource = d.resource
  BY <1>1 DEF RedeemedClaims
<1>4. /\ v.presented.client_id = d.client_id
      /\ v.presented.redirect_uri = d.redirect_uri
      /\ S256(v.presented.verifier) = d.code_challenge
  BY DEF Matches
<1>5. Amounts(q) = [client_id |-> d.client_id, redirect_uri |-> d.redirect_uri,
                    code_challenge |-> d.code_challenge, agent |-> d.agent,
                    scopes |-> Converted(d.scopes), resource |-> d.resource,
                    tool_name |-> d.tool_name]
  BY <1>1, <1>2, <1>3, <1>4 DEF Amounts
<1> QED
  BY <1>5, UnderstoodType

(***************************************************************************)
(* Every step leaves what a request holds as it was, or makes it hold the  *)
(* consent of the code it takes.                                           *)
(***************************************************************************)
LEMMA ConsentPreserved ==
    ASSUME ClaimsInv, SingleUse, [Next]_vars, CodesKept, NEW x \in Request
    PROVE  HoldsConsent(x)'
<1> USE DEF ClaimsInv
<1>1. ASSUME req'[x].pc \notin {"resolve", "mint"} PROVE HoldsConsent(x)'
  BY <1>1 DEF HoldsConsent
<1>2. ASSUME req'[x] = req[x] PROVE HoldsConsent(x)'
  <2>1. HoldsConsent(x)
    BY DEF SingleUse
  <2>2. CASE req[x].pc = "resolve"
    <3>1. req[x].via.code \in Code /\ req[x].data \in CodeData
      BY <2>2, Shape DEF ResolveState, Via
    <3>2. codeData'[req[x].via.code] = req[x].data
      BY <2>1, <2>2, <3>1, OAuthAssumption DEF HoldsConsent, CodesKept
    <3> QED
      BY <1>2, <2>1, <2>2, <3>2 DEF HoldsConsent, Matches
  <2>3. CASE req[x].pc = "mint" /\ req[x].op = "oauth"
    <3>1. req[x].via \in Via
      BY <2>1, <2>3, Shape DEF HoldsConsent, MintState
    <3>2. codeData'[req[x].via.code] = codeData[req[x].via.code]
      BY <2>1, <2>3, <3>1 DEF HoldsConsent, CodesKept, Via
    <3> QED
      BY <1>2, <2>1, <2>3, <3>2 DEF HoldsConsent, Amounts
  <2>4. CASE req[x].pc = "mint" /\ req[x].op # "oauth"
    BY <1>2, <2>1, <2>4 DEF HoldsConsent
  <2> QED
    BY <1>1, <1>2, <2>2, <2>3, <2>4
<1>3. ASSUME req'[x].pc = "mint", req'[x].op # "oauth", req'[x].via = None
      PROVE  HoldsConsent(x)'
  BY <1>3 DEF HoldsConsent
<1>4. ASSUME Resolve(x) PROVE HoldsConsent(x)'
  <2>1. /\ req[x] \in ResolveState
        /\ Lawful(req[x].data)
        /\ codeData[req[x].via.code] = req[x].data
        /\ Matches(req[x].via.presented, req[x].data)
    BY <1>4, Shape DEF Resolve, RequestSound, SingleUse, HoldsConsent
  <2>2. PICK u \in User \cup {None} :
            req'[x] = Minting("oauth", RedeemedClaims(req[x].data, u), None,
                              req[x].via)
    BY <1>4, ResolveSound
  <2>3. PICK q, v, d : q = req'[x] /\ v = req[x].via /\ d = req[x].data
    OBVIOUS
  <2>4. d \in CodeData /\ v \in Via /\ d # None /\ v # None
    BY <2>1, <2>3, OAuthAssumption DEF ResolveState
  <2>5. Amounts(q) = Understood(d)
    BY <2>1, <2>2, <2>3, <2>4, RedeemedAmounts
  <2>6. q.pc = "mint" /\ q.op = "oauth" /\ q.via = v
    BY <2>2, <2>3 DEF Minting
  <2>7. codeData' = codeData
    BY <1>4 DEF Resolve, oauthVars
  <2>8. codeData'[q.via.code] = d
    BY <2>1, <2>3, <2>6, <2>7
  <2> QED
    BY <2>3, <2>4, <2>5, <2>6, <2>8 DEF HoldsConsent, Amounts
<1>5. ASSUME NEW c \in Code, NEW p \in Presentation, Take(x, c, p)
      PROVE  HoldsConsent(x)'
  <2>1. CASE Matches(p, codeData[c])
    <3>1. req'[x] = [pc |-> "resolve", data |-> codeData[c],
                     via |-> [code |-> c, presented |-> p]]
      BY <1>5, <2>1 DEF Take, TypeOK
    <3>2. codeData' = codeData
      BY <1>5 DEF Take
    <3> QED
      BY <2>1, <3>1, <3>2 DEF HoldsConsent, Matches
  <2>2. CASE ~ Matches(p, codeData[c])
    BY <1>2, <1>5, <2>2 DEF Take
  <2> QED
    BY <2>1, <2>2
<1>6. ASSUME NEW r \in Request, ClaimsStep(r) PROVE HoldsConsent(x)'
  <2>1. CASE x # r
    <3>1. req'[x] = req[x]
      BY <1>6, <2>1
      DEF ClaimsStep, Exchange, Delegate, Mint, Answer, Suspend, SweepIndex,
          CommitSuspend, Abort, TypeOK
    <3> QED
      BY <1>2, <3>1
  <2>2. CASE x = r
    <3>1. ASSUME NEW a \in Agent, NEW i \in Call \cup {None}, Exchange(x, a, i)
          PROVE  HoldsConsent(x)'
      BY <1>3, <3>1, ExchangeSound
    <3>2. ASSUME NEW j \in Minted, NEW b \in Agent, NEW s \in SUBSET Scope,
                 Delegate(x, j, b, s)
          PROVE  HoldsConsent(x)'
      BY <1>3, <3>2, DelegateSound
    <3>3. ASSUME NEW j \in Jti, Mint(x, j) PROVE HoldsConsent(x)'
      <4>1. req[x] \in MintState
        BY <3>3, MintWrites
      <4> QED
        BY <1>1, <3>3, <4>1 DEF Mint, TypeOK, MintState
    <3>4. ASSUME SweepIndex(x) PROVE HoldsConsent(x)'
      <4>1. req[x] \in SweepState
        BY <3>4, Shape DEF SweepIndex
      <4> QED
        BY <1>1, <3>4, <4>1 DEF SweepIndex, TypeOK, SweepState
    <3>5. ASSUME \/ \E a \in Operated : Suspend(x, a)
                 \/ Answer(x) \/ CommitSuspend(x) \/ Abort(x)
          PROVE  HoldsConsent(x)'
      BY <1>1, <3>5 DEF Suspend, Answer, CommitSuspend, Abort, Idle, TypeOK
    <3> QED
      BY <1>6, <2>2, <3>1, <3>2, <3>3, <3>4, <3>5 DEF ClaimsStep
  <2> QED
    BY <2>1, <2>2
<1>7. ASSUME NEW r \in Request,
             \/ \E d \in AuthorizeRequest : Authorize(r, d)
             \/ \E c \in Code : AuthorizeStore(r, c)
             \/ \E c \in Code, p \in Presentation : Take(r, c, p)
             \/ Resolve(r)
      PROVE  HoldsConsent(x)'
  <2>1. CASE x # r
    <3>1. req'[x] = req[x]
      BY <1>7, <2>1 DEF Authorize, AuthorizeStore, Take, Resolve, TypeOK
    <3> QED
      BY <1>2, <3>1
  <2>2. CASE x = r
    <3>1. ASSUME \/ \E d \in AuthorizeRequest : Authorize(x, d)
                 \/ \E c \in Code : AuthorizeStore(x, c)
          PROVE  HoldsConsent(x)'
      BY <1>1, <3>1 DEF Authorize, AuthorizeStore, Idle, TypeOK
    <3> QED
      BY <1>4, <1>5, <1>7, <2>2, <3>1
  <2> QED
    BY <2>1, <2>2
<1> QED
  BY <1>2, <1>6, <1>7
  DEF Next, vars, claimVars, ClaimsNext, GrantOnBehalfOf, RevokeOnBehalfOf,
      GrantLapses, register_client, CodeExpires

(***************************************************************************)
(* Who holds a code changes when a request takes one, mints its token or   *)
(* is aborted, and at no other step.                                       *)
(***************************************************************************)
LEMMA HoldsSame ==
    ASSUME NEW x \in Request, req'[x] = req[x], NEW c
    PROVE  Holds(x, c)' <=> Holds(x, c)
BY DEF Holds

LEMMA HoldsUnchanged ==
    ASSUME ClaimsInv, SingleUse, NEW x \in Request, NEW c \in Code,
           \/ UNCHANGED req
           \/ \E r \in Request :
                 \/ \E a \in Agent, i \in Call \cup {None} : Exchange(r, a, i)
                 \/ \E j \in Minted, b \in Agent, s \in SUBSET Scope :
                       Delegate(r, j, b, s)
                 \/ \E j \in Jti : Mint(r, j) /\ req[r].op # "oauth"
                 \/ Answer(r)
                 \/ \E a \in Operated : Suspend(r, a)
                 \/ SweepIndex(r)
                 \/ CommitSuspend(r)
                 \/ \E d \in AuthorizeRequest : Authorize(r, d)
                 \/ \E k \in Code : AuthorizeStore(r, k)
                 \/ Resolve(r)
    PROVE  Holds(x, c)' <=> Holds(x, c)
<1> USE DEF ClaimsInv
<1>1. ASSUME req[x].pc \notin {"resolve", "mint"},
             \/ req'[x].pc \notin {"resolve", "mint"}
             \/ req'[x].pc = "mint" /\ req'[x].op # "oauth"
      PROVE  Holds(x, c)' <=> Holds(x, c)
  BY <1>1 DEF Holds
<1>2. CASE req'[x] = req[x]
  BY <1>2, HoldsSame
<1>3. ASSUME NEW a \in Agent, NEW i \in Call \cup {None}, Exchange(x, a, i)
      PROVE  Holds(x, c)' <=> Holds(x, c)
  <2>1. req[x].pc = "idle"
    BY <1>3 DEF Exchange, Idle
  <2>2. req'[x].pc = "mint" /\ req'[x].op # "oauth"
    BY <1>3, ExchangeSound
  <2> QED
    BY <1>1, <2>1, <2>2
<1>4. ASSUME NEW j \in Minted, NEW b \in Agent, NEW s \in SUBSET Scope,
             Delegate(x, j, b, s)
      PROVE  Holds(x, c)' <=> Holds(x, c)
  <2>1. req[x].pc = "idle"
    BY <1>4 DEF Delegate, Idle
  <2>2. req'[x].pc = "mint" /\ req'[x].op # "oauth"
    BY <1>4, DelegateSound
  <2> QED
    BY <1>1, <2>1, <2>2
<1>5. ASSUME NEW j \in Jti, Mint(x, j), req[x].op # "oauth"
      PROVE  Holds(x, c)' <=> Holds(x, c)
  <2>1. req[x] \in MintState
    BY <1>5, MintWrites
  <2>2. req'[x].pc = "answer" /\ req[x].pc = "mint"
    BY <1>5, <2>1 DEF Mint, TypeOK, MintState
  <2> QED
    BY <1>5, <2>2 DEF Holds
<1>6. ASSUME \/ Answer(x) \/ CommitSuspend(x)
             \/ \E a \in Operated : Suspend(x, a)
             \/ \E d \in AuthorizeRequest : Authorize(x, d)
             \/ \E k \in Code : AuthorizeStore(x, k)
      PROVE  Holds(x, c)' <=> Holds(x, c)
  BY <1>1, <1>6
  DEF Answer, CommitSuspend, Suspend, Authorize, AuthorizeStore, Idle, TypeOK
<1>7. ASSUME SweepIndex(x) PROVE Holds(x, c)' <=> Holds(x, c)
  <2>1. req[x] \in SweepState
    BY <1>7, Shape DEF SweepIndex
  <2> QED
    BY <1>1, <1>7, <2>1 DEF SweepIndex, TypeOK, SweepState
<1>8. ASSUME Resolve(x) PROVE Holds(x, c)' <=> Holds(x, c)
  <2>1. PICK u \in User \cup {None} :
            req'[x] = Minting("oauth", RedeemedClaims(req[x].data, u), None,
                              req[x].via)
    BY <1>8, ResolveSound
  <2> QED
    BY <1>8, <2>1 DEF Resolve, Minting, Holds
<1>9. ASSUME NEW r \in Request, x # r,
             \/ \E a \in Agent, i \in Call \cup {None} : Exchange(r, a, i)
             \/ \E j \in Minted, b \in Agent, s \in SUBSET Scope :
                   Delegate(r, j, b, s)
             \/ \E j \in Jti : Mint(r, j)
             \/ Answer(r)
             \/ \E a \in Operated : Suspend(r, a)
             \/ SweepIndex(r)
             \/ CommitSuspend(r)
             \/ \E d \in AuthorizeRequest : Authorize(r, d)
             \/ \E k \in Code : AuthorizeStore(r, k)
             \/ Resolve(r)
      PROVE  req'[x] = req[x]
  BY <1>9 DEF Exchange, Delegate, Mint, Answer, Suspend, SweepIndex,
              CommitSuspend, Authorize, AuthorizeStore, Resolve, TypeOK
<1> QED
  BY <1>2, <1>3, <1>4, <1>5, <1>6, <1>7, <1>8, <1>9

LEMMA HoldsOnTake ==
    ASSUME ClaimsInv, SingleUse, NEW r \in Request, NEW k \in Code,
           NEW p \in Presentation, Take(r, k, p),
           NEW x \in Request, NEW c \in Code
    PROVE  /\ ~ Holds(r, c)
           /\ Holds(x, c)' <=> \/ Holds(x, c)
                               \/ x = r /\ c = k /\ Matches(p, codeData[k])
<1>1. ~ Holds(r, c)
  BY DEF Take, Idle, Holds
<1>2. CASE req'[x] = req[x] /\ (x # r \/ ~ Matches(p, codeData[k]))
  BY <1>1, <1>2, HoldsSame
<1>3. CASE x = r /\ Matches(p, codeData[k])
  <2>1. req'[r] = [pc |-> "resolve", data |-> codeData[k],
                   via |-> [code |-> k, presented |-> p]]
    BY <1>3 DEF Take, ClaimsInv, TypeOK
  <2> QED
    BY <1>1, <1>3, <2>1 DEF Holds
<1> QED
  BY <1>1, <1>2, <1>3 DEF Take, ClaimsInv, TypeOK

LEMMA HoldsOnEnd ==
    ASSUME ClaimsInv, NEW r \in Request,
           Abort(r) \/ \E j \in Jti : Mint(r, j),
           NEW x \in Request, NEW c \in Code
    PROVE  Holds(x, c)' <=> x # r /\ Holds(x, c)
<1> USE DEF ClaimsInv
<1>1. CASE x # r
  <2>1. req'[x] = req[x]
    BY <1>1 DEF Abort, Mint, TypeOK
  <2> QED
    BY <1>1, <2>1, HoldsSame
<1>2. CASE x = r /\ Abort(r)
  BY <1>2 DEF Abort, Idle, Holds, TypeOK
<1>3. ASSUME x = r, NEW j \in Jti, Mint(r, j) PROVE ~ Holds(x, c)'
  <2>1. req[r] \in MintState
    BY <1>3, MintWrites
  <2>2. req'[r].pc = "answer"
    BY <1>3, <2>1 DEF Mint, TypeOK, MintState
  <2> QED
    BY <1>3, <2>2 DEF Holds
<1> QED
  BY <1>1, <1>2, <1>3

(***************************************************************************)
(* A code that is held has been stored, and its holder is to mint for it.  *)
(***************************************************************************)
LEMMA HeldIsStored ==
    ASSUME ClaimsInv, SingleUse, NEW r \in Request, NEW c \in Code, Holds(r, c)
    PROVE  codeData[c] # None
<1>1. CASE req[r].pc = "resolve"
  BY <1>1, Shape, OAuthAssumption
  DEF Holds, SingleUse, HoldsConsent, ClaimsInv, ResolveState
<1>2. CASE req[r].pc = "mint" /\ req[r].op = "oauth"
  BY <1>2 DEF Holds, SingleUse, HoldsConsent
<1> QED
  BY <1>1, <1>2 DEF Holds

-----------------------------------------------------------------------------
(***************************************************************************)
(* Codes are held by one request at most, and not while their key is       *)
(* there.                                                                  *)
(***************************************************************************)
LEMMA SingleUsePreserved ==
    ASSUME ClaimsInv, SingleUse, [Next]_vars
    PROVE  SingleUse'
<1> USE DEF ClaimsInv
<1>1. \A x \in Request : HoldsConsent(x)'
  BY CodesWrittenOnce, ConsentPreserved
<1> DEFINE Exclusive ==
             /\ \A x \in Request, c \in Code : Holds(x, c)' => c \notin live'
             /\ \A x, y \in Request, c \in Code :
                   Holds(x, c)' /\ Holds(y, c)' => x = y
<1>2. /\ \A x \in Request, c \in Code : Holds(x, c) => c \notin live
      /\ \A x, y \in Request, c \in Code : Holds(x, c) /\ Holds(y, c) => x = y
  BY DEF SingleUse
<1>3. ASSUME live' \subseteq live,
             \A x \in Request, c \in Code : Holds(x, c)' => Holds(x, c)
      PROVE  Exclusive
  BY <1>2, <1>3
<1>4. ASSUME NEW r \in Request,
             \/ \E a \in Agent, i \in Call \cup {None} : Exchange(r, a, i)
             \/ \E j \in Minted, b \in Agent, s \in SUBSET Scope :
                   Delegate(r, j, b, s)
             \/ Answer(r)
             \/ \E a \in Operated : Suspend(r, a)
             \/ SweepIndex(r)
             \/ CommitSuspend(r)
             \/ \E d \in AuthorizeRequest : Authorize(r, d)
             \/ Resolve(r),
             UNCHANGED live
      PROVE  Exclusive
  <2>1. \A x \in Request, c \in Code : Holds(x, c)' <=> Holds(x, c)
    BY <1>4, HoldsUnchanged
  <2> QED
    BY <1>3, <1>4, <2>1
<1>5. ASSUME NEW r \in Request, Abort(r) \/ \E j \in Jti : Mint(r, j),
             UNCHANGED live
      PROVE  Exclusive
  <2>1. \A x \in Request, c \in Code : Holds(x, c)' => Holds(x, c)
    BY <1>5, HoldsOnEnd
  <2> QED
    BY <1>3, <1>5, <2>1
<1>6. ASSUME NEW r \in Request, NEW k \in Code, AuthorizeStore(r, k)
      PROVE  Exclusive
  <2>1. \A x \in Request, c \in Code : Holds(x, c)' <=> Holds(x, c)
    BY <1>6, HoldsUnchanged
  <2>2. \A x \in Request : ~ Holds(x, k)
    BY <1>6, HeldIsStored DEF AuthorizeStore
  <2>3. live' = live \cup {k}
    BY <1>6 DEF AuthorizeStore
  <2> QED
    BY <1>2, <2>1, <2>2, <2>3
<1>7. ASSUME NEW r \in Request, NEW k \in Code, NEW p \in Presentation,
             Take(r, k, p)
      PROVE  Exclusive
  <2>1. ASSUME NEW x \in Request, NEW c \in Code, Holds(x, c)'
        PROVE  Holds(x, c) \/ (x = r /\ c = k)
    <3>1. Holds(x, c)' <=> \/ Holds(x, c)
                           \/ x = r /\ c = k /\ Matches(p, codeData[k])
      BY <1>7, HoldsOnTake
    <3> QED
      BY <2>1, <3>1
  <2>2. k \in live /\ live' = live \ {k}
    BY <1>7 DEF Take, GetDel
  <2> QED
    BY <1>2, <2>1, <2>2
<1>8. ASSUME UNCHANGED req, live' \subseteq live PROVE Exclusive
  BY <1>3, <1>8, HoldsSame
<1>9. Exclusive
  BY <1>4, <1>5, <1>6, <1>7, <1>8
  DEF Next, vars, claimVars, oauthVars, ClaimsNext, ClaimsStep, GrantOnBehalfOf,
      RevokeOnBehalfOf, GrantLapses, register_client, CodeExpires,
      Authorize, Resolve
<1> QED
  BY <1>1, <1>9 DEF SingleUse

THEOREM SingleUseInvariance == Spec => []SingleUse
<1>1. Init => SingleUse
  BY DEF Init, ClaimsInit, Idle, SingleUse, HoldsConsent, Holds
<1>2. ClaimsInv /\ SingleUse /\ [Next]_vars => SingleUse'
  BY SingleUsePreserved
<1> QED
  BY <1>1, <1>2, ClaimsInvariance, PTL DEF Spec

-----------------------------------------------------------------------------
(***************************************************************************)
(* The abstract state of OneTimeCode.                                      *)
(***************************************************************************)
Held == {c \in Code : \E r \in Request : Holds(r, c)}

OpenCodes == live \cup Held

Consented == [c \in Code |-> IF codeData[c] = None THEN None
                             ELSE Understood(codeData[c])]

IssuedFor(c) == {<<j, Amounts(token[j])>> : j \in Redeemed(c)}

(***************************************************************************)
(* A step that mints no token leaves what codes turned into as it is; a    *)
(* token that was not minted for a code too.                               *)
(***************************************************************************)
LEMMA IssuedSame ==
    ASSUME UNCHANGED token, NEW c
    PROVE  IssuedFor(c)' = IssuedFor(c)
BY DEF IssuedFor, Redeemed, Minted, Amounts

LEMMA MintIssues ==
    ASSUME ClaimsInv, SingleUse, NEW r \in Request, NEW j \in Jti, Mint(r, j),
           NEW c \in Code
    PROVE  IssuedFor(c)' = IF req[r].op = "oauth" /\ req[r].via.code = c
                           THEN IssuedFor(c) \cup {<<j, Understood(codeData[c])>>}
                           ELSE IssuedFor(c)
<1>1. /\ Minted' = Minted \cup {j} /\ j \notin Minted
      /\ token'[j].claims = req[r].claims /\ token'[j].via = req[r].via
      /\ \A k \in Minted : token'[k] = token[k]
  BY MintWrites DEF Mint, Minted
<1>2. /\ req[r].op = "oauth" => req[r].via # None
      /\ req[r].op = "oauth" =>
            Understood(codeData[req[r].via.code]) = Amounts(req[r])
      /\ req[r].op # "oauth" => req[r].via = None
  BY DEF Mint, SingleUse, HoldsConsent
<1>3. \A k \in Minted : Amounts(token[k])' = Amounts(token[k])
  BY <1>1 DEF Amounts
<1>4. Amounts(token[j])' = Amounts(req[r])
  BY <1>1 DEF Amounts
<1>5. Redeemed(c)' = IF req[r].op = "oauth" /\ req[r].via.code = c
                     THEN Redeemed(c) \cup {j} ELSE Redeemed(c)
  BY <1>1, <1>2 DEF Redeemed
<1>6. Redeemed(c) \subseteq Minted
  BY DEF Redeemed
<1>7. IssuedFor(c)' = {<<k, Amounts(token[k])'>> : k \in Redeemed(c)'}
  BY DEF IssuedFor
<1>8. {<<k, Amounts(token[k])'>> : k \in Redeemed(c)} = IssuedFor(c)
  BY <1>3, <1>6 DEF IssuedFor
<1> QED
  BY <1>2, <1>4, <1>5, <1>7, <1>8

(***************************************************************************)
(* Every step is one of OneTimeCode or changes nothing there: storing a    *)
(* code gives consent, minting for it redeems it; expiry, a presentation   *)
(* that does not match and the failure of the request that has the code    *)
(* let it lapse.                                                           *)
(***************************************************************************)
LEMMA CodeStep ==
    ASSUME ClaimsInv, SingleUse, [Next]_vars
    PROVE  \/ \E c \in Code :
                 \/ /\ codeData[c] = None /\ codeData'[c] \in CodeData
                    /\ codeData' = [codeData EXCEPT ![c] = codeData'[c]]
                    /\ OpenCodes' = OpenCodes \cup {c}
                    /\ \A k \in Code : IssuedFor(k)' = IssuedFor(k)
                 \/ \E j \in Jti :
                       /\ c \in OpenCodes /\ OpenCodes' = OpenCodes \ {c}
                       /\ codeData[c] # None
                       /\ \A k \in Code : IssuedFor(k)' =
                             IF k = c
                             THEN IssuedFor(c) \cup {<<j, Understood(codeData[c])>>}
                             ELSE IssuedFor(k)
                       /\ UNCHANGED codeData
                 \/ /\ c \in OpenCodes /\ OpenCodes' = OpenCodes \ {c}
                    /\ UNCHANGED codeData
                    /\ \A k \in Code : IssuedFor(k)' = IssuedFor(k)
           \/ /\ UNCHANGED <<codeData, OpenCodes>>
              /\ \A k \in Code : IssuedFor(k)' = IssuedFor(k)
<1> USE DEF ClaimsInv
<1> DEFINE
      SameIssued == \A k \in Code : IssuedFor(k)' = IssuedFor(k)
      Give(c) == /\ codeData[c] = None /\ codeData'[c] \in CodeData
                 /\ codeData' = [codeData EXCEPT ![c] = codeData'[c]]
                 /\ OpenCodes' = OpenCodes \cup {c}
                 /\ SameIssued
      Redeem(c, j) == /\ c \in OpenCodes /\ OpenCodes' = OpenCodes \ {c}
                      /\ codeData[c] # None
                      /\ \A k \in Code : IssuedFor(k)' =
                            IF k = c
                            THEN IssuedFor(c) \cup {<<j, Understood(codeData[c])>>}
                            ELSE IssuedFor(k)
                      /\ UNCHANGED codeData
      Lapse(c) == /\ c \in OpenCodes /\ OpenCodes' = OpenCodes \ {c}
                  /\ UNCHANGED codeData
                  /\ SameIssued
      Stutter == UNCHANGED <<codeData, OpenCodes>> /\ SameIssued
      Goal == \/ \E c \in Code : \/ Give(c)
                                 \/ \E j \in Jti : Redeem(c, j)
                                 \/ Lapse(c)
              \/ Stutter
<1>1. ASSUME UNCHANGED token PROVE SameIssued
  BY <1>1, IssuedSame
<1>2. ASSUME \A x \in Request, c \in Code : Holds(x, c)' <=> Holds(x, c)
      PROVE  Held' = Held
  BY <1>2 DEF Held
<1>3. /\ \A x \in Request, c \in Code : Holds(x, c) => c \notin live
      /\ \A x, y \in Request, c \in Code : Holds(x, c) /\ Holds(y, c) => x = y
      /\ live \subseteq Code
  BY DEF SingleUse, TypeOK
<1>4. ASSUME NEW r \in Request,
             \/ \E a \in Agent, i \in Call \cup {None} : Exchange(r, a, i)
             \/ \E j \in Minted, b \in Agent, s \in SUBSET Scope :
                   Delegate(r, j, b, s)
             \/ Answer(r)
             \/ \E a \in Operated : Suspend(r, a)
             \/ SweepIndex(r)
             \/ CommitSuspend(r)
             \/ \E d \in AuthorizeRequest : Authorize(r, d)
             \/ Resolve(r),
             UNCHANGED oauthVars
      PROVE  Stutter
  <2>1. Held' = Held
    BY <1>2, <1>4, HoldsUnchanged
  <2>2. UNCHANGED token
    BY <1>4 DEF Exchange, Delegate, Answer, Suspend, SweepIndex, CommitSuspend,
                Authorize, Resolve
  <2> QED
    BY <1>1, <1>4, <2>1, <2>2 DEF oauthVars, OpenCodes
<1>5. ASSUME UNCHANGED <<req, token, codeData, live>> PROVE Stutter
  <2>1. Held' = Held
    BY <1>2, <1>5, HoldsSame
  <2> QED
    BY <1>1, <1>5, <2>1 DEF OpenCodes
<1>6. ASSUME NEW r \in Request, NEW j \in Jti, Mint(r, j), UNCHANGED oauthVars
      PROVE  Goal
  <2>1. CASE req[r].op # "oauth"
    <3>1. Held' = Held
      BY <1>2, <1>6, <2>1, HoldsUnchanged
    <3>2. SameIssued
      BY <1>6, <2>1, MintIssues
    <3> QED
      BY <1>6, <3>1, <3>2 DEF oauthVars, OpenCodes
  <2>2. CASE req[r].op = "oauth"
    <3>1. PICK c \in Code : c = req[r].via.code /\ codeData[c] # None
      BY <1>6, <2>2, MintWrites
      DEF Mint, SingleUse, HoldsConsent, MintState, Via
    <3>2. Holds(r, c)
      BY <1>6, <2>2, <3>1 DEF Mint, Holds
    <3>3. \A x \in Request, k \in Code : Holds(x, k)' <=> x # r /\ Holds(x, k)
      BY <1>6, HoldsOnEnd
    <3>4. \A k \in Code : Holds(r, k) => k = c
      BY <3>1 DEF Holds
    <3>5. Held' = Held \ {c} /\ c \in Held /\ c \notin live
      BY <1>3, <3>2, <3>3, <3>4 DEF Held
    <3>6. \A k \in Code : IssuedFor(k)' =
             IF k = c THEN IssuedFor(c) \cup {<<j, Understood(codeData[c])>>}
                      ELSE IssuedFor(k)
      BY <1>6, <2>2, <3>1, MintIssues
    <3>7. Redeem(c, j)
      BY <1>6, <3>1, <3>5, <3>6 DEF oauthVars, OpenCodes
    <3> QED
      BY <3>7
  <2> QED
    BY <2>1, <2>2
<1>7. ASSUME NEW r \in Request, Abort(r), UNCHANGED oauthVars PROVE Goal
  <2>1. \A x \in Request, k \in Code : Holds(x, k)' <=> x # r /\ Holds(x, k)
    BY <1>7, HoldsOnEnd
  <2>2. SameIssued /\ UNCHANGED <<codeData, live>>
    BY <1>1, <1>7 DEF Abort, oauthVars
  <2>3. ASSUME NEW c \in Code, Holds(r, c) PROVE Lapse(c)
    <3>1. \A k \in Code : Holds(r, k) => k = c
      BY <2>3 DEF Holds
    <3>2. Held' = Held \ {c} /\ c \in Held /\ c \notin live
      BY <1>3, <2>1, <2>3, <3>1 DEF Held
    <3> QED
      BY <2>2, <3>2 DEF OpenCodes
  <2>4. ASSUME \A c \in Code : ~ Holds(r, c) PROVE Stutter
    <3>1. Held' = Held
      BY <2>1, <2>4 DEF Held
    <3> QED
      BY <2>2, <3>1 DEF OpenCodes
  <2> QED
    BY <2>3, <2>4
<1>8. ASSUME NEW r \in Request, NEW c \in Code, AuthorizeStore(r, c)
      PROVE  Give(c)
  <2>1. Held' = Held
    BY <1>2, <1>8, HoldsUnchanged
  <2>2. req[r].data \in CodeData
    BY <1>8, Shape DEF AuthorizeStore, StoreState
  <2>3. UNCHANGED token
    BY <1>8 DEF AuthorizeStore
  <2>4. OpenCodes' = OpenCodes \cup {c}
    BY <1>8, <2>1 DEF AuthorizeStore, OpenCodes
  <2> QED
    BY <1>1, <1>8, <2>2, <2>3, <2>4 DEF AuthorizeStore, TypeOK
<1>9. ASSUME NEW r \in Request, NEW c \in Code, NEW p \in Presentation,
             Take(r, c, p)
      PROVE  Goal
  <2>1. /\ c \in live /\ live' = live \ {c} /\ UNCHANGED codeData
        /\ UNCHANGED token
    BY <1>9 DEF Take, GetDel
  <2>2. SameIssued
    BY <1>1, <2>1
  <2>3. c \notin Held
    BY <1>3, <2>1 DEF Held
  <2>4. CASE Matches(p, codeData[c])
    <3>1. ASSUME NEW x \in Request, NEW k \in Code
          PROVE  Holds(x, k)' <=> Holds(x, k) \/ (x = r /\ k = c)
      BY <1>9, <2>4, HoldsOnTake
    <3>2. Held' = Held \cup {c}
      BY <3>1 DEF Held
    <3> QED
      BY <2>1, <2>2, <3>2 DEF OpenCodes
  <2>5. CASE ~ Matches(p, codeData[c])
    <3>1. UNCHANGED req
      BY <1>9, <2>5 DEF Take
    <3>2. Held' = Held
      BY <1>2, <3>1, HoldsSame
    <3>3. Lapse(c)
      BY <2>1, <2>2, <2>3, <3>2 DEF OpenCodes
    <3> QED
      BY <3>3
  <2> QED
    BY <2>4, <2>5
<1>10. ASSUME NEW c \in Code, CodeExpires(c) PROVE Lapse(c)
  <2>1. /\ c \in live /\ live' = live \ {c}
        /\ UNCHANGED <<req, token, codeData>>
    BY <1>10 DEF CodeExpires, claimVars
  <2>2. Held' = Held /\ c \notin Held
    BY <1>2, <1>3, <2>1, HoldsSame DEF Held
  <2> QED
    BY <1>1, <2>1, <2>2 DEF OpenCodes
<1>11. Goal
  <2>1. ASSUME NEW r \in Request, ClaimsStep(r), UNCHANGED oauthVars PROVE Goal
    BY <1>4, <1>6, <1>7, <2>1 DEF ClaimsStep
  <2>2. ASSUME NEW r \in Request,
               \/ \E d \in AuthorizeRequest : Authorize(r, d)
               \/ Resolve(r)
        PROVE  Goal
    <3>1. UNCHANGED oauthVars
      BY <2>2 DEF Authorize, Resolve
    <3> QED
      BY <1>4, <2>2, <3>1
  <2>3. CASE UNCHANGED <<req, token, codeData, live>>
    BY <1>5, <2>3
  <2> QED
    BY <1>8, <1>9, <1>10, <2>1, <2>2, <2>3
    DEF Next, vars, claimVars, oauthVars, ClaimsNext, GrantOnBehalfOf,
        RevokeOnBehalfOf, GrantLapses, register_client
<1> QED
  BY <1>11

(***************************************************************************)
(* "A code can never be redeemed twice, even under concurrent requests     *)
(* racing each other" (exchange_authorization_code), and its token is what *)
(* was consented to: the code flow implements OneTimeCode.                 *)
(***************************************************************************)
THEOREM CodeRefinement == Spec => ImplementsOneTimeCode
<1>1. Init => OneTime!Init
  <2> SUFFICES ASSUME Init PROVE OneTime!Init
    OBVIOUS
  <2>1. Minted = {} /\ \A c : Redeemed(c) = {}
    BY DEF Init, ClaimsInit, Minted, Redeemed
  <2>2. \A r \in Request, c \in Code : ~ Holds(r, c)
    BY DEF Init, ClaimsInit, Idle, Holds
  <2> QED
    BY <2>1, <2>2 DEF Init, OneTime!Init
<1>2. ClaimsInv /\ SingleUse /\ [Next]_vars =>
        [OneTime!Next]_<<Consented, OpenCodes, [c \in Code |-> IssuedFor(c)]>>
  <2> SUFFICES ASSUME ClaimsInv, SingleUse, [Next]_vars
               PROVE  \/ OneTime!Next
                      \/ UNCHANGED <<Consented, OpenCodes,
                                     [c \in Code |-> IssuedFor(c)]>>
    OBVIOUS
  <2>1. codeData \in [Code -> CodeData \cup {None}]
    BY DEF ClaimsInv, TypeOK
  <2>2. UNCHANGED codeData => UNCHANGED Consented
    BY DEF Consented
  <2>3. ASSUME NEW c \in Code, codeData[c] = None, codeData'[c] \in CodeData,
               codeData' = [codeData EXCEPT ![c] = codeData'[c]]
        PROVE  /\ Consented[c] = None /\ Consented'[c] \in CodeData
               /\ Consented' = [Consented EXCEPT ![c] = Consented'[c]]
    <3>1. codeData'[c] # None
      BY <2>3, OAuthAssumption
    <3>2. Consented'[c] = Understood(codeData'[c])
      BY <3>1 DEF Consented
    <3>3. Understood(codeData'[c]) \in CodeData
      BY <2>3, UnderstoodType
    <3>4. \A k \in Code : k # c => codeData'[k] = codeData[k]
      BY <2>1, <2>3
    <3>5. \A k \in Code : k # c => Consented'[k] = Consented[k]
      BY <3>4 DEF Consented
    <3>6. Consented' = [Consented EXCEPT ![c] = Consented'[c]]
      BY <3>5 DEF Consented
    <3> QED
      BY <2>3, <3>2, <3>3, <3>6 DEF Consented
  <2>4. \A c \in Code : codeData[c] # None => Consented[c] = Understood(codeData[c])
    BY DEF Consented
  <2> DEFINE Same == \A k \in Code : IssuedFor(k)' = IssuedFor(k)
  <2>5. ASSUME Same PROVE UNCHANGED [c \in Code |-> IssuedFor(c)]
    BY <2>5
  <2>6. ASSUME NEW c \in Code, codeData[c] = None, codeData'[c] \in CodeData,
               codeData' = [codeData EXCEPT ![c] = codeData'[c]],
               OpenCodes' = OpenCodes \cup {c}, Same
        PROVE  OneTime!Give(c)
    <3>1. UNCHANGED [k \in Code |-> IssuedFor(k)]
      BY <2>5, <2>6
    <3>2. /\ Consented[c] = None /\ Consented'[c] \in CodeData
          /\ Consented' = [Consented EXCEPT ![c] = Consented'[c]]
      BY <2>3, <2>6
    <3> QED
      BY <2>6, <3>1, <3>2
      DEF OneTime!Give, OpenCodes, Held, IssuedFor, Consented
  <2>7. ASSUME NEW c \in Code, c \in OpenCodes, OpenCodes' = OpenCodes \ {c},
               UNCHANGED codeData, Same
        PROVE  OneTime!Lapse(c)
    <3>1. UNCHANGED [k \in Code |-> IssuedFor(k)]
      BY <2>5, <2>7
    <3> QED
      BY <2>2, <2>7, <3>1
      DEF OneTime!Lapse, OpenCodes, Held, IssuedFor, Consented
  <2>8. ASSUME NEW c \in Code, NEW j \in Jti, c \in OpenCodes,
               OpenCodes' = OpenCodes \ {c}, codeData[c] # None,
               \A k \in Code : IssuedFor(k)' =
                   IF k = c THEN IssuedFor(c) \cup {<<j, Understood(codeData[c])>>}
                            ELSE IssuedFor(k),
               UNCHANGED codeData
        PROVE  OneTime!Redeem(c, j)
    <3>1. Consented[c] = Understood(codeData[c])
      BY <2>4, <2>8
    <3>2. [k \in Code |-> IssuedFor(k)]' =
             [[k \in Code |-> IssuedFor(k)] EXCEPT ![c] = @ \cup {<<j, Consented[c]>>}]
      BY <2>8, <3>1
    <3> QED
      BY <2>2, <2>8, <3>2
      DEF OneTime!Redeem, OpenCodes, Held, IssuedFor, Consented
  <2>9. ASSUME UNCHANGED <<codeData, OpenCodes>>, Same
        PROVE  UNCHANGED <<Consented, OpenCodes, [c \in Code |-> IssuedFor(c)]>>
    BY <2>2, <2>5, <2>9
  <2> QED
    BY CodeStep, <2>6, <2>7, <2>8, <2>9 DEF OneTime!Next
<1> QED
  BY <1>1, <1>2, ClaimsInvariance, SingleUseInvariance, PTL
  DEF Spec, ImplementsOneTimeCode, OneTime!Spec, OpenCodes, Held, IssuedFor,
      Consented

-----------------------------------------------------------------------------
(***************************************************************************)
(* A request answers with the token it minted, which is the code flow's    *)
(* only if the request is.                                                 *)
(***************************************************************************)
AnswersFor(r) ==
    req[r].pc = "answer" =>
        /\ token[req[r].jti].claims = req[r].claims
        /\ token[req[r].jti].via = req[r].via
        /\ req[r].via # None => req[r].op = "oauth"

Answers == \A r \in Request : AnswersFor(r)

LEMMA AnswersPreserved ==
    ASSUME ClaimsInv, SingleUse, Answers, [Next]_vars
    PROVE  Answers'
<1> USE DEF ClaimsInv
<1> SUFFICES ASSUME NEW x \in Request PROVE AnswersFor(x)'
  BY DEF Answers
<1>0. Kept
  BY NothingTakenBack
<1>1. ASSUME req'[x].pc # "answer" PROVE AnswersFor(x)'
  BY <1>1 DEF AnswersFor
<1>2. ASSUME req'[x] = req[x] PROVE AnswersFor(x)'
  <2>1. AnswersFor(x) /\ (req[x].pc = "answer" => req[x].jti \in Minted)
    BY DEF Answers, RequestSound
  <2> QED
    BY <1>0, <1>2, <2>1 DEF AnswersFor, Kept
<1>3. ASSUME NEW r \in Request, req'[r].pc # "answer",
             \A s \in Request \ {r} : req'[s] = req[s]
      PROVE  AnswersFor(x)'
  BY <1>1, <1>2, <1>3
<1>4. ASSUME NEW r \in Request, NEW j \in Jti, Mint(r, j) PROVE AnswersFor(x)'
  <2>1. CASE x = r
    <3>1. /\ req[r] \in MintState
          /\ token'[j].claims = req[r].claims /\ token'[j].via = req[r].via
      BY <1>4, MintWrites
    <3>2. /\ req'[r].jti = j /\ req'[r].claims = req[r].claims
          /\ req'[r].via = req[r].via /\ req'[r].op = req[r].op
      BY <1>4, <3>1 DEF Mint, TypeOK, MintState
    <3>3. req[r].via # None => req[r].op = "oauth"
      BY <1>4 DEF Mint, SingleUse, HoldsConsent
    <3> QED
      BY <2>1, <3>1, <3>2, <3>3 DEF AnswersFor
  <2>2. CASE x # r
    BY <1>2, <1>4, <2>2 DEF Mint, TypeOK
  <2> QED
    BY <2>1, <2>2
<1>5. ASSUME NEW r \in Request, ClaimsStep(r), \A j \in Jti : ~ Mint(r, j)
      PROVE  AnswersFor(x)'
  <2>1. CASE \E a \in Agent, i \in Call \cup {None} : Exchange(r, a, i)
    BY <2>1, <1>3 DEF Exchange, Minting, TypeOK
  <2>2. CASE \E j \in Minted, b \in Agent, s \in SUBSET Scope : Delegate(r, j, b, s)
    BY <2>2, <1>3 DEF Delegate, Minting, TypeOK
  <2>3. CASE Answer(r) \/ CommitSuspend(r) \/ Abort(r)
    BY <2>3, <1>3 DEF Answer, CommitSuspend, Abort, Idle, TypeOK
  <2>4. CASE \E a \in Operated : Suspend(r, a)
    BY <2>4, <1>3 DEF Suspend, TypeOK
  <2>5. CASE SweepIndex(r)
    BY <2>5, <1>3, Shape DEF SweepIndex, SweepState, TypeOK
  <2> QED
    BY <1>5, <2>1, <2>2, <2>3, <2>4, <2>5 DEF ClaimsStep
<1>6. ASSUME NEW r \in Request,
             \/ \E d \in AuthorizeRequest : Authorize(r, d)
             \/ \E c \in Code : AuthorizeStore(r, c)
             \/ Resolve(r)
      PROVE  AnswersFor(x)'
  BY <1>3, <1>6 DEF Authorize, AuthorizeStore, Resolve, Minting, Idle, TypeOK
<1>7. ASSUME NEW r \in Request, NEW c \in Code, NEW p \in Presentation,
             Take(r, c, p)
      PROVE  AnswersFor(x)'
  BY <1>2, <1>3, <1>7 DEF Take, TypeOK
<1> QED
  BY <1>2, <1>4, <1>5, <1>6, <1>7
  DEF Next, vars, claimVars, ClaimsNext, GrantOnBehalfOf, RevokeOnBehalfOf,
      GrantLapses, register_client, CodeExpires

LEMMA AnswersInvariance == Spec => []Answers
<1>1. Init => Answers
  BY DEF Init, ClaimsInit, Idle, Answers, AnswersFor
<1>2. ClaimsInv /\ SingleUse /\ Answers /\ [Next]_vars => Answers'
  BY AnswersPreserved
<1> QED
  BY <1>1, <1>2, ClaimsInvariance, SingleUseInvariance, PTL DEF Spec

(***************************************************************************)
(* The requests among what is outstanding for an agent.                    *)
(***************************************************************************)
UnderWay(r, a) ==
    \/ req[r].pc \in {"store", "resolve"} /\ req[r].data.agent = a
    \/ req[r].pc \in {"mint", "answer"} /\ req[r].op = "oauth"
       /\ req[r].claims.agent = a

LEMMA OutstandingParts ==
    ASSUME NEW a
    PROVE  Outstanding(a) =
             {c \in live : codeData[c].agent = a}
             \cup {r \in Request : UnderWay(r, a)}
             \cup {j \in Accepted : token[j].via # None /\ token[j].claims.agent = a}
BY DEF Outstanding, UnderWay

LEMMA OutstandingFinite ==
    ASSUME TypeOK, NEW a
    PROVE  IsFiniteSet(Outstanding(a))
<1>1. IsFiniteSet(Code \cup Request)
  BY OAuthAssumption, FS_Union
<1>2. IsFiniteSet((Code \cup Request) \cup Jti)
  BY <1>1, OAuthAssumption, FS_Union
<1>3. Outstanding(a) \in SUBSET ((Code \cup Request) \cup Jti)
  BY DEF Outstanding, Accepted, Minted, TypeOK
<1> QED
  BY <1>2, <1>3, FS_Subset

(***************************************************************************)
(* Trading one element for another does not make a finite set larger.      *)
(***************************************************************************)
LEMMA Traded ==
    ASSUME NEW S, IsFiniteSet(S), NEW T, NEW x \in S, NEW y,
           T \subseteq (S \ {x}) \cup {y}
    PROVE  Cardinality(T) <= Cardinality(S)
<1>1. PICK R : R = S \ {x}
  OBVIOUS
<1>2. /\ IsFiniteSet(R) /\ Cardinality(R) = Cardinality(S) - 1
      /\ Cardinality(R) \in Nat /\ Cardinality(S) \in Nat
  BY <1>1, FS_RemoveElement, FS_CardinalityType
<1>3. IsFiniteSet(R \cup {y}) /\ Cardinality(R \cup {y}) <= Cardinality(R) + 1
  <2>1. /\ IsFiniteSet(R \cup {y})
        /\ \/ Cardinality(R \cup {y}) = Cardinality(R)
           \/ Cardinality(R \cup {y}) = Cardinality(R) + 1
    BY <1>2, FS_AddElement
  <2> QED
    BY <1>2, <2>1
<1>4. T \in SUBSET (R \cup {y})
  BY <1>1
<1>5. /\ Cardinality(T) <= Cardinality(R \cup {y})
      /\ Cardinality(T) \in Nat /\ Cardinality(R \cup {y}) \in Nat
  BY <1>3, <1>4, FS_Subset, FS_CardinalityType
<1> QED
  BY <1>2, <1>3, <1>5

(***************************************************************************)
(* A step that stores no code, delivers no token and starts no request of  *)
(* the agent adds nothing.                                                 *)
(***************************************************************************)
LEMMA NothingAdded ==
    ASSUME ClaimsInv, Kept, CodesKept, NEW a \in Agent,
           live' \subseteq live, delivered' \subseteq delivered,
           blacklist \subseteq blacklist',
           \A r \in Request : UnderWay(r, a)' => UnderWay(r, a)
    PROVE  Outstanding(a)' \subseteq Outstanding(a)
<1>1. \A c \in live' : c \in live /\ codeData'[c] = codeData[c]
  BY DEF CodesKept, ClaimsInv, CodesLawful, TypeOK
<1>2. \A j \in Accepted' : j \in Accepted /\ token'[j] = token[j]
  BY DEF Accepted, Kept, ClaimsInv, TypeOK
<1> QED
  BY <1>1, <1>2 DEF Outstanding, UnderWay

(***************************************************************************)
(* The steps of the other handlers add nothing for the agent; a new        *)
(* authorization needs it ACTIVE.                                          *)
(***************************************************************************)
LEMMA OtherSteps ==
    ASSUME ClaimsInv, Kept, CodesKept, NEW a \in Agent, status[a] # "ACTIVE",
           NEW r \in Request,
           \/ \E b \in Agent, i \in Call \cup {None} : Exchange(r, b, i)
           \/ \E j \in Minted, b \in Agent, s \in SUBSET Scope : Delegate(r, j, b, s)
           \/ \E b \in Operated : Suspend(r, b)
           \/ SweepIndex(r)
           \/ CommitSuspend(r)
           \/ Abort(r)
           \/ \E d \in AuthorizeRequest : Authorize(r, d),
           live' = live
    PROVE  Outstanding(a)' \subseteq Outstanding(a)
<1> USE DEF ClaimsInv
<1>1. delivered' = delivered /\ blacklist \subseteq blacklist'
  BY DEF Exchange, Delegate, Suspend, SweepIndex, CommitSuspend, Abort, Authorize
<1>2. \A s \in Request \ {r} : req'[s] = req[s]
  BY DEF Exchange, Delegate, Suspend, SweepIndex, CommitSuspend, Abort,
         Authorize, TypeOK
<1>3. ~ UnderWay(r, a)'
  <2>1. CASE \E b \in Agent, i \in Call \cup {None} : Exchange(r, b, i)
    BY <2>1 DEF Exchange, Minting, TypeOK, UnderWay
  <2>2. CASE \E j \in Minted, b \in Agent, s \in SUBSET Scope : Delegate(r, j, b, s)
    BY <2>2 DEF Delegate, Minting, TypeOK, UnderWay
  <2>3. CASE (\E b \in Operated : Suspend(r, b)) \/ SweepIndex(r)
    <3>1. req'[r].pc \in {"sweep", "swept"}
      BY <2>3, Shape DEF Suspend, SweepIndex, SweepState, TypeOK
    <3> QED
      BY <3>1 DEF UnderWay
  <2>4. CASE CommitSuspend(r) \/ Abort(r)
    BY <2>4 DEF CommitSuspend, Abort, Idle, TypeOK, UnderWay
  <2>5. CASE \E d \in AuthorizeRequest : Authorize(r, d)
    <3>1. PICK d \in AuthorizeRequest : Authorize(r, d)
      BY <2>5
    <3>2. d.agent # a
      BY <3>1 DEF Authorize, Permitted
    <3>3. req'[r] = [pc |-> "store", data |-> d]
      BY <3>1 DEF Authorize, TypeOK
    <3> QED
      BY <3>2, <3>3 DEF UnderWay
  <2> QED
    BY <2>1, <2>2, <2>3, <2>4, <2>5
<1>4. \A s \in Request : UnderWay(s, a)' => UnderWay(s, a)
  BY <1>2, <1>3 DEF UnderWay
<1> QED
  BY <1>1, <1>4, NothingAdded

(***************************************************************************)
(* A redemption under way stays the same agent's.                          *)
(***************************************************************************)
LEMMA MintSteps ==
    ASSUME ClaimsInv, Kept, CodesKept, NEW a \in Agent, NEW r \in Request,
           (\E j \in Jti : Mint(r, j)) \/ Resolve(r), live' = live
    PROVE  Outstanding(a)' \subseteq Outstanding(a)
<1> USE DEF ClaimsInv
<1>1. delivered' = delivered /\ blacklist' = blacklist
  BY DEF Mint, Resolve
<1>2. \A s \in Request \ {r} : req'[s] = req[s]
  BY DEF Mint, Resolve, TypeOK
<1>3. UnderWay(r, a)' => UnderWay(r, a)
  <2>1. ASSUME NEW j \in Jti, Mint(r, j)
        PROVE  UnderWay(r, a)' => UnderWay(r, a)
    <3>1. req[r] \in MintState
      BY <2>1, MintWrites
    <3>2. /\ req'[r].pc = "answer" /\ req'[r].claims = req[r].claims
          /\ req'[r].op = req[r].op /\ req[r].pc = "mint"
      BY <2>1, <3>1 DEF Mint, TypeOK, MintState
    <3> QED
      BY <3>2 DEF UnderWay
  <2>2. ASSUME Resolve(r) PROVE UnderWay(r, a)' => UnderWay(r, a)
    <3>1. PICK u \in User \cup {None} :
              req'[r] = Minting("oauth", RedeemedClaims(req[r].data, u),
                                None, req[r].via)
      BY <2>2, ResolveSound
    <3> QED
      BY <2>2, <3>1 DEF Resolve, Minting, RedeemedClaims, UnderWay
  <2> QED
    BY <2>1, <2>2
<1>4. \A s \in Request : UnderWay(s, a)' => UnderWay(s, a)
  BY <1>2, <1>3 DEF UnderWay
<1> QED
  BY <1>1, <1>4, NothingAdded

(***************************************************************************)
(* A trade for the agent, or a step that adds nothing.                     *)
(***************************************************************************)
Trades(a) ==
    \/ Outstanding(a)' \subseteq Outstanding(a)
    \/ \E x \in Outstanding(a), y \in Code \cup Request \cup Jti :
          Outstanding(a)' \subseteq (Outstanding(a) \ {x}) \cup {y}

LEMMA StoreTrades ==
    ASSUME ClaimsInv, Kept, CodesKept, NEW a \in Agent, NEW r \in Request,
           NEW c \in Code, AuthorizeStore(r, c)
    PROVE  Trades(a)
<1> USE DEF ClaimsInv
<1>1. /\ live' = live \cup {c} /\ codeData'[c] = req[r].data
      /\ req'[r] = Idle
      /\ \A s \in Request \ {r} : req'[s] = req[s]
      /\ Accepted' = Accepted /\ token' = token /\ req[r].pc = "store"
  BY DEF AuthorizeStore, TypeOK, Accepted
<1>2. \A k \in live : codeData'[k] = codeData[k]
  BY DEF CodesKept, CodesLawful, TypeOK
<1>3. ~ UnderWay(r, a)' /\ (UnderWay(r, a) <=> req[r].data.agent = a)
  BY <1>1 DEF UnderWay, Idle
<1>4. \A s \in Request \ {r} : UnderWay(s, a)' <=> UnderWay(s, a)
  BY <1>1 DEF UnderWay
<1>5. r \notin live' /\ r \notin Accepted
  BY OAuthAssumption DEF Accepted, Minted, TypeOK, AuthorizeStore
<1>6. Outstanding(a)' \subseteq
         (Outstanding(a) \ {r}) \cup (IF req[r].data.agent = a THEN {c} ELSE {})
  BY <1>1, <1>2, <1>3, <1>4, <1>5, OutstandingParts DEF UnderWay, Outstanding
<1>7. req[r].data.agent = a => r \in Outstanding(a)
  BY <1>3, OutstandingParts
<1> QED
  BY <1>6, <1>7 DEF Trades

LEMMA TakeTrades ==
    ASSUME ClaimsInv, Kept, CodesKept, NEW a \in Agent, NEW r \in Request,
           NEW c \in Code, NEW p \in Presentation, Take(r, c, p)
    PROVE  Trades(a)
<1> USE DEF ClaimsInv
<1>1. /\ live' = live \ {c} /\ codeData' = codeData /\ c \in live
      /\ delivered' = delivered /\ blacklist' = blacklist /\ token' = token
      /\ \A s \in Request \ {r} : req'[s] = req[s]
  BY DEF Take, GetDel, TypeOK
<1>2. CASE UnderWay(r, a)' => UnderWay(r, a)
  <2>1. \A s \in Request : UnderWay(s, a)' => UnderWay(s, a)
    BY <1>1, <1>2 DEF UnderWay
  <2> QED
    BY <1>1, <2>1, NothingAdded DEF Trades
<1>3. CASE UnderWay(r, a)' /\ ~ UnderWay(r, a)
  <2>1. Matches(p, codeData[c])
    BY <1>3 DEF Take, UnderWay
  <2>2. req'[r].pc = "resolve" /\ req'[r].data = codeData[c]
    BY <2>1 DEF Take, TypeOK
  <2>3. codeData[c].agent = a
    BY <1>3, <2>2 DEF UnderWay
  <2>4. c \in Outstanding(a)
    BY <1>1, <2>3 DEF Outstanding
  <2>5. c \notin Request /\ c \notin Accepted'
    BY <1>1, OAuthAssumption DEF Accepted, Minted, TypeOK
  <2>6. Accepted' = Accepted
    BY <1>1 DEF Accepted
  <2>7. \A s \in Request \ {r} : UnderWay(s, a)' <=> UnderWay(s, a)
    BY <1>1 DEF UnderWay
  <2>8. Outstanding(a)' \subseteq (Outstanding(a) \ {c}) \cup {r}
    BY <1>1, <2>5, <2>6, <2>7 DEF UnderWay, Outstanding
  <2> QED
    BY <2>4, <2>8 DEF Trades
<1> QED
  BY <1>2, <1>3

LEMMA AnswerTrades ==
    ASSUME ClaimsInv, Answers, Kept, CodesKept, NEW a \in Agent,
           NEW r \in Request, Answer(r), UNCHANGED oauthVars
    PROVE  Trades(a)
<1> USE DEF ClaimsInv
<1>1. PICK j : j = req[r].jti
  OBVIOUS
<1>2. /\ j \in Minted /\ j \in Jti
      /\ token[j].claims = req[r].claims /\ token[j].via = req[r].via
      /\ token[j].via # None => req[r].op = "oauth"
      /\ req[r].pc = "answer"
  BY <1>1 DEF Answer, Answers, AnswersFor, RequestSound, Minted
<1>3. /\ delivered' = delivered \cup {j} /\ blacklist' = blacklist
      /\ token' = token /\ live' = live /\ codeData' = codeData
      /\ req'[r] = Idle
      /\ \A s \in Request \ {r} : req'[s] = req[s]
  BY <1>1 DEF Answer, oauthVars, TypeOK
<1>4. ~ UnderWay(r, a)'
  BY <1>3 DEF UnderWay, Idle
<1>5. \A s \in Request \ {r} : UnderWay(s, a)' <=> UnderWay(s, a)
  BY <1>3 DEF UnderWay
<1>6. Accepted' \subseteq Accepted \cup {j}
  BY <1>3 DEF Accepted
<1>7. r \notin live' /\ r \notin Accepted'
  BY <1>2, <1>3, OAuthAssumption DEF Accepted, Minted, TypeOK
<1>8. CASE token[j].via # None /\ token[j].claims.agent = a
  <2>1. UnderWay(r, a)
    BY <1>2, <1>8 DEF UnderWay
  <2>2. r \in Outstanding(a)
    BY <2>1, OutstandingParts
  <2>3. Outstanding(a)' \subseteq (Outstanding(a) \ {r}) \cup {j}
    BY <1>3, <1>4, <1>5, <1>6, <1>7 DEF UnderWay, Outstanding
  <2> QED
    BY <1>2, <2>2, <2>3 DEF Trades
<1>9. CASE ~ (token[j].via # None /\ token[j].claims.agent = a)
  <2>1. Outstanding(a)' \subseteq Outstanding(a)
    BY <1>3, <1>4, <1>5, <1>6, <1>9 DEF UnderWay, Outstanding
  <2> QED
    BY <2>1 DEF Trades
<1> QED
  BY <1>8, <1>9

(***************************************************************************)
(* For any number of authorizations, redemptions and suspensions under     *)
(* way: once suspend has committed, the code flow brings nothing into the  *)
(* world for the agent that was not authorized before                      *)
(* (build_authorization_redirect, exchange_authorization_code).            *)
(***************************************************************************)
THEOREM StaleConsentBoundedHolds == Spec => StaleConsentBounded
<1>1. ASSUME ClaimsInv, Answers, [Next]_vars, NEW a \in Agent,
             status[a] # "ACTIVE"
      PROVE  Trades(a)
  <2>1. Kept /\ CodesKept
    BY <1>1, NothingTakenBack, CodesWrittenOnce DEF ClaimsInv
  <2>2. ASSUME NEW r \in Request, ClaimsStep(r), UNCHANGED oauthVars
        PROVE  Trades(a)
    <3>1. live' = live
      BY <2>2 DEF oauthVars
    <3>2. CASE Answer(r)
      BY <1>1, <2>1, <2>2, <3>2, AnswerTrades
    <3>3. CASE \E j \in Jti : Mint(r, j)
      BY <1>1, <2>1, <3>1, <3>3, MintSteps DEF Trades
    <3>4. CASE ~ Answer(r) /\ ~ \E j \in Jti : Mint(r, j)
      BY <1>1, <2>1, <2>2, <3>1, <3>4, OtherSteps DEF Trades, ClaimsStep
    <3> QED
      BY <3>2, <3>3, <3>4
  <2>3. ASSUME NEW r \in Request, NEW d \in AuthorizeRequest, Authorize(r, d)
        PROVE  Trades(a)
    <3>1. live' = live
      BY <2>3 DEF Authorize, oauthVars
    <3> QED
      BY <1>1, <2>1, <2>3, <3>1, OtherSteps DEF Trades
  <2>4. ASSUME NEW r \in Request, Resolve(r) PROVE Trades(a)
    <3>1. live' = live
      BY <2>4 DEF Resolve, oauthVars
    <3> QED
      BY <1>1, <2>1, <2>4, <3>1, MintSteps DEF Trades
  <2>5. CASE /\ UNCHANGED <<req, delivered, blacklist>>
             /\ live' \subseteq live
    <3>1. \A r \in Request : UnderWay(r, a)' => UnderWay(r, a)
      BY <2>5 DEF UnderWay
    <3> QED
      BY <1>1, <2>1, <2>5, <3>1, NothingAdded DEF Trades
  <2> QED
    BY <1>1, <2>1, <2>2, <2>3, <2>4, <2>5, StoreTrades, TakeTrades
    DEF Next, vars, claimVars, oauthVars, ClaimsNext, GrantOnBehalfOf,
        RevokeOnBehalfOf, GrantLapses, register_client, CodeExpires
<1>2. ASSUME ClaimsInv, NEW a \in Agent, Trades(a)
      PROVE  Cardinality(Outstanding(a)') <= Cardinality(Outstanding(a))
  <2>1. IsFiniteSet(Outstanding(a))
    BY <1>2, OutstandingFinite DEF ClaimsInv
  <2>2. CASE Outstanding(a)' \subseteq Outstanding(a)
    BY <2>1, <2>2, FS_Subset
  <2>3. CASE \E x \in Outstanding(a), y \in Code \cup Request \cup Jti :
                Outstanding(a)' \subseteq (Outstanding(a) \ {x}) \cup {y}
    BY <2>1, <2>3, Traded
  <2> QED
    BY <1>2, <2>2, <2>3 DEF Trades
<1>3. ClaimsInv /\ Answers /\ [Next]_vars =>
         [\A a \in Agent :
             status[a] # "ACTIVE" =>
                 Cardinality(Outstanding(a)') <= Cardinality(Outstanding(a))]_vars
  BY <1>1, <1>2
<1> QED
  BY <1>3, ClaimsInvariance, AnswersInvariance, PTL DEF Spec, StaleConsentBounded
=============================================================================
