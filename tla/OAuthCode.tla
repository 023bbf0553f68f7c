----------------------------- MODULE OAuthCode -----------------------------
(***************************************************************************)
(* The authorization server of services/oauth_service.py: clients are      *)
(* registered by operators, /authorize turns an operator's request into a  *)
(* code in Redis, /token turns a code into an agent token.  The code is    *)
(* fetched and deleted by one GETDEL before anything about the request is  *)
(* checked; the agent's status and bindings were checked at /authorize and *)
(* are not looked at again.  Minting, the human resolved for the token,    *)
(* its entry in the agent's index and suspension are those of TokenClaims. *)
(*                                                                         *)
(* One organisation: what another one registered is as good as not         *)
(* registered.                                                             *)
(***************************************************************************)
EXTENDS TokenClaims

CONSTANTS
    Client,           \* bound: client_ids that may ever be registered
    Uri,              \* redirect URIs
    Https,            \* those with the scheme https
    RemoteHttp,       \* those with the scheme http and no loopback host
    Verifier,         \* PKCE code verifiers
    Code,             \* bound: codes that may ever be issued
    AuthorizeRequest  \* bound: the requests operators make

(***************************************************************************)
(* _s256_challenge: one-to-one on verifiers, as far as anyone can tell.    *)
(***************************************************************************)
S256(v) == <<"S256", v>>

(***************************************************************************)
(* What /authorize is asked for, and what it stores under oauth_code:.     *)
(***************************************************************************)
CodeData ==
    [client_id      : Client,
     redirect_uri   : Uri,
     code_challenge : {S256(v) : v \in Verifier},
     agent          : Agent,
     scopes         : SUBSET Scope,
     resource       : Server \cup {None},
     tool_name      : Tool \cup {None}]

(***************************************************************************)
(* What comes with a code at /token, by a registered client or not.        *)
(***************************************************************************)
Presentation ==
    [client_id    : Client \cup {None},
     redirect_uri : Uri,
     verifier     : Verifier,
     resource     : Server \cup {None}]

Via == [code : Code, presented : Presentation]

ASSUME OAuthAssumption ==
    /\ AuthorizeRequest \subseteq CodeData
    /\ Https \subseteq Uri
    /\ RemoteHttp \subseteq Uri \ Https
    /\ None \notin Client \cup Tool \cup Code
    /\ None \notin CodeData
    /\ None \notin Via
    /\ None \notin TokenRecord(Via)
    /\ IsFiniteSet(Code) /\ IsFiniteSet(Request) /\ IsFiniteSet(Jti)
    /\ Code \cap Request = {} /\ Code \cap Jti = {} /\ Request \cap Jti = {}

VARIABLES
    client,     \* oauth_clients: the redirect_uris of a client, none before
    codeData,   \* what was stored for a code, None before
    live        \* Redis: the codes whose key is there

oauthVars == <<client, codeData, live>>

vars == <<claimVars, oauthVars>>

(***************************************************************************)
(* Requests in flight: about to mint or answer, sweeping, storing a code,  *)
(* redeeming one.                                                          *)
(***************************************************************************)
MintState ==
    [pc : {"mint", "answer"}, op : {"exchange", "delegate", "oauth"},
     claims : Claims, parent : Jti \cup {None}, via : Via \cup {None},
     jti : Jti \cup {None}]

SweepState == [pc : {"sweep", "swept"}, agent : Agent, members : SUBSET Jti]

StoreState == [pc : {"store"}, data : CodeData]

ResolveState == [pc : {"resolve"}, data : CodeData, via : Via]

RequestState == {Idle} \cup MintState \cup SweepState \cup StoreState
                       \cup ResolveState

TypeOK ==
    /\ status \in [Agent -> {"ACTIVE", "SUSPENDED"}]
    /\ grant \in [Grant -> GrantRow \cup {None}]
    /\ active \subseteq Grant
    /\ token \in [Jti -> TokenRecord(Via) \cup {None}]
    /\ delivered \subseteq Minted
    /\ index \in [Agent -> SUBSET Minted]
    /\ blacklist \subseteq Minted
    /\ client \in [Client -> SUBSET Uri]
    /\ codeData \in [Code -> CodeData \cup {None}]
    /\ live \subseteq Code
    /\ req \in [Request -> RequestState]

-----------------------------------------------------------------------------
(***************************************************************************)
(* _validate_redirect_uris: a web client's are https; a native client's    *)
(* may be anything but http to another host.                               *)
(***************************************************************************)
ValidRedirectUris(type, uris) ==
    IF type = "web" THEN uris \subseteq Https ELSE uris \cap RemoteHttp = {}

register_client(c, type, uris) ==
    /\ client[c] = {}
    /\ uris # {}
    /\ ValidRedirectUris(type, uris)
    /\ client' = [client EXCEPT ![c] = uris]
    /\ UNCHANGED <<claimVars, codeData, live>>

\* Mutant: the agent's status is left to the token endpoint.
Permitted_AnyStatus(d) ==
    /\ d.redirect_uri \in client[d.client_id]
    /\ d.scopes \subseteq AllowedScopes[d.agent]
    /\ d.resource # None => d.resource \in Bound[d.agent]
    /\ d.tool_name # None => <<d.resource, d.tool_name>> \in Reach[d.agent]
    /\ d.scopes \cap TaskScoped # {} => d.tool_name # None

(***************************************************************************)
(* The checks of build_authorization_redirect.  A request that fails one   *)
(* is answered with an error and changes nothing.                          *)
(***************************************************************************)
Permitted(d) ==
    /\ d.redirect_uri \in client[d.client_id]
    /\ status[d.agent] = "ACTIVE"
    /\ d.scopes \subseteq AllowedScopes[d.agent]
    /\ d.resource # None => d.resource \in Bound[d.agent]
    /\ d.tool_name # None => <<d.resource, d.tool_name>> \in Reach[d.agent]
    /\ d.scopes \cap TaskScoped # {} => d.tool_name # None

Authorize(r, d) ==
    /\ req[r] = Idle
    /\ Permitted(d)
    /\ req' = [req EXCEPT ![r] = [pc |-> "store", data |-> d]]
    /\ UNCHANGED <<status, grants, token, delivered, index, blacklist,
                   oauthVars>>

(***************************************************************************)
(* SET oauth_code:{code}; the user agent is sent to the redirect_uri.      *)
(***************************************************************************)
AuthorizeStore(r, c) ==
    /\ req[r].pc = "store"
    /\ codeData[c] = None
    /\ codeData' = [codeData EXCEPT ![c] = req[r].data]
    /\ live' = live \cup {c}
    /\ req' = [req EXCEPT ![r] = Idle]
    /\ UNCHANGED <<status, grants, token, delivered, index, blacklist,
                   client>>

(***************************************************************************)
(* OAUTH_AUTHORIZATION_CODE_TTL_SECONDS have passed.                       *)
(***************************************************************************)
CodeExpires(c) ==
    /\ c \in live
    /\ live' = live \ {c}
    /\ UNCHANGED <<claimVars, client, codeData>>

-----------------------------------------------------------------------------
(***************************************************************************)
(* Client, redirect, verifier and, if the code is bound to one, resource.  *)
(***************************************************************************)
Matches(p, d) ==
    /\ p.client_id = d.client_id
    /\ p.redirect_uri = d.redirect_uri
    /\ S256(p.verifier) = d.code_challenge
    /\ d.resource # None => p.resource = d.resource

\* Mutant: GET first, DEL with the mint.
GetDel_Get(c) == UNCHANGED live

(***************************************************************************)
(* GETDEL oauth_code:{code}: of several requests only one finds the key.   *)
(***************************************************************************)
GetDel(c) == live' = live \ {c}

(***************************************************************************)
(* exchange_authorization_code up to its next await.  A presentation that  *)
(* does not match has used the code up all the same.                       *)
(***************************************************************************)
Take(r, c, p) ==
    /\ req[r] = Idle
    /\ c \in live
    /\ GetDel(c)
    /\ req' = IF Matches(p, codeData[c])
              THEN [req EXCEPT ![r] =
                      [pc |-> "resolve", data |-> codeData[c],
                       via |-> [code |-> c, presented |-> p]]]
              ELSE req
    /\ UNCHANGED <<status, grants, token, delivered, index, blacklist,
                   client, codeData>>

\* Mutant: the details name the tool and not its server.
RedeemedClaims_ToolOnly(d, u) ==
    [agent |-> d.agent, scopes |-> Converted(d.scopes),
     resource |-> d.resource, task |-> d.tool_name, on_behalf_of |-> u]

(***************************************************************************)
(* The claims of the token to be minted; the agent is read again, but only *)
(* for the human behind it.                                                *)
(***************************************************************************)
RedeemedClaims(d, u) ==
    [agent |-> d.agent, scopes |-> Converted(d.scopes),
     resource |-> d.resource,
     task |-> IF d.tool_name = None THEN None
              ELSE <<d.resource, d.tool_name>>,
     on_behalf_of |-> u]

Resolve(r) ==
    LET q == req[r] IN
    /\ q.pc = "resolve"
    /\ \E u \in resolve_on_behalf_of(q.data.agent, q.data.scopes) :
          req' = [req EXCEPT ![r] =
                    Minting("oauth", RedeemedClaims(q.data, u), None, q.via)]
    /\ UNCHANGED <<status, grants, token, delivered, index, blacklist,
                   oauthVars>>

Init ==
    /\ ClaimsInit
    /\ client = [c \in Client |-> {}]
    /\ codeData = [c \in Code |-> None]
    /\ live = {}

Next ==
    \/ ClaimsNext /\ UNCHANGED oauthVars
    \/ \E c \in Client, type \in {"web", "native"}, uris \in SUBSET Uri :
          register_client(c, type, uris)
    \/ \E r \in Request :
          \/ \E d \in AuthorizeRequest : Authorize(r, d)
          \/ \E c \in Code : AuthorizeStore(r, c)
          \/ \E c \in Code, p \in Presentation : Take(r, c, p)
          \/ Resolve(r)
    \/ \E c \in Code : CodeExpires(c)

Spec == Init /\ [][Next]_vars
-----------------------------------------------------------------------------
(***************************************************************************)
(* The consent a token that was minted for a code amounts to.              *)
(***************************************************************************)
Amounts(t) ==
    [client_id      |-> t.via.presented.client_id,
     redirect_uri   |-> t.via.presented.redirect_uri,
     code_challenge |-> S256(t.via.presented.verifier),
     agent          |-> t.claims.agent,
     scopes         |-> t.claims.scopes,
     resource       |-> t.claims.resource,
     tool_name      |-> IF t.claims.task = None THEN None ELSE t.claims.task[2]]

Redeemed(c) ==
    {j \in Minted : token[j].via # None /\ token[j].via.code = c}

(***************************************************************************)
(* A request has taken the code and not yet minted its token.              *)
(***************************************************************************)
Holds(r, c) ==
    /\ \/ req[r].pc = "resolve"
       \/ req[r].pc = "mint" /\ req[r].op = "oauth"
    /\ req[r].via.code = c

(***************************************************************************)
(* What was consented to, as far as its scopes mean anything in a token.   *)
(***************************************************************************)
Understood(d) == [d EXCEPT !.scopes = Converted(@)]

OneTime == INSTANCE OneTimeCode
    WITH Consent <- CodeData,
         consent <- [c \in Code |-> IF codeData[c] = None THEN None
                                    ELSE Understood(codeData[c])],
         open    <- live \cup {c \in Code : \E r \in Request : Holds(r, c)},
         issued  <- [c \in Code |->
                       {<<j, Amounts(token[j])>> : j \in Redeemed(c)}]

(***************************************************************************)
(* "A code can never be redeemed twice, even under concurrent requests     *)
(* racing each other"; and the one token that comes of it does what the    *)
(* operator authorized, but for scopes that no token can carry, and was    *)
(* fetched by the client, redirect and verifier it was authorized for,     *)
(* expiry, failed attempts and failing requests notwithstanding.           *)
(***************************************************************************)
ImplementsOneTimeCode == OneTime!Spec

(***************************************************************************)
(* What the code flow can still bring, or has brought, into the world for  *)
(* an agent: requests under way, codes, tokens that are accepted.          *)
(***************************************************************************)
Outstanding(a) ==
    {c \in live : codeData[c].agent = a}
    \cup {r \in Request : \/ req[r].pc \in {"store", "resolve"}
                             /\ req[r].data.agent = a
                          \/ req[r].pc \in {"mint", "answer"}
                             /\ req[r].op = "oauth"
                             /\ req[r].claims.agent = a}
    \cup {j \in Accepted : token[j].via # None /\ token[j].claims.agent = a}

(***************************************************************************)
(* The status is checked at /authorize only, so a code may turn into a     *)
(* token after suspend has committed; but from then on nothing is added:   *)
(* every such token goes back to a request or a code that was there.       *)
(***************************************************************************)
StaleConsentBounded ==
    [][\A a \in Agent :
          status[a] # "ACTIVE" =>
              Cardinality(Outstanding(a)') <= Cardinality(Outstanding(a))]_vars
=============================================================================
