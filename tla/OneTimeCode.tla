---------------------------- MODULE OneTimeCode ----------------------------
(***************************************************************************)
(* What an authorization code promises: the consent an operator gave turns *)
(* into at most one token.  A consent says what the token may do and who   *)
(* must come for it, and the token that comes of it is exactly that.       *)
(***************************************************************************)
CONSTANTS Code, Consent, Jti, None

VARIABLES
    consent,    \* what was consented to, None before
    open,       \* codes that may still turn into a token
    issued      \* the tokens that came of a code: <<jti, as what>>

Init ==
    /\ consent = [c \in Code |-> None]
    /\ open = {}
    /\ issued = [c \in Code |-> {}]

Give(c) ==
    /\ consent[c] = None
    /\ consent'[c] \in Consent
    /\ consent' = [consent EXCEPT ![c] = consent'[c]]
    /\ open' = open \cup {c}
    /\ UNCHANGED issued

Redeem(c, j) ==
    /\ c \in open
    /\ open' = open \ {c}
    /\ issued' = [issued EXCEPT ![c] = @ \cup {<<j, consent[c]>>}]
    /\ UNCHANGED consent

Lapse(c) ==
    /\ c \in open
    /\ open' = open \ {c}
    /\ UNCHANGED <<consent, issued>>

Next ==
    \E c \in Code : \/ Give(c)
                    \/ \E j \in Jti : Redeem(c, j)
                    \/ Lapse(c)

Spec == Init /\ [][Next]_<<consent, open, issued>>
=============================================================================
