---------------------------- MODULE MCTokenClock ----------------------------
(***************************************************************************)
(* Instances of TokenClock for TLC: three ticks to the second, tokens of   *)
(* two seconds, two access tokens and a delegation token.                  *)
(***************************************************************************)
EXTENDS TokenClock
=============================================================================
