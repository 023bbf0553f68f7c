-------------------------- MODULE MCApiKeyRotation --------------------------
(***************************************************************************)
(* Instances of ApiKeyRotation for TLC.  The unit of time is a fifth of    *)
(* the default lifetime (six days), so a key is due at age 4 and expires   *)
(* at 5; one issued for 1 expires long before it is due.                   *)
(***************************************************************************)
EXTENDS ApiKeyRotation, TLC

ShortAndDefault == {1, DefaultTtl}

Symmetry == Permutations(Key) \cup Permutations(Request) \cup Permutations(Worker)
=============================================================================
