-------------------------- MODULE MCAuditVerifier --------------------------
(***************************************************************************)
(* Instances of AuditVerifier for TLC.                                     *)
(***************************************************************************)
EXTENDS AuditVerifier, TLC

CONSTANTS o1, o2

TwoOrgs == {o1, o2}

MCLockKey == [o \in Org |-> o]
=============================================================================
