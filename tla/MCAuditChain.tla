---------------------------- MODULE MCAuditChain ----------------------------
(***************************************************************************)
(* The instance of AuditChain for TLC: three organisations, of which two   *)
(* share an advisory lock key and one has a key of its own.                *)
(***************************************************************************)
EXTENDS AuditChain

CONSTANTS o1, o2, o3

MCOrg == {o1, o2, o3}

MCLockKey == [o \in Org |-> IF o = o3 THEN 3 ELSE 1]
=============================================================================
