---------------------------- MODULE AuditLedger ----------------------------
(***************************************************************************)
(* What the audit trail promises its callers: per organisation one         *)
(* append-only sequence of events.  Entries appear one at a time, at the   *)
(* end, and nothing that was recorded ever changes or moves.               *)
(***************************************************************************)
EXTENDS Sequences

CONSTANTS Org, Content

VARIABLE ledger

Init == ledger = [o \in Org |-> << >>]

Record(o, c) == ledger' = [ledger EXCEPT ![o] = Append(@, c)]

Next == \E o \in Org, c \in Content : Record(o, c)

Spec == Init /\ [][Next]_ledger
=============================================================================
