----------------------------- MODULE MCPayments -----------------------------
(***************************************************************************)
(* Small instances of Payments: a first payment for the sign-up plan and a *)
(* renewal, or an upgrade, that overlaps it.                               *)
(***************************************************************************)
EXTENDS Payments, TLC

CONSTANTS p1, p2, starter, growth

MCQuota == (starter :> 1) @@ (growth :> 1)

MCPlanOf == [p \in Payments |-> IF p = p1 THEN starter ELSE growth]

=============================================================================
