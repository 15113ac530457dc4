---------------------------- MODULE PaymentLedger ----------------------------
(***************************************************************************)
(* What the payment records promise, whatever polls and callbacks do: a    *)
(* payment appears as PENDING, and leaves PENDING at most once, for the    *)
(* outcome the provider reached for its collection.                        *)
(***************************************************************************)
CONSTANT Payments

VARIABLES
  ledger,    \* ledger[p]: "absent" or the status of p's row
  outcome    \* outcome[p]: what became of the money: undecided until final

vars == <<ledger, outcome>>

StatusFor == [collected |-> "SUCCESSFUL", declined |-> "FAILED"]

Init ==
  /\ ledger = [p \in Payments |-> "absent"]
  /\ outcome = [p \in Payments |-> "undecided"]

Record(p) ==
  /\ ledger[p] = "absent"
  /\ ledger' = [ledger EXCEPT ![p] = "PENDING"]
  /\ UNCHANGED outcome

Decide(p) ==
  /\ outcome[p] = "undecided"
  /\ \E o \in {"collected", "declined"} : outcome' = [outcome EXCEPT ![p] = o]
  /\ UNCHANGED ledger

Conclude(p) ==
  /\ ledger[p] = "PENDING"
  /\ outcome[p] # "undecided"
  /\ ledger' = [ledger EXCEPT ![p] = StatusFor[outcome[p]]]
  /\ UNCHANGED outcome

Next == \E p \in Payments : Record(p) \/ Decide(p) \/ Conclude(p)

Spec == Init /\ [][Next]_vars

=============================================================================
