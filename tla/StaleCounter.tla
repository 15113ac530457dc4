---------------------------- MODULE StaleCounter ----------------------------
(***************************************************************************)
(* A counter that is read, worked on for a while and written back as the   *)
(* copy plus one, by several users at a time: failed logins (Access) and   *)
(* the usage of an account (Metering).  Increments are lost, so counting   *)
(* to the limit may take more of them than the limit.  How many more is    *)
(* bounded by what the users can have seen of the counter.                 *)
(***************************************************************************)
EXTENDS Naturals, FiniteSets

\* How many of the users S have seen each value in 0..n.
Profile(S, n, seen) == [k \in 0..n |-> Cardinality({q \in S : seen[q] = k})]

Profiles(S, n) == {Profile(S, n, seen) : seen \in [S -> 0..n]}

=============================================================================
