--------------------------- MODULE MCVerifications ---------------------------
(***************************************************************************)
(* Small instances of Verifications: a capture that passes every stage, a  *)
(* near miss for the review queue, and one that is rejected.               *)
(***************************************************************************)
EXTENDS Verifications, TLC

Scored(liveness, face) ==
  [read |-> TRUE, expired |-> FALSE, liveness |-> liveness, face |-> face]

Clean == Scored(95, 90)
NearMiss == Scored(60, 59)
Spoof == Scored(29, 90)

MCCaptures == {Clean, NearMiss, Spoof}

Interchangeable ==
  Permutations(Submissions) \cup Permutations(Clients)
    \cup Permutations(Persons) \cup Permutations(Managers)

=============================================================================
