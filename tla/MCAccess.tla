------------------------------ MODULE MCAccess ------------------------------
(***************************************************************************)
(* A small instance of Access and one of ApiKeys.  They share no variable, *)
(* so each is explored by itself: `scene` says which.                      *)
(***************************************************************************)
EXTENDS Access, ApiKeys, TLC

VARIABLE scene

vars == <<scene, accessVars, keyVars>>

Init ==
  /\ AccessInit /\ KeysInit
  /\ scene \in {"access", "keys"}
  /\ scene = "access" => ~apiAccess
  /\ scene = "keys" => role = "AGENT"

Next ==
  /\ \/ scene = "access" /\ AccessNext /\ UNCHANGED keyVars
     \/ scene = "keys" /\ KeysNext /\ UNCHANGED accessVars
  /\ UNCHANGED scene

Spec == Init /\ [][Next]_vars

\* Both parts keep their types.
TypeOK == AccessTypeOK /\ KeysTypeOK

Interchangeable ==
  Permutations(Requests) \cup Permutations(Pins) \cup Permutations(Secrets)

=============================================================================
