----------------------------- MODULE MCMetering -----------------------------
(***************************************************************************)
(* Small instances of Metering.  A quota of 2 has no warning range (1 of 2 *)
(* is 50%), 5 has: the fourth verification reaches 80%.  Of a quota of 3   *)
(* the second reaches 60%.                                                 *)
(***************************************************************************)
EXTENDS Metering, TLC

CONSTANTS t1, t2, starter, growth, QuotaStarter, QuotaGrowth

MCQuota == (starter :> QuotaStarter) @@ (growth :> QuotaGrowth)

ThreadSymmetry == Permutations(Threads)

=============================================================================
