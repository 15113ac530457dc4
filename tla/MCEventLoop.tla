---------------------------- MODULE MCEventLoop ----------------------------
(***************************************************************************)
(* A small instance of EventLoop: more requests than connections, so that  *)
(* waiting for the pool and waiting for the row both occur.                *)
(***************************************************************************)
EXTENDS EventLoop, TLC

MCDefaults == [k \in PrefKeys |-> FALSE]

=============================================================================
