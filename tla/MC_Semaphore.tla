---------------------------- MODULE MC_Semaphore ----------------------------
(***************************************************************************)
(* Model checking of Semaphore: all coroutines on one context, or each on  *)
(* a context of its own.                                                   *)
(***************************************************************************)
EXTENDS Semaphore

CONSTANTS k1, k2, k3, k4, ctx

OwnContext == {[k \in Coros |-> k]}

OneOrOwnContext == OwnContext \cup {[k \in Coros |-> ctx]}
=============================================================================
