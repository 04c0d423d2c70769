--------------------------- MODULE MC_SharedTask ---------------------------
(***************************************************************************)
(* Model checking of SharedTask: the awaiters on one context, or each on   *)
(* its own.                                                                *)
(***************************************************************************)
EXTENDS SharedTask

CONSTANT ctx

OneContext == [a \in Awaiters |-> ctx]

OwnContext == [a \in Awaiters |-> a]

Kept == {[home |-> OneContext, reuse |-> TRUE], [home |-> OwnContext, reuse |-> FALSE]}

\* Not a run: frames reused while the final suspend walks the list on another
\* thread.  NoWaiterForgotten does not hold for it (README, section 3).
Reused == {[home |-> OwnContext, reuse |-> TRUE]}
=============================================================================
