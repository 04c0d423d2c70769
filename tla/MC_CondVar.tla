----------------------------- MODULE MC_CondVar -----------------------------
(***************************************************************************)
(* Model checking of CondVar: all coroutines on one context, or each on a  *)
(* context of its own with one or two notifiers.                           *)
(***************************************************************************)
EXTENDS CondVar, TLC

CONSTANTS ctx, n, m

OneContext == [p \in Actors |-> ctx]

OwnContext == [p \in Actors |-> p]

Shared == [home |-> OneContext, notifiers |-> {n, m}, kinds |-> {"one", "all"}]

Single == [home |-> OwnContext, notifiers |-> {n}, kinds |-> {"one"}]

Pair == [home |-> OwnContext, notifiers |-> {n, m}, kinds |-> {"one"}]

Safe == {Shared, Single, Pair}

Racing == {Pair}

Symmetry == Permutations(Waiters)
=============================================================================
