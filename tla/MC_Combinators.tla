--------------------------- MODULE MC_Combinators ---------------------------
(***************************************************************************)
(* Model checking of Combinators: all, any and some of four children that  *)
(* end on one context, or each on its own.                                 *)
(***************************************************************************)
EXTENDS Combinators

Homes == {[c \in Children |-> 1], [c \in Children |-> c]}

Kinds == {[kind |-> "all", need |-> N]} \cup {[kind |-> "some", need |-> n] : n \in 1..N}

Every == {[kind |-> k.kind, need |-> k.need, home |-> h] : k \in Kinds, h \in Homes}
=============================================================================
