----------------------------- MODULE MC_Channel -----------------------------
(***************************************************************************)
(* Model checking of Channel: two senders and three receivers exchange     *)
(* four items through channels of capacity 0, 1 and 2.  The senders share  *)
(* a context, or the receivers do, or both: everybody else has his own.    *)
(***************************************************************************)
EXTENDS Channel

CONSTANTS r2, r3

Four == [p \in Procs |-> IF p \in {r2, r3} THEN 1 ELSE 2]

Shared == {[p \in Procs |-> IF p \in Senders THEN Senders ELSE Receivers],
           [p \in Procs |-> IF p \in Senders THEN Senders ELSE {p}],
           [p \in Procs |-> IF p \in Receivers THEN Receivers ELSE {p}]}
=============================================================================
