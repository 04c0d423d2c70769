---------------------------- MODULE MC_SpscCursor ----------------------------
(***************************************************************************)
(* Model checking of SpscCursor: indices of three bits over four slots, so *)
(* that they wrap in the middle of a batch.                                *)
(***************************************************************************)
EXTENDS SpscCursor
=============================================================================
