---------------------------- MODULE MC_StopToken ----------------------------
(***************************************************************************)
(* Model checking of StopToken: programs with one source and every         *)
(* callback, and programs that copy and move sources with one callback.    *)
(***************************************************************************)
EXTENDS StopToken

ManyCallbacks == [sources |-> {Creator}, callbacks |-> Callbacks, moves |-> FALSE]

ManySources == {[sources |-> Sources, callbacks |-> {CHOOSE c \in Callbacks : TRUE}, moves |-> b] :
                  b \in BOOLEAN}

Programs == {ManyCallbacks} \cup ManySources
=============================================================================
