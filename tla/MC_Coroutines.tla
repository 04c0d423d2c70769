---------------------------- MODULE MC_Coroutines ----------------------------
(***************************************************************************)
(* Model checking of Coroutines: programs of several tasks and one         *)
(* generator, programs of one task and generators nested three deep, and   *)
(* a task with one generator for every layout of small frames.             *)
(***************************************************************************)
EXTENDS Coroutines

CONSTANTS OneGen     \* the generator of the programs that are not about generators

Allocators == [stored : {FALSE}, size : {1}, align : {1}]
                \cup {[stored |-> TRUE, size |-> n * a, align |-> a] :
                        n \in {1, 2}, a \in {1, BlockSize \div 2, 2 * BlockSize}}

Layouts == [erased : BOOLEAN, al : Allocators, size : 0..2 * BlockSize, ptr : {0, BlockSize}]

AnyLayout == CHOOSE l \in Layouts : TRUE

Programs == {[tasks |-> Tasks, gens |-> OneGen, layout |-> AnyLayout],
             [tasks |-> {Main}, gens |-> Gens, layout |-> AnyLayout]}
              \cup {[tasks |-> {Main}, gens |-> OneGen, layout |-> l] : l \in Layouts}
=============================================================================
