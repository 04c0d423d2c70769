----------------------------- MODULE Coroutines -----------------------------
(***************************************************************************)
(* The coroutine types together: tasks call, await, spawn and destroy each *)
(* other, and one of them (whichever makes the first generator) iterates   *)
(* over a generator, which runs inside it, may throw into it, is still     *)
(* there when the task waits for another, and is destroyed when the task's *)
(* body is left.                                                           *)
(***************************************************************************)
EXTENDS Task, Generator, FrameAlloc

CONSTANTS Setups     \* what a run chooses from: the coroutines the program
                     \* has, and how the generators' frames are allocated

VARIABLES holder,    \* the task that has the generator variable
          setup

vars == <<task, cur, exc, ready, ended, gen, var, gcur, gexc, last, holder, setup>>

ASSUME SetupAssumption ==
  \A s \in Setups : /\ Main \in s.tasks /\ s.tasks \subseteq Tasks /\ s.gens \subseteq Gens
                    /\ IsLayout(s.layout)

Init == TaskInit /\ GenInit /\ holder = NoTask /\ setup \in Setups

\* A task runs while its generator does not.
TaskMoves ==
  /\ gcur = NoGen
  /\ \E f \in setup.tasks : TaskStep(setup.tasks, f)
  /\ UNCHANGED <<genVars, holder>>

\* A task leaves its body: the generator goes with the other locals.
TaskLeaves(f) ==
  /\ gcur = NoGen
  /\ LeaveStep(f)
  /\ IF f = holder THEN DestroyGenerator /\ holder' = NoTask
     ELSE UNCHANGED <<genVars, holder>>

\* generator var = g(), again and again
HolderAssigns(f, g) ==
  /\ Runs(f) /\ holder \in {f, NoTask}
  /\ Assign(g)
  /\ holder' = f
  /\ UNCHANGED taskVars

HolderIterates ==
  /\ holder # NoTask /\ Runs(holder)
  /\ Begin \/ Increment
  /\ UNCHANGED <<taskVars, holder>>

GeneratorMoves ==
  /\ gcur # NoGen
  /\ \E g \in setup.gens : GenStep(setup.gens, g)
  /\ UNCHANGED <<taskVars, holder>>

\* An exception leaves begin() or ++it.
GeneratorThrows ==
  /\ \E g \in setup.gens : GenEscape(g)
  /\ exc' = TRUE
  /\ UNCHANGED <<task, cur, ready, ended, holder>>

Next == /\ UNCHANGED setup
        /\ \/ TaskMoves
           \/ \E f \in setup.tasks : TaskLeaves(f) \/ \E g \in setup.gens : HolderAssigns(f, g)
           \/ HolderIterates
           \/ GeneratorMoves
           \/ GeneratorThrows

Spec == Init /\ [][Next]_vars

-----------------------------------------------------------------------------
\* A generator's frame, _Dealloc_fn and allocator fit one behind the other in
\* the blocks that operator new asked for, the allocator is aligned, operator
\* delete looks for it where it was put and gives back as many blocks as were
\* taken: for alignments above and below that of a block.
FrameBlocksFit ==
  LET l     == setup.layout
      extra == l.ptr + l.size + FnRoom(l.erased)
      end   == l.ptr + Count(l.erased, l.al, l.size) * BlockSize
      at    == StoredAt(l.erased, l.al, l.ptr, l.size)
  IN  /\ extra <= end
      /\ l.al.stored => /\ extra <= at /\ at + l.al.size <= end
                        /\ at % l.al.align = 0
                        /\ LoadedFrom(l.erased, l.al, l.ptr, l.size) = at
      /\ DeallocCount(l.erased, l.al, l.size) = Count(l.erased, l.al, l.size)
=============================================================================
