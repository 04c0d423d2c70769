------------------------------ MODULE Generator ------------------------------
(***************************************************************************)
(* generator<T> (include/co_context/generator.hpp): a coroutine that       *)
(* yields values to the function that iterates over it, and may yield all  *)
(* the elements of another generator (co_yield elements_of(g)), nested to  *)
(* any depth.  The consumer holds the root; _Top of the root's promise     *)
(* leads to the innermost coroutine, which ++it resumes and *it reads.     *)
(*                                                                         *)
(* A _Nested_awaitable lives in the frame that yields elements_of; so the  *)
(* _Nest_info it holds is named by that frame, which is also its _Parent.  *)
(***************************************************************************)
CONSTANTS Gens,       \* generator frames, each used once
          NoGen,      \* nullptr, nobody
          Values      \* what is yielded

ASSUME GenAssumption == NoGen \notin Gens

VARIABLES gen,        \* frames: place, promise, and the awaitable of co_yield elements_of
          var,        \* _Coro of the consumer's generator variable
          gcur,       \* the generator coroutine that is running
          gexc,       \* an exception is in flight in `gcur'
          last        \* the value yielded last (history)

genVars == <<gen, var, gcur, gexc, last>>

\* nesting: in co_yield elements_of(nested); resuming: at its await_resume
GenPlaces == {"none", "initial", "running", "yielded", "nesting", "resuming", "finishing", "final",
              "destroyed"}

GenTypeOK ==
  /\ gen \in [Gens -> [st : GenPlaces, top : Gens, ptr : Values \cup {NoGen},
                       info : Gens \cup {NoGen}, nested : Gens \cup {NoGen},
                       root : Gens \cup {NoGen}, except : BOOLEAN]]
  /\ var \in Gens \cup {NoGen}
  /\ gcur \in Gens \cup {NoGen}
  /\ gexc \in BOOLEAN
  /\ last \in Values \cup {NoGen}

GenInit ==
  /\ gen = [g \in Gens |-> [st |-> "none", top |-> g, ptr |-> NoGen, info |-> NoGen,
                            nested |-> NoGen, root |-> NoGen, except |-> FALSE]]
  /\ var = NoGen
  /\ gcur = NoGen
  /\ gexc = FALSE
  /\ last = NoGen

GenRuns(g) == gcur = g /\ gen[g].st = "running" /\ ~ gexc

\* A frame's destruction destroys the awaitable in it, and so the nested frame,
\* and so on.
NestedIn(f) ==
  {k \in Gens : \A W \in SUBSET Gens :
                  f \in W \cup {NoGen} /\ (\A g \in W : gen[g].nested \in W \cup {NoGen}) => k \in W}

\* _Coro.done()
Done(g) == gen[g].st = "final"

Destroyed(dead) == [g \in Gens |-> IF g \in dead THEN [gen[g] EXCEPT !.st = "destroyed"] ELSE gen[g]]

-----------------------------------------------------------------------------
\* The consumer, which runs while no generator does.

\* var = g(): the frame is created, suspended initially; operator= swaps, and
\* what var held before is destroyed with the temporary
Assign(g) ==
  /\ gcur = NoGen
  /\ gen[g].st = "none"
  /\ gen' = [Destroyed(NestedIn(var)) EXCEPT ![g].st = "initial"]
  /\ var' = g
  /\ last' = NoGen
  /\ UNCHANGED <<gcur, gexc>>

\* ~generator(): the root, and with it all that is nested in it
DestroyGenerator ==
  /\ gcur = NoGen
  /\ gen' = Destroyed(NestedIn(var))
  /\ var' = NoGen
  /\ last' = NoGen
  /\ UNCHANGED <<gcur, gexc>>

Resume(g) == /\ gen' = [gen EXCEPT ![g].st = "running"]
             /\ gcur' = g
             /\ UNCHANGED <<var, gexc, last>>

\* begin(): Pre: the coroutine is suspended at its initial suspend point
Begin ==
  /\ gcur = NoGen /\ var # NoGen
  /\ gen[var].st = "initial"
  /\ Resume(var)

\* ++it, for an iterator that begin() returned and that is not at the end
Increment ==
  /\ gcur = NoGen /\ var # NoGen
  /\ gen[var].st \notin {"initial", "final"}
  /\ Resume(gen[var].top)

-----------------------------------------------------------------------------
\* co_yield v: yield_value, or the _Element_awaiter with a copy of v
Yield(g, v) ==
  /\ GenRuns(g)
  /\ gen' = [gen EXCEPT ![g].st = "yielded", ![g].ptr = v]
  /\ gcur' = NoGen
  /\ last' = v
  /\ UNCHANGED <<var, gexc>>

\* Mutant: the parent is taken for the root.
YieldElementsFlat(g, h) ==
  /\ GenRuns(g)
  /\ gen[h].st = "none"
  /\ gen' = [gen EXCEPT ![g].st = "nesting", ![g].nested = h, ![g].root = g,
                        ![g].except = FALSE, ![g].top = h,
                        ![h].st = "running", ![h].info = g]
  /\ gcur' = h
  /\ UNCHANGED <<var, gexc, last>>

\* co_yield elements_of(h()), or of a range, for which a generator is made:
\* await_suspend of the _Nested_awaitable.  (await_ready holds for a moved-from
\* generator: nothing happens.)
YieldElements(g, h) ==
  LET root == IF gen[g].info # NoGen THEN gen[gen[g].info].root ELSE g IN
  /\ GenRuns(g)
  /\ gen[h].st = "none"
  /\ gen' = [[gen EXCEPT ![g].st = "nesting", ![g].nested = h, ![g].root = root,
                         ![g].except = FALSE, ![h].st = "running", ![h].info = g]
             EXCEPT ![root].top = h]
  /\ gcur' = h
  /\ UNCHANGED <<var, gexc, last>>

GenThrow(g) == GenRuns(g) /\ gexc' = TRUE /\ UNCHANGED <<gen, var, gcur, last>>

GenCatch(g) == gcur = g /\ gen[g].st = "running" /\ gexc /\ gexc' = FALSE
               /\ UNCHANGED <<gen, var, gcur, last>>

GenReturn(g) ==
  /\ GenRuns(g)
  /\ gen' = [gen EXCEPT ![g].st = "finishing"]
  /\ UNCHANGED <<var, gcur, gexc, last>>

\* unhandled_exception of a nested generator: into the parent's _Nest_info
GenUnhandled(g) ==
  /\ gcur = g /\ gen[g].st = "running" /\ gexc
  /\ gen[g].info # NoGen
  /\ gen' = [gen EXCEPT ![g].st = "finishing", ![gen[g].info].except = TRUE]
  /\ gexc' = FALSE
  /\ UNCHANGED <<var, gcur, last>>

\* ... and of the root: `throw;' leaves resume(), the coroutine is done
GenEscape(g) ==
  /\ gcur = g /\ gen[g].st = "running" /\ gexc
  /\ gen[g].info = NoGen
  /\ gen' = [gen EXCEPT ![g].st = "final"]
  /\ gcur' = NoGen
  /\ gexc' = FALSE
  /\ UNCHANGED <<var, last>>

\* _Final_awaiter: the root returns to the consumer; a nested one hands _Top and
\* control back to its parent
GenFinalSuspend(g) ==
  LET cont == gen[g].info
      root == IF cont = NoGen THEN g ELSE gen[cont].root
  IN
  /\ gcur = g /\ gen[g].st = "finishing"
  /\ gen' = [f \in Gens |->
       [gen[f] EXCEPT !.st = IF f = g THEN "final" ELSE IF f = cont THEN "resuming" ELSE @,
                      !.info = IF f = g THEN NoGen ELSE @,
                      !.top = IF f = root /\ cont # NoGen THEN cont ELSE @]]
  /\ gcur' = cont
  /\ UNCHANGED <<var, gexc, last>>

\* Mutant: the nested generator's exception is not rethrown.
NestedResumeQuiet(g) ==
  /\ gcur = g /\ gen[g].st = "resuming"
  /\ gen' = [Destroyed(NestedIn(gen[g].nested)) EXCEPT
               ![g].st = "running", ![g].nested = NoGen, ![g].root = NoGen, ![g].except = FALSE]
  /\ UNCHANGED <<var, gcur, gexc, last>>

\* await_resume of the _Nested_awaitable rethrows; then the awaitable, and the
\* nested generator in it, are destroyed
NestedResume(g) ==
  /\ gcur = g /\ gen[g].st = "resuming"
  /\ gen' = [Destroyed(NestedIn(gen[g].nested)) EXCEPT
               ![g].st = "running", ![g].nested = NoGen, ![g].root = NoGen, ![g].except = FALSE]
  /\ gexc' = gen[g].except
  /\ UNCHANGED <<var, gcur, last>>

-----------------------------------------------------------------------------
\* what a running generator does; GenEscape is the consumer's affair too
GenStep(frames, g) ==
  \/ \E v \in Values : Yield(g, v)
  \/ \E h \in frames : YieldElements(g, h)
  \/ GenThrow(g) \/ GenCatch(g) \/ GenReturn(g) \/ GenUnhandled(g)
  \/ GenFinalSuspend(g) \/ NestedResume(g)

-----------------------------------------------------------------------------
\* The frames that exist are the ones nested in the consumer's generator (none
\* is leaked, none is destroyed twice), _Top of the root names the innermost of
\* them that has not finished, and whenever the consumer runs and is not at the
\* end, *it reads the value that was yielded last, through whatever depth.
TopIsInnermost ==
  /\ GenTypeOK
  /\ {g \in Gens : gen[g].st \notin {"none", "destroyed"}} = NestedIn(var)
  /\ var # NoGen /\ gcur = NoGen /\ gen[var].st \notin {"initial", "final"} =>
       /\ gen[gen[var].top].st = "yielded"
       /\ gen[gen[var].top].ptr = last
       /\ \A g \in NestedIn(var) \ {gen[var].top} : gen[g].st = "nesting"
  /\ var # NoGen /\ gcur # NoGen /\ gen[gcur].st # "finishing" => gen[var].top = gcur
  /\ \A g \in NestedIn(var) : Done(g) => g = var \/ \E f \in Gens : gen[f].nested = g /\ gcur = f

\* An exception is pending in a generator: in flight, or kept for the parent.
Pending == gexc \/ \E g \in Gens : gen[g].except /\ gen[g].st # "destroyed"

\* No exception is lost or made up between the frames of nested generators: a
\* pending one goes away only if some generator catches it or it reaches the
\* consumer, and there is never more than one.
GenExceptionKept ==
  [][/\ Pending /\ ~ Pending' => \E g \in Gens : GenCatch(g) \/ GenEscape(g)
     /\ ~ Pending /\ Pending' => \E g \in Gens : GenThrow(g)
     /\ ~ (gexc' /\ \E g \in Gens : gen'[g].except /\ gen'[g].st # "destroyed")]_genVars

=============================================================================
