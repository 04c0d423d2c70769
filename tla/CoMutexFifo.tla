----------------------------- MODULE CoMutexFifo -----------------------------
(***************************************************************************)
(* The mutex as a first-come first-served lock: the abstract queue of      *)
(* FifoLock is read off the pointers, oldest waiter first.                 *)
(***************************************************************************)
EXTENDS CoMutex, Naturals, FiniteSets, Sequences, SequencesExt

\* The awaiters reached from p along the links f; the bound makes it total on
\* any (even a cyclic) structure.
Walk(f, p) ==
  LET walk[k \in 0..Cardinality(Coros)] ==
        [q \in Ptr |-> IF k = 0 \/ q = Null THEN <<>> ELSE <<q>> \o walk[k - 1][f[q]]]
  IN  walk[Cardinality(Coros)][p]

Chain(p) == Walk(next, p)

\* The coroutine inside unlock(), if any, names what it has taken off.
TakenBy(c) ==
  CASE pc[c] = "u_reverse" -> Reverse(Chain(node[c])) \o Chain(resume_head[c])
    [] pc[c] = "u_pop"     -> Chain(resume_head[c])
    [] pc[c] = "u_spawn"   -> <<resume_head[c]>> \o Chain(to_resume)
    [] OTHER               -> Chain(to_resume)

Owner == IF Owners = {} THEN Null ELSE CHOOSE c \in Owners : TRUE

Top == IF awaiting = NotLocked THEN Null ELSE awaiting

ArrivalOrder == (IF Owners = {} THEN <<>> ELSE TakenBy(Owner)) \o Reverse(Chain(Top))

Fifo == INSTANCE FifoLock
          WITH Procs <- Coros, None <- Null, queue <- ArrivalOrder, owner <- Owner

\* The mutex implements the first-come first-served lock: no waiter is lost,
\* duplicated or overtaken, and the lock is never free while somebody waits.
ImplementsFifoLock == Fifo!Spec

=============================================================================
