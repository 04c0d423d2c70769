------------------------------ MODULE Semaphore ------------------------------
(***************************************************************************)
(* counting_semaphore (include/co_context/co/semaphore.hpp,                *)
(* lib/co_context/co/semaphore.cpp).                                       *)
(*                                                                         *)
(* acquire() takes its unit from `counter' in await_ready and, if there    *)
(* was none, links its awaiter in await_suspend: two atomic accesses with  *)
(* a gap.  release() gives its unit back and, if somebody had been waiting,*)
(* takes one awaiter off the lists under the spinlock notifier_mtx.        *)
(*                                                                         *)
(* Coroutines with the same home share a thread: one that is inside an     *)
(* operation is not interleaved with the others there.  The lists are      *)
(* sequences: `awaiting' newest first (push and exchange are atomic),      *)
(* `to_resume' oldest first.                                               *)
(***************************************************************************)
EXTENDS Integers, Sequences, SequencesExt, FiniteSets

CONSTANTS Coros,       \* coroutines that use the semaphore
          Homes,       \* assignments of coroutines to io_contexts to choose from
          None,        \* nobody / nullptr
          Desired,     \* initial value of the counter
          Updates,     \* arguments passed to release(update)
          MaxPermits   \* bound: permits in circulation

ASSUME SemAssumption ==
  /\ IsFiniteSet(Coros) /\ None \notin Coros
  /\ Desired \in Nat /\ MaxPermits \in Nat
  /\ Updates \subseteq Nat

VARIABLES counter,       \* counting_semaphore::counter
          awaiting,      \* counting_semaphore::awaiting, newest first
          to_resume,     \* counting_semaphore::to_resume, oldest first
          notifier_mtx,  \* who holds the spinlock
          pc,            \* where each coroutine is
          update,        \* update[k]: local of release(update): awaiters left to wake
          awaken,        \* awaken[k]: local awaken_awaiter of release()
          permits,       \* units handed out so far (history)
          halted,        \* TRUE once co_spawn() was called on a null awaiter
          home           \* home[k]: the io_context that resumes k (never changes)

vars == <<counter, awaiting, to_resume, notifier_mtx, pc, update, awaken, permits, halted, home>>

(***************************************************************************)
(* idle     outside                       push     between the two halves  *)
(* waiting  linked and suspended                   of acquire()            *)
(* ready    co_spawned, owns a unit       held     owns a unit             *)
(* r_one, r_many  in release() / release(update), before notifier_mtx      *)
(* r_loop   in the do-while, holds it     r_spawn  after it, has an awaiter*)
(***************************************************************************)
Busy == {"push", "r_one", "r_many", "r_loop", "r_spawn"}

In(S) == {k \in Coros : pc[k] \in S}

Runs(k) == \A j \in Coros \ {k} : home[j] = home[k] => pc[j] \notin Busy

TypeOK == /\ counter \in Int
          /\ awaiting \in Seq(Coros)
          /\ to_resume \in Seq(Coros)
          /\ notifier_mtx \in Coros \cup {None}
          /\ pc \in [Coros -> Busy \cup {"idle", "waiting", "ready", "held"}]
          /\ update \in [Coros -> Nat]
          /\ awaken \in [Coros -> Coros \cup {None}]
          /\ permits \in Nat
          /\ halted \in BOOLEAN
          /\ home \in Homes

Init == /\ counter = Desired
        /\ awaiting = <<>>
        /\ to_resume = <<>>
        /\ notifier_mtx = None
        /\ pc = [k \in Coros |-> "idle"]
        /\ update = [k \in Coros |-> 0]
        /\ awaken = [k \in Coros |-> None]
        /\ permits = Desired
        /\ halted = FALSE
        /\ home \in Homes

Goto(k, from, to) == pc[k] = from /\ pc' = [pc EXCEPT ![k] = to]

-----------------------------------------------------------------------------
\* try_acquire(): a load and one CAS; a failure changes nothing.
TryAcquire(k) ==
  /\ Runs(k)
  /\ counter > 0
  /\ Goto(k, "idle", "held")
  /\ counter' = counter - 1
  /\ UNCHANGED <<awaiting, to_resume, notifier_mtx, update, awaken, permits, halted, home>>

\* Mutant: old value 0 taken for a free unit.
AwaitReadyOffByOne(k) ==
  /\ Runs(k)
  /\ Goto(k, "idle", IF counter >= 0 THEN "held" ELSE "push")
  /\ counter' = counter - 1
  /\ UNCHANGED <<awaiting, to_resume, notifier_mtx, update, awaken, permits, halted, home>>

\* co_await acquire(): await_ready takes a unit whether there is one or not.
AwaitReady(k) ==
  /\ Runs(k)
  /\ Goto(k, "idle", IF counter > 0 THEN "held" ELSE "push")
  /\ counter' = counter - 1
  /\ UNCHANGED <<awaiting, to_resume, notifier_mtx, update, awaken, permits, halted, home>>

\* await_suspend: the CAS loop pushes the awaiter.
AwaitSuspend(k) ==
  /\ Goto(k, "push", "waiting")
  /\ awaiting' = <<k>> \o awaiting
  /\ UNCHANGED <<counter, to_resume, notifier_mtx, update, awaken, permits, halted, home>>

\* the context resumes a coroutine that was co_spawned
Resume(k) ==
  /\ Runs(k)
  /\ Goto(k, "ready", "held")
  /\ UNCHANGED <<counter, awaiting, to_resume, notifier_mtx, update, awaken, permits, halted, home>>

\* Mutant: the last waiter is overlooked.
ReleaseOffByOne(k) ==
  /\ Runs(k)
  /\ Goto(k, "held", IF counter + 1 >= 0 THEN "idle" ELSE "r_one")
  /\ counter' = counter + 1
  /\ UNCHANGED <<awaiting, to_resume, notifier_mtx, update, awaken, permits, halted, home>>

\* release() by a coroutine that owns a unit
Release(k) ==
  /\ Runs(k)
  /\ Goto(k, "held", IF counter >= 0 THEN "idle" ELSE "r_one")
  /\ counter' = counter + 1
  /\ UNCHANGED <<awaiting, to_resume, notifier_mtx, update, awaken, permits, halted, home>>

\* Mutant: not limited to the number of waiters.
ReleaseManyUnlimited(k) ==
  \E n \in Updates :
    /\ Runs(k)
    /\ permits + n <= MaxPermits
    /\ Goto(k, "idle", IF counter >= 0 THEN "idle" ELSE "r_many")
    /\ counter' = counter + n
    /\ permits' = permits + n
    /\ update' = [update EXCEPT ![k] = IF counter >= 0 THEN 0 ELSE n]
    /\ UNCHANGED <<awaiting, to_resume, notifier_mtx, awaken, halted, home>>

\* release(update): new units; with waiters, min(waiters, update) are to be
\* woken, and the do-while wakes one in any case.
ReleaseMany(k) ==
  \E n \in Updates :
    /\ Runs(k)
    /\ permits + n <= MaxPermits
    /\ Goto(k, "idle", IF counter >= 0 THEN "idle" ELSE "r_many")
    /\ counter' = counter + n
    /\ permits' = permits + n
    /\ update' = [update EXCEPT ![k] = IF counter >= 0 THEN 0
                                       ELSE IF -counter < n THEN -counter ELSE n]
    /\ UNCHANGED <<awaiting, to_resume, notifier_mtx, awaken, halted, home>>

\* try_release(): the list the next awaiter comes from
Candidates == IF to_resume # <<>> THEN to_resume ELSE Reverse(awaiting)

TakeFirst == /\ to_resume' = Tail(Candidates)
             /\ awaiting' = IF to_resume # <<>> THEN awaiting ELSE <<>>

\* co_spawn() through the null pointer that try_release() returned
SpawnNull(k) ==
  /\ pc[k] \in {"r_one", "r_loop"}
  /\ notifier_mtx \in {None, k}
  /\ Candidates = <<>>
  /\ halted' = TRUE
  /\ UNCHANGED <<counter, awaiting, to_resume, notifier_mtx, pc, update, awaken, permits, home>>

\* release(): lock, try_release, unlock ...
TryRelease(k) ==
  /\ notifier_mtx = None
  /\ Goto(k, "r_one", "r_spawn")
  /\ Candidates # <<>>
  /\ TakeFirst
  /\ awaken' = [awaken EXCEPT ![k] = Head(Candidates)]
  /\ UNCHANGED <<counter, notifier_mtx, update, permits, halted, home>>

\* ... and co_spawn outside the lock
CoSpawn(k) ==
  /\ pc[k] = "r_spawn"
  /\ pc' = [pc EXCEPT ![k] = "idle", ![awaken[k]] = "ready"]
  /\ awaken' = [awaken EXCEPT ![k] = None]
  /\ UNCHANGED <<counter, awaiting, to_resume, notifier_mtx, update, permits, halted, home>>

\* release(update): the whole loop runs under the lock.
LockNotifier(k) ==
  /\ notifier_mtx = None
  /\ notifier_mtx' = k
  /\ Goto(k, "r_many", "r_loop")
  /\ UNCHANGED <<counter, awaiting, to_resume, update, awaken, permits, halted, home>>

\* Mutant: one round only.
ReleaseLoopOnce(k) ==
  /\ pc[k] = "r_loop"
  /\ Candidates # <<>>
  /\ TakeFirst
  /\ pc' = [pc EXCEPT ![Head(Candidates)] = "ready", ![k] = "idle"]
  /\ update' = [update EXCEPT ![k] = 0]
  /\ notifier_mtx' = None
  /\ UNCHANGED <<counter, awaken, permits, halted, home>>

\* one round of the do-while
ReleaseLoop(k) ==
  /\ pc[k] = "r_loop"
  /\ Candidates # <<>>
  /\ TakeFirst
  /\ LET last == update[k] <= 1 IN
     /\ pc' = [pc EXCEPT ![Head(Candidates)] = "ready", ![k] = IF last THEN "idle" ELSE "r_loop"]
     /\ update' = [update EXCEPT ![k] = IF last THEN 0 ELSE @ - 1]
     /\ notifier_mtx' = IF last THEN None ELSE k
  /\ UNCHANGED <<counter, awaken, permits, halted, home>>

-----------------------------------------------------------------------------
Step(k) == \/ AwaitSuspend(k) \/ Resume(k) \/ Release(k) \/ SpawnNull(k) \/ TryRelease(k)
           \/ CoSpawn(k) \/ LockNotifier(k) \/ ReleaseLoop(k)

Next == ~ halted /\ \E k \in Coros : TryAcquire(k) \/ AwaitReady(k) \/ ReleaseMany(k) \/ Step(k)

Spec == Init /\ [][Next]_vars

\* An operation that was begun goes on, and who holds a unit eventually
\* releases it.  A context serves reap_swap first in first out, so a coroutine
\* that is again and again next to run does run: strong fairness for those.
FairSpec == Spec /\ \A k \in Coros : /\ WF_vars(~ halted /\ Step(k))
                                     /\ SF_vars(~ halted /\ (Resume(k) \/ Release(k)))

-----------------------------------------------------------------------------
\* No more coroutines own a unit than there are units: release never resumes
\* an awaiter on a unit that somebody else has.
PermitsRespected == TypeOK /\ Cardinality(In({"held", "ready"})) <= permits

\* Units that releases under way still owe to an awaiter.
Releasing == In({"r_one", "r_many", "r_loop", "r_spawn"})

\* A free unit and a suspended acquirer never just stand side by side: a
\* release that will bring them together is under way.
NoLostPermit ==
  In({"waiting"}) # {} /\ Cardinality(In({"held", "ready"})) < permits => Releasing # {}

\* A release that found counter < 0 finds an awaiter on the lists, so that
\* awaken_awaiter->co_spawn() has something to resume (README: release puts it
\* into a reap_swap).
ReleaseFindsAwaiter == ~ halted

OneThread == \A j, k \in Coros : home[j] = home[k]

\* Coroutines of one io_context cannot meet the gap inside acquire(), so there
\* it holds, for releases of any number of units.
OneThreadFindsAwaiter == OneThread => ReleaseFindsAwaiter

\* A suspended acquirer eventually owns a unit (or the process died trying).
WaiterEventuallyHolds == \A k \in Coros : pc[k] = "waiting" ~> pc[k] = "held" \/ halted

=============================================================================
