----------------------------- MODULE SharedTask -----------------------------
(***************************************************************************)
(* shared_task (include/co_context/shared_task.hpp): a coroutine that is   *)
(* started by the first of its awaiters and resumes all of them, each on   *)
(* its own io_context, when it completes; its frame lives as long as a     *)
(* shared_task object refers to it.                                        *)
(*                                                                         *)
(* One action per access to waiters_.  Every awaiting coroutine holds a    *)
(* shared_task of its own, copied from another's.  Coroutines with the     *)
(* same home share a thread.                                               *)
(***************************************************************************)
EXTENDS Naturals, FiniteSets

CONSTANTS Awaiters,
          Creator,               \* the one that called the coroutine function
          Null,                  \* nullptr: started, no waiters
          NotStarted, Ready,     \* &this->waiters_, this
          Setups                 \* what a run chooses from: home[a], and whether the memory
                                 \* of an awaiter is used again once its coroutine goes on

ASSUME SharedAssumption ==
  /\ IsFiniteSet(Awaiters) /\ Creator \in Awaiters
  /\ {Null, NotStarted, Ready} \cap Awaiters = {}
  /\ Cardinality({Null, NotStarted, Ready}) = 3
  /\ \A s \in Setups : DOMAIN s.home = Awaiters /\ s.reuse \in BOOLEAN

VARIABLES waiters,    \* shared_task_promise_base::waiters_
          ref_count,  \* ref_count_
          next,       \* next[a]: shared_task_waiter::m_next in a's awaiter
          task,       \* the coroutine: its state, and the awaiter that started it
          walk,       \* final_awaiter: the waiter at hand, and whether it was spawned
          pc, old,    \* per awaiter: where it is, old_waiters
          setup

vars == <<waiters, ref_count, next, task, walk, pc, old, setup>>

Word == Awaiters \cup {Null, NotStarted, Ready}

\* none: has no shared_task yet; have: holds one; try..enqueue: inside
\* await_suspend; granted: co_spawned; resumed, reused: past co_await; gone
Inside == {"try", "start", "body", "reload", "enqueue"}

Past == {"resumed", "reused"}

TypeOK ==
  /\ waiters \in Word
  /\ ref_count \in 0..Cardinality(Awaiters)
  /\ next \in [Awaiters -> Awaiters \cup {Null}]
  /\ task \in [st : {"initial", "running", "suspended", "final", "destroyed"},
               by : Awaiters \cup {Null}]
  /\ walk \in [cur : Awaiters \cup {Null}, st : {"off", "spawn", "next"}]
  /\ pc \in [Awaiters -> {"none", "have", "suspended", "granted", "gone"} \cup Inside \cup Past]
  /\ old \in [Awaiters -> Word]
  /\ setup \in Setups

Init ==
  /\ waiters = NotStarted
  /\ ref_count = 1
  /\ next = [a \in Awaiters |-> Null]
  /\ task = [st |-> "initial", by |-> Null]
  /\ walk = [cur |-> Null, st |-> "off"]
  /\ pc = [a \in Awaiters |-> IF a = Creator THEN "have" ELSE "none"]
  /\ old = [a \in Awaiters |-> Null]
  /\ setup \in Setups

\* Thread h is in the middle of an awaiter's or the task's code.
Busy(h) == \/ \E q \in Awaiters : setup.home[q] = h /\ pc[q] \in Inside
           \/ /\ task.st = "running" \/ walk.st # "off"
              /\ setup.home[task.by] = h

Idle(a) == ~ Busy(setup.home[a])

Goto(a, to) == pc' = [pc EXCEPT ![a] = to]

-----------------------------------------------------------------------------
\* shared_task's copy constructor: b hands a copy to a coroutine a
Copy(b, a) ==
  /\ Idle(b)
  /\ pc[b] = "have" /\ pc[a] = "none"
  /\ ref_count' = ref_count + 1
  /\ Goto(a, "have")
  /\ UNCHANGED <<waiters, next, task, walk, old>>

\* Mutant: destroys at one reference too many.
DestroyEarly(a) ==
  /\ Idle(a)
  /\ pc[a] \in {"have"} \cup Past
  /\ ref_count' = ref_count - 1
  /\ task' = IF ref_count <= 2 THEN [task EXCEPT !.st = "destroyed"] ELSE task
  /\ Goto(a, "gone")
  /\ UNCHANGED <<waiters, next, walk, old>>

\* ~shared_task: try_detach(), and destroy the frame if it was the last
Destroy(a) ==
  /\ Idle(a)
  /\ pc[a] \in {"have"} \cup Past
  /\ ref_count' = ref_count - 1
  /\ task' = IF ref_count = 1 THEN [task EXCEPT !.st = "destroyed"] ELSE task
  /\ Goto(a, "gone")
  /\ UNCHANGED <<waiters, next, walk, old>>

\* await_ready: is_ready()
AwaitReady(a) ==
  /\ Idle(a)
  /\ pc[a] = "have"
  /\ Goto(a, IF waiters = Ready THEN "resumed" ELSE "try")
  /\ UNCHANGED <<waiters, ref_count, next, task, walk, old>>

\* try_await: the first load ...
TryAwait(a) ==
  /\ pc[a] = "try"
  /\ old' = [old EXCEPT ![a] = waiters]
  /\ Goto(a, IF waiters = NotStarted THEN "start" ELSE "enqueue")
  /\ UNCHANGED <<waiters, ref_count, next, task, walk>>

\* Mutant: the word is set but the coroutine not resumed.
StartTaskForgets(a) ==
  /\ pc[a] = "start"
  /\ waiters' = IF waiters = NotStarted THEN Null ELSE waiters
  /\ Goto(a, "reload")
  /\ UNCHANGED <<ref_count, next, task, walk, old>>

\* ... and the CAS of whoever starts the coroutine, on its own stack
StartTask(a) ==
  /\ pc[a] = "start"
  /\ IF waiters = NotStarted
     THEN /\ waiters' = Null
          /\ task' = [st |-> "running", by |-> a]
          /\ Goto(a, "body")
          /\ UNCHANGED old
     ELSE /\ old' = [old EXCEPT ![a] = waiters]
          /\ Goto(a, "enqueue")
          /\ UNCHANGED <<waiters, task>>
  /\ UNCHANGED <<ref_count, next, walk>>

\* coroutine.resume() returned: load again
Reload(a) ==
  /\ pc[a] = "reload"
  /\ old' = [old EXCEPT ![a] = waiters]
  /\ Goto(a, "enqueue")
  /\ UNCHANGED <<waiters, ref_count, next, task, walk>>

\* Mutants: an empty list is taken for a completed task;
EnqueueNullIsReady(a) ==
  /\ pc[a] = "enqueue"
  /\ IF old[a] \in {Ready, Null} THEN Goto(a, "resumed") /\ UNCHANGED <<waiters, next, old>>
     ELSE /\ next' = [next EXCEPT ![a] = old[a]]
          /\ IF waiters = old[a]
             THEN waiters' = a /\ Goto(a, "suspended") /\ UNCHANGED old
             ELSE old' = [old EXCEPT ![a] = waiters] /\ UNCHANGED <<waiters, pc>>
  /\ UNCHANGED <<ref_count, task, walk>>

\* does not look for completion once it has started to enqueue.
EnqueueBlind(a) ==
  /\ pc[a] = "enqueue"
  /\ next' = [next EXCEPT ![a] = IF waiters = Ready THEN Null ELSE waiters]
  /\ waiters' = IF waiters = Ready THEN Ready ELSE a
  /\ Goto(a, "suspended")
  /\ UNCHANGED <<ref_count, task, walk, old>>

\* one round of the enqueueing loop
Enqueue(a) ==
  /\ pc[a] = "enqueue"
  /\ IF old[a] = Ready THEN Goto(a, "resumed") /\ UNCHANGED <<waiters, next, old>>
     ELSE /\ next' = [next EXCEPT ![a] = old[a]]
          /\ IF waiters = old[a]
             THEN waiters' = a /\ Goto(a, "suspended") /\ UNCHANGED old
             ELSE old' = [old EXCEPT ![a] = waiters] /\ UNCHANGED <<waiters, pc>>
  /\ UNCHANGED <<ref_count, task, walk>>

\* resumed by its context: await_resume reads the result in the frame
Resume(a) ==
  /\ Idle(a)
  /\ pc[a] = "granted"
  /\ Goto(a, "resumed")
  /\ UNCHANGED <<waiters, ref_count, next, task, walk, old>>

\* The awaiter was a temporary: the coroutine goes on to await another task,
\* on which nobody waits, with an awaiter in the same place.
Reuse(a) ==
  /\ setup.reuse
  /\ Idle(a)
  /\ pc[a] = "resumed"
  /\ next' = [next EXCEPT ![a] = Null]
  /\ Goto(a, "reused")
  /\ UNCHANGED <<waiters, ref_count, task, walk, old>>

-----------------------------------------------------------------------------
\* The coroutine suspends in its body (external: on some I/O) and control is
\* back in try_await; later it is resumed on the same context.
SuspendBody ==
  /\ task.st = "running" /\ walk.st = "off"
  /\ pc[task.by] = "body"
  /\ task' = [task EXCEPT !.st = "suspended"]
  /\ Goto(task.by, "reload")
  /\ UNCHANGED <<waiters, ref_count, next, walk, old>>

ResumeBody ==
  /\ task.st = "suspended"
  /\ Idle(task.by)
  /\ task' = [task EXCEPT !.st = "running"]
  /\ UNCHANGED <<waiters, ref_count, next, walk, pc, old>>

\* final_awaiter: the exchange ...
FinalSuspend ==
  /\ task.st = "running"
  /\ waiters' = Ready
  /\ task' = [task EXCEPT !.st = "final"]
  /\ walk' = [cur |-> waiters, st |-> "spawn"]
  /\ UNCHANGED <<ref_count, next, pc, old>>

\* ... co_spawn_auto the waiter on its context, and only then read m_next
SpawnWaiter ==
  /\ walk.st = "spawn" /\ walk.cur # Null
  /\ Goto(walk.cur, "granted")
  /\ walk' = [walk EXCEPT !.st = "next"]
  /\ UNCHANGED <<waiters, ref_count, next, task, old>>

NextWaiter ==
  /\ walk.st = "next"
  /\ walk' = [cur |-> next[walk.cur], st |-> "spawn"]
  /\ UNCHANGED <<waiters, ref_count, next, task, pc, old>>

EndWalk ==
  /\ walk.st = "spawn" /\ walk.cur = Null
  /\ walk' = [cur |-> Null, st |-> "off"]
  /\ pc' = IF pc[task.by] = "body" THEN [pc EXCEPT ![task.by] = "reload"] ELSE pc
  /\ UNCHANGED <<waiters, ref_count, next, task, old>>

-----------------------------------------------------------------------------
Await(a) == AwaitReady(a) \/ TryAwait(a) \/ StartTask(a) \/ Reload(a) \/ Enqueue(a) \/ Resume(a)

Coroutine == ResumeBody \/ FinalSuspend \/ SpawnWaiter \/ NextWaiter \/ EndWalk

Use(a) == Reuse(a) \/ Destroy(a) \/ \E b \in Awaiters : Copy(a, b)

Next == /\ UNCHANGED setup
        /\ \/ \E a \in Awaiters : Await(a) \/ Use(a)
           \/ SuspendBody \/ Coroutine

Spec == Init /\ [][Next]_vars

\* Threads go on with what they have begun; nobody is obliged to copy, await
\* or destroy a shared_task.
FairSpec ==
  /\ Spec
  /\ WF_vars(Coroutine /\ UNCHANGED setup)
  /\ \A a \in Awaiters : WF_vars(pc[a] # "have" /\ Await(a) /\ UNCHANGED setup)

-----------------------------------------------------------------------------
\* Whoever is past its co_await finds the task complete and its frame not yet
\* destroyed: nobody overtakes the final suspend, no last reference goes away
\* under a reader.
ReadersSeeResult == TypeOK /\ \A a \in Awaiters : pc[a] \in Past => task.st = "final"

\* The frame is not destroyed while the coroutine runs or waits for its I/O,
\* although it holds no reference to itself (ref_count_ starts at 1).
NotDestroyedMidway == 
  [][task'.st = "destroyed" => task.st \in {"initial", "final", "destroyed"}]_vars

\* "waiter->coroutine_ will be resumed when the task completes": when the final
\* suspend is over, nobody is left waiting.
NoWaiterForgotten ==
  waiters = Ready /\ walk.st = "off" => \A a \in Awaiters : pc[a] # "suspended"

\* Whoever awaits the task gets past it.
AwaitCompletes == \A a \in Awaiters : pc[a] = "try" ~> pc[a] \in Past

=============================================================================
