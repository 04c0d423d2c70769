----------------------------- MODULE Combinators -----------------------------
(***************************************************************************)
(* all, any and some (include/co_context/co/when_all.hpp, when_any.hpp): a *)
(* parent coroutine spawns its children, suspends with lazy::forget() and  *)
(* is resumed by the child whose atomic count says that it is the one.     *)
(*                                                                         *)
(* any is some with one result: finish_count and idx both count arrivals.  *)
(* Children start on the parent's context; a child may end on another one  *)
(* (resume_on), where it resumes the parent.  safety::safe, the default:   *)
(* the counts are atomic, the buffers are not, and no count releases what  *)
(* its child has written (fetch_sub relaxed, fetch_add acquire): only the  *)
(* waker's own thread is sure to see the waker's and its own writes.       *)
(***************************************************************************)
EXTENDS Integers

CONSTANTS N,      \* number of children, the template's pack of tasks
          Setups  \* what a run chooses from: kind, need (all: every child, any: 1,
                  \* some: min_complete), and home[c], the context on which c ends

Children == 1..N

Null == 0

ASSUME CombinatorAssumption ==
  /\ N \in Nat /\ N >= 2
  /\ \A s \in Setups : /\ s.kind \in {"all", "some"}
                       /\ s.need \in 1..N
                       /\ s.kind = "all" => s.need = N
                       /\ DOMAIN s.home = Children

VARIABLES count,   \* wait_num, or finish_count / idx
          buffer,  \* buffer[i]: whose result is there
          parent,  \* the awaiting coroutine
          wakes,   \* how often co_spawn_handle(await_handle) was called
          waker,   \* who did so last: the parent goes on on its context
          result,  \* what the combinator returns
          pc,      \* per child
          rank,    \* what preempt() returned
          setup

vars == <<count, buffer, parent, wakes, waker, result, pc, rank, setup>>

\* Between two suspension points a child runs on its thread alone.
Inside == {"result", "count", "write", "wake"}

TypeOK ==
  /\ count \in 0..N
  /\ buffer \in [Children -> Children \cup {Null}]
  /\ parent \in {"running", "forgotten", "done"}
  /\ wakes \in Nat
  /\ waker \in Children \cup {Null}
  /\ result \in [Children -> Children \cup {Null}]
  /\ pc \in [Children -> {"unborn", "queued", "awaiting", "ended", "finished"} \cup Inside]
  /\ rank \in [Children -> 0..N]
  /\ setup \in Setups

Empty == [i \in Children |-> Null]

Init ==
  /\ setup \in Setups
  /\ count = IF setup.kind = "all" THEN setup.need ELSE 0
  /\ buffer = Empty /\ result = Empty
  /\ parent = "running"
  /\ wakes = 0 /\ waker = Null
  /\ pc = [c \in Children |-> "unborn"]
  /\ rank = [c \in Children |-> 0]

Goto(c, from, to) == pc[c] = from /\ pc' = [pc EXCEPT ![c] = to]

\* No other child is in the middle of something on c's thread.
Alone(c) == \A d \in Children \ {c} : setup.home[d] = setup.home[c] => pc[d] \notin Inside

-----------------------------------------------------------------------------
\* spawn_all: co_spawn puts the child on the parent's own context
SpawnChild(c) ==
  /\ parent = "running"
  /\ Goto(c, "unborn", "queued")
  /\ UNCHANGED <<count, buffer, parent, wakes, waker, result, rank>>

\* co_await lazy::forget()
Forget ==
  /\ parent = "running"
  /\ \A c \in Children : pc[c] # "unborn"
  /\ parent' = "forgotten"
  /\ UNCHANGED <<count, buffer, wakes, waker, result, pc, rank>>

\* The child runs once the parent has suspended; any and some skip its node if
\* the results are in already.
StartChild(c) ==
  /\ parent # "running"
  /\ Goto(c, "queued", IF setup.kind = "some" /\ count >= setup.need THEN "finished"
                       ELSE "awaiting")
  /\ UNCHANGED <<count, buffer, parent, wakes, waker, result, rank>>

\* external: the awaited node completes, and resumes the child where it ended
NodeCompletes(c) ==
  /\ Goto(c, "awaiting", "ended")
  /\ UNCHANGED <<count, buffer, parent, wakes, waker, result, rank>>

ResumeChild(c) ==
  /\ Alone(c)
  /\ Goto(c, "ended", "result")
  /\ UNCHANGED <<count, buffer, parent, wakes, waker, result, rank>>

-----------------------------------------------------------------------------
\* all_evaluate_to: construct the result in its place ...
Construct(c) ==
  /\ setup.kind = "all"
  /\ Goto(c, "result", "count")
  /\ buffer' = [buffer EXCEPT ![c] = c]
  /\ UNCHANGED <<count, parent, wakes, waker, result, rank>>

\* Mutant: wakes the parent one child early.
CountDownEarly(c) ==
  /\ Goto(c, "count", IF count = 2 THEN "wake" ELSE "finished")
  /\ count' = count - 1
  /\ UNCHANGED <<buffer, parent, wakes, waker, result, rank>>

\* ... then count_down()
CountDown(c) ==
  /\ Goto(c, "count", IF count = 1 THEN "wake" ELSE "finished")
  /\ count' = count - 1
  /\ UNCHANGED <<buffer, parent, wakes, waker, result, rank>>

\* Mutant: the rank is not compared, every child may write and wake.
PreemptAlways(c) ==
  /\ setup.kind = "some"
  /\ Goto(c, "result", "write")
  /\ rank' = [rank EXCEPT ![c] = IF count < setup.need THEN count ELSE setup.need - 1]
  /\ count' = count + 1
  /\ UNCHANGED <<buffer, parent, wakes, waker, result>>

\* any_evaluate_to, some_evaluate_to: take a rank ...
Preempt(c) ==
  /\ setup.kind = "some"
  /\ Goto(c, "result", IF count < setup.need THEN "write" ELSE "finished")
  /\ rank' = [rank EXCEPT ![c] = count]
  /\ count' = count + 1
  /\ UNCHANGED <<buffer, parent, wakes, waker, result>>

\* Mutant: the last rank is off by one.
WriteNeverLast(c) ==
  /\ Goto(c, "write", IF rank[c] = setup.need THEN "wake" ELSE "finished")
  /\ buffer' = [buffer EXCEPT ![rank[c] + 1] = c]
  /\ UNCHANGED <<count, parent, wakes, waker, result, rank>>

\* ... write index and value to buffer[rank]; the last rank wakes the parent
Write(c) ==
  /\ Goto(c, "write", IF rank[c] + 1 = setup.need THEN "wake" ELSE "finished")
  /\ buffer' = [buffer EXCEPT ![rank[c] + 1] = c]
  /\ UNCHANGED <<count, parent, wakes, waker, result, rank>>

\* Mutant: the parent is woken before the child is through with its result.
WakeThenStore(c) ==
  /\ Goto(c, "wake", IF setup.kind = "all" THEN "result" ELSE "finished")
  /\ wakes' = wakes + 1 /\ waker' = c
  /\ UNCHANGED <<count, buffer, parent, result, rank>>

\* co_spawn_handle(await_handle), on the child's context
Wake(c) ==
  /\ Goto(c, "wake", "finished")
  /\ wakes' = wakes + 1 /\ waker' = c
  /\ UNCHANGED <<count, buffer, parent, result, rank>>

\* The slots that were written on another context than the parent goes on:
\* nothing orders those writes before its reads.
Unordered == {i \in Children : buffer[i] # Null /\ setup.home[buffer[i]] # setup.home[waker]}

\* The parent goes on: the buffer is moved out.  Any of the unordered slots may be
\* read as it was before the write (a data race).
ResumeParent ==
  /\ wakes > 0 /\ parent = "forgotten"
  /\ parent' = "done"
  /\ \E lost \in SUBSET Unordered :
       result' = [i \in Children |-> IF i \in lost THEN Null ELSE buffer[i]]
  /\ UNCHANGED <<count, buffer, wakes, waker, pc, rank>>

-----------------------------------------------------------------------------
Child(c) == \/ SpawnChild(c) \/ StartChild(c) \/ NodeCompletes(c) \/ ResumeChild(c)
            \/ Construct(c) \/ CountDown(c) \/ Preempt(c) \/ Write(c) \/ Wake(c)

Next == /\ UNCHANGED setup
        /\ Forget \/ ResumeParent \/ \E c \in Children : Child(c)

Spec == Init /\ [][Next]_vars

\* Contexts run what is ready, and every awaited node completes.
FairSpec == /\ Spec
            /\ WF_vars((Forget \/ ResumeParent) /\ UNCHANGED setup)
            /\ \A c \in Children : WF_vars(Child(c) /\ UNCHANGED setup)

-----------------------------------------------------------------------------
\* The parent is resumed once, after it has suspended; a second resumption
\* would run a coroutine that has moved on.
ParentResumedOnce == TypeOK /\ wakes <= 1 /\ (wakes = 1 => parent # "running")

\* The combinator returns `need' results, each of another child.
ResultComplete ==
  parent = "done" =>
    /\ \A i \in 1..setup.need : result[i] # Null
    /\ \A i, j \in 1..setup.need : result[i] = result[j] => i = j

\* More than one result is awaited, from children that end on different contexts.
Apart == /\ setup.need > 1
         /\ \E c, d \in Children : setup.home[c] # setup.home[d]

\* any() returns its result whatever contexts the children end on; all() and
\* some() return complete results if all children end on one.  Otherwise the child
\* with the last rank of some() may wake the parent before a lower rank has written
\* its slot, and nothing orders the writes of all()'s other children before the
\* parent's reads: "NOT thread-safe!  If `resume_on` is used, race condition may
\* happen!" (when_all.hpp:21-22, when_any.hpp:34-35 and 194-195).  That NOTE stands
\* at any()'s meta too, where only the child that wakes the parent writes.
ResultCompleteUnlessApart == ~ Apart => ResultComplete

\* all() keeps count and buffer in the parent's frame: once it goes on, no child
\* has any business there.
NoChildTouchesDeadMeta ==
  setup.kind = "all" /\ parent = "done" => \A c \in Children : pc[c] = "finished"

\* The parent is resumed, whoever ends first and wherever.
ParentResumes == <>(parent = "done")

=============================================================================
