-------------------------------- MODULE Task --------------------------------
(***************************************************************************)
(* task<T>, task<T&>, task<void> (include/co_context/task.hpp) and the     *)
(* trival_task that spin_mutex::lock() and condition_variable::wait(mtx,   *)
(* pred) return (detail/trival_task.hpp): lazy coroutines that run when    *)
(* they are awaited, hand control back to their awaiter at final suspend,  *)
(* and keep a result or an exception for it.                               *)
(*                                                                         *)
(* One context: `cur' is the coroutine the worker is running.  A coroutine *)
(* owns the task objects of the coroutines it has called (its locals) and  *)
(* those that were moved into its parameters; a frame is destroyed with    *)
(* the object, or by itself once it is detached.                           *)
(***************************************************************************)
CONSTANTS Tasks,     \* coroutine frames, each used once
          Main,      \* the one that main() spawned
          NoTask     \* std::noop_coroutine(), nobody

ASSUME TaskAssumption == Main \in Tasks /\ NoTask \notin Tasks

VARIABLES task,      \* frames: promise and where the coroutine is
          cur,       \* what the worker is running
          exc,       \* an exception is in flight in `cur'
          ready,     \* reap_swap: handles to be resumed
          ended      \* the process has ended: an exception left resume(), or a crash

taskVars == <<task, cur, exc, ready, ended>>

Kinds == {"value", "void", "trival"}

\* The promise's union: task<T>: mono, value or exception; task<void>: 0 (mono),
\* is_detached or exception.
Outcomes == {"mono", "value", "exception", "detached"}

\* none; initial: created; running: on the worker's stack; awaiting: a child;
\* waiting: for I/O; finishing: at final_suspend; resuming: at await_resume
Places == {"none", "initial", "running", "awaiting", "waiting", "finishing", "resuming", "final",
           "destroyed"}

TaskTypeOK ==
  /\ task \in [Tasks -> [st : Places, kind : Kinds, outcome : Outcomes,
                         parent_coro : Tasks \cup {NoTask}, owner : Tasks \cup {NoTask},
                         param : BOOLEAN, child : Tasks \cup {NoTask}, want : BOOLEAN]]
  /\ cur \in Tasks \cup {NoTask}
  /\ exc \in BOOLEAN
  /\ ready \subseteq Tasks
  /\ ended \in BOOLEAN

TaskInit ==
  /\ task = [f \in Tasks |->
       [st |-> IF f = Main THEN "initial" ELSE "none", kind |-> "void",
        outcome |-> IF f = Main THEN "detached" ELSE "mono",
        parent_coro |-> NoTask, owner |-> NoTask, param |-> FALSE, child |-> NoTask,
        want |-> TRUE]]
  /\ cur = NoTask
  /\ exc = FALSE
  /\ ready = {Main}
  /\ ended = FALSE

\* f is running and no exception is in flight.
Runs(f) == cur = f /\ task[f].st = "running" /\ ~ exc

\* the frames of the task objects that are f's locals or parameters
Owned(f) == {h \in Tasks : task[h].owner = f}

\* handle.destroy() for each of `frames': what they own goes with them, and so
\* on (the smallest set of frames that contains what its members own)
WithOwned(frames) ==
  {k \in Tasks : \A W \in SUBSET Tasks :
                   frames \subseteq W /\ (\A h \in W : Owned(h) \subseteq W) => k \in W}

Destroying(frames) ==
  [h \in Tasks |-> IF h \in WithOwned(frames)
                   THEN [task[h] EXCEPT !.st = "destroyed", !.owner = NoTask] ELSE task[h]]

\* f leaves its body for final_suspend: its locals are destroyed, its
\* parameters are not.
LeaveBody(f, outcome) ==
  task' = [Destroying({h \in Owned(f) : ~ task[h].param})
             EXCEPT ![f].st = "finishing", ![f].outcome = outcome]

-----------------------------------------------------------------------------
\* work_once: resume a coroutine from reap_swap
ResumeReady(f) ==
  /\ cur = NoTask /\ f \in ready
  /\ ready' = ready \ {f}
  /\ cur' = f
  /\ task' = [task EXCEPT ![f].st = "running"]
  /\ UNCHANGED <<exc, ended>>

\* task<T> h = g(std::move(args)...): the frame is created and suspended
\* initially; tasks among the arguments are its parameters now
Call(f, h, kind, args) ==
  /\ Runs(f)
  /\ kind # "trival"
  /\ task[h].st = "none"
  /\ task' = [k \in Tasks |->
       IF k = h THEN [task[h] EXCEPT !.st = "initial", !.kind = kind, !.owner = f]
       ELSE IF k \in args THEN [task[k] EXCEPT !.owner = h, !.param = TRUE]
       ELSE task[k]]
  /\ UNCHANGED <<cur, exc, ready, ended>>

\* co_await h, co_await h.when_ready() (want = FALSE): await_ready: it is done,
\* and await_resume takes the result or rethrows ...
AwaitDone(f, h, want) ==
  /\ Runs(f)
  /\ h \in Owned(f) /\ task[h].st = "final"
  /\ exc' = (want /\ task[h].outcome = "exception")
  /\ UNCHANGED <<task, cur, ready, ended>>

\* ... or await_suspend: set_parent, and control goes to h.
AwaitStart(f, h, want) ==
  /\ Runs(f)
  /\ h \in Owned(f) /\ task[h].st = "initial"
  /\ task' = [task EXCEPT ![f].st = "awaiting", ![f].child = h, ![f].want = want,
                          ![h].st = "running", ![h].parent_coro = f]
  /\ cur' = h
  /\ UNCHANGED <<exc, ready, ended>>

\* co_await of a call that returns a trival_task: await_suspend sets parent_coro.
\* (Nobody keeps one: there is no destructor that would destroy its frame.)
AwaitTrival(f, h) ==
  /\ Runs(f)
  /\ task[h].st = "none"
  /\ task' = [task EXCEPT ![f].st = "awaiting", ![f].child = h, ![f].want = FALSE,
                          ![h].st = "running", ![h].kind = "trival", ![h].parent_coro = f]
  /\ cur' = h
  /\ UNCHANGED <<exc, ready, ended>>

\* Mutant: detach() leaves `handle' in the task object.
SpawnKeepsHandle(f, h) ==
  /\ Runs(f)
  /\ h \in Owned(f) /\ task[h].st = "initial" /\ task[h].kind = "void"
  /\ task' = [task EXCEPT ![h].outcome = "detached"]
  /\ ready' = ready \cup {h}
  /\ UNCHANGED <<cur, exc, ended>>

\* co_spawn(std::move(h)): get_handle(), detach(), and into reap_swap
Spawn(f, h) ==
  /\ Runs(f)
  /\ h \in Owned(f) /\ task[h].st = "initial" /\ task[h].kind = "void"
  /\ task' = [task EXCEPT ![h].outcome = "detached", ![h].owner = NoTask]
  /\ ready' = ready \cup {h}
  /\ UNCHANGED <<cur, exc, ended>>

\* ~task(), or another task is move-assigned over it
Destroy(f, h) ==
  /\ Runs(f)
  /\ h \in Owned(f)
  /\ task' = Destroying({h})
  /\ UNCHANGED <<cur, exc, ready, ended>>

\* co_await of some I/O, and its completion (external)
AwaitIo(f) ==
  /\ Runs(f)
  /\ task' = [task EXCEPT ![f].st = "waiting"]
  /\ cur' = NoTask
  /\ UNCHANGED <<exc, ready, ended>>

IoCompletes(f) ==
  /\ task[f].st = "waiting" /\ f \notin ready
  /\ ready' = ready \cup {f}
  /\ UNCHANGED <<task, cur, exc, ended>>

Throw(f) ==
  /\ Runs(f)
  /\ exc' = TRUE
  /\ UNCHANGED <<task, cur, ready, ended>>

Catch(f) ==
  /\ cur = f /\ task[f].st = "running" /\ exc
  /\ exc' = FALSE
  /\ UNCHANGED <<task, cur, ready, ended>>

\* co_return: return_value, return_void
Return(f) ==
  /\ Runs(f)
  /\ LeaveBody(f, IF task[f].kind = "value" THEN "value" ELSE task[f].outcome)
  /\ UNCHANGED <<cur, exc, ready, ended>>

\* unhandled_exception: keep it for the awaiter; a detached task rethrows it
\* into the worker; a trival_task drops it.  task<T> assigns to an exception_ptr
\* that was never constructed (the union is uninitialised): what its bytes are
\* is released, which is harmless if they are zero and may be the end if not.
Unhandled(f) ==
  /\ cur = f /\ task[f].st = "running" /\ exc
  /\ exc' = FALSE
  /\ ended' \in IF task[f].kind = "value" THEN BOOLEAN ELSE {task[f].outcome = "detached"}
  /\ LeaveBody(f, IF task[f].outcome = "detached" \/ task[f].kind = "trival"
                  THEN task[f].outcome ELSE "exception")
  /\ UNCHANGED <<cur, ready>>

\* f has handed control to its parent, which goes on.
ParentGoesOn(f, frames) ==
  LET up == task[f].parent_coro IN
  /\ task' = [h \in Tasks |-> IF h = up THEN [frames[h] EXCEPT !.st = "resuming"] ELSE frames[h]]
  /\ cur' = up

\* Mutant: every task<void> destroys itself.
FinalSuspendVoid(f) ==
  /\ cur = f /\ task[f].st = "finishing" /\ ~ ended
  /\ ParentGoesOn(f, IF task[f].kind # "value" THEN Destroying({f})
                     ELSE [task EXCEPT ![f].st = "final"])
  /\ UNCHANGED <<exc, ready, ended>>

\* task_final_awaiter, trival_task::final_awaiter: who is detached or trival
\* destroys itself
FinalSuspend(f) ==
  /\ cur = f /\ task[f].st = "finishing" /\ ~ ended
  /\ ParentGoesOn(f, IF task[f].outcome = "detached" \/ task[f].kind = "trival"
                     THEN Destroying({f})
                     ELSE [task EXCEPT ![f].st = "final"])
  /\ UNCHANGED <<exc, ready, ended>>

\* await_resume in the parent: result() rethrows what the child kept
AwaitResume(f) ==
  LET h == task[f].child IN
  /\ cur = f /\ task[f].st = "resuming"
  /\ exc' = (task[f].want /\ task[h].outcome = "exception")
  /\ task' = [task EXCEPT ![f].st = "running", ![f].child = NoTask]
  /\ UNCHANGED <<cur, ready, ended>>

-----------------------------------------------------------------------------
\* the end of a body
LeaveStep(f) == Return(f) \/ Unhandled(f)

TaskStep(frames, f) ==
  \/ ResumeReady(f)
  \/ \E h \in frames : \/ \E kind \in Kinds, args \in SUBSET Owned(f) : Call(f, h, kind, args)
                      \/ \E want \in BOOLEAN : AwaitDone(f, h, want) \/ AwaitStart(f, h, want)
                      \/ AwaitTrival(f, h) \/ Spawn(f, h) \/ Destroy(f, h)
  \/ AwaitIo(f) \/ IoCompletes(f) \/ Throw(f) \/ Catch(f)
  \/ FinalSuspend(f) \/ AwaitResume(f)

-----------------------------------------------------------------------------
Live(f) == task[f].st \notin {"none", "destroyed"}

\* Every coroutine frame that exists will be destroyed once, by one party: the
\* coroutine whose local or parameter its task object is, or itself if it was
\* detached or is a trival_task; no task object outlives the frame it refers to,
\* and no local outlives the body it is declared in.
FramesOwned ==
  /\ TaskTypeOK
  /\ \A f \in Tasks : task[f].owner # NoTask =>
       /\ Live(f) /\ Live(task[f].owner)
       /\ task[task[f].owner].st \in {"initial", "finishing", "final"} => task[f].param
  /\ \A f \in Tasks : Live(f) =>
       /\ task[f].owner = NoTask <=> task[f].outcome = "detached" \/ task[f].kind = "trival"
       /\ task[f].st = "final" => task[f].owner # NoTask

\* Whoever is to be resumed exists and is suspended where the resumption is
\* meant for: the parent that a coroutine will resume is suspended in the await
\* of exactly that coroutine, everyone who awaits a child is such a parent (so
\* that it will be resumed), and a handle in reap_swap is that of a new or a
\* waiting coroutine.
ResumesTheRight ==
  \A f \in Tasks :
    /\ task[f].st = "awaiting" =>
         LET h == task[f].child
         IN  /\ task[h].parent_coro = f
             /\ task[h].st \in {"running", "awaiting", "waiting", "finishing", "resuming"}
    /\ f \in ready => task[f].st \in {"initial", "waiting"}
    /\ task[f].st \in {"running", "finishing", "resuming"} <=> cur = f
    /\ task[f].st = "resuming" =>
         LET h == task[f].child
         IN  task[h].st = IF task[h].kind = "trival" THEN "destroyed" ELSE "final"

=============================================================================
