------------------------------ MODULE IoContext ------------------------------
(***************************************************************************)
(* io_context and worker_meta (lib/co_context/io_context.cpp,              *)
(* lib/co_context/detail/worker_meta.cpp and their headers): one thread    *)
(* per context, each with an io_uring, running coroutines from reap_swap,  *)
(* submitting what they asked for and reaping completions, and handing     *)
(* coroutines to other contexts.                                           *)
(*                                                                         *)
(* A thread's own steps are atomic up to the next point another thread or  *)
(* the kernel can see.  The kernel (external) completes requests in any    *)
(* order and may interrupt a wait.                                         *)
(***************************************************************************)
EXTENDS Integers, Sequences, FiniteSets

CONSTANTS Ctx, Coros,   \* the io_contexts and the coroutines (task<void> frames)
          None,         \* no coroutine / no context
          SwapCapacity, \* config::swap_capacity
          Setups        \* the programs and builds a run chooses from:
\*   ctx        the io_contexts, all constructed before start()
\*   entry[c]   spawned on c before start()
\*   ops, fuel  which operations the coroutines use, and (bound) how many each
\*   msg_ring   CO_CONTEXT_IS_USING_MSG_RING (else eventfd)
\*   skip_fails an I/O with IOSQE_CQE_SKIP_SUCCESS may fail
\*   signals    a signal may interrupt a wait in io_uring_enter

IoConstants ==
  /\ IsFiniteSet(Ctx) /\ IsFiniteSet(Coros) /\ SwapCapacity \in Nat
  /\ None \notin Ctx \cup Coros
  /\ \A s \in Setups :
       /\ s.ctx # {} /\ s.ctx \subseteq Ctx
       /\ s.entry \in [s.ctx -> Seq(Coros)]
       /\ \A c, d \in s.ctx : \A i \in DOMAIN s.entry[c], j \in DOMAIN s.entry[d] :
            s.entry[c][i] = s.entry[d][j] => c = d /\ i = j
       /\ s.ops \subseteq {"io", "link", "timeout", "yield", "spawn", "resume_on", "detach",
                           "prepare", "stop"}
       /\ s.fuel \in Nat
       /\ {s.msg_ring, s.skip_fails, s.signals} \subseteq BOOLEAN

ASSUME IoAssumption == IoConstants

VARIABLES worker,  \* worker_meta: reap_swap, requests_to_reap, requests_to_submit
          inbox,   \* worker_meta: co_spawn_queue (under co_spawn_mtx), the eventfd counter
          ring,    \* its io_uring: sq, requests in the kernel, cq
          loop,    \* where the host thread is
          meta,    \* io_context_meta: create_count, ready_count
          coro,    \* coroutine frames
          halted,  \* "no", or why the process was terminated
          setup,   \* a member of Setups, never changed
          failed   \* history: a detached request has failed

vars == <<worker, inbox, ring, loop, meta, coro, halted, setup, failed>>

\* An sqe (and its cqe): what it is, the coroutine named by its user_data, for
\* "msg" the receiving context, and a serial number (the coroutine's fuel).
Req(op, k, to) == [op |-> op, coro |-> k, to |-> to, no |-> IF k = None THEN 0 ELSE coro[k].fuel]

\* user_data_type / reserved_user_data of a request: which of them carry a
\* coroutine handle that the reaper forwards.
Resuming == {"io", "msg"}

\* requests whose cqe the submitter counts in requests_to_reap
Counted == {"io", "link", "event"}

Phases == {"created", "barrier", "run", "work", "submit_wait", "peek",
           "poll", "bad_peek", "bad_wait", "bad_poll", "over", "deinit", "stopped"}

Init ==
  /\ setup \in Setups
  /\ worker = [c \in Ctx |-> [reap_swap |-> IF c \in setup.ctx THEN setup.entry[c] ELSE <<>>,
                              requests_to_reap |-> 0, requests_to_submit |-> 0]]
  /\ inbox = [c \in Ctx |-> [queue |-> <<>>, event |-> 0]]
  /\ ring = [c \in Ctx |-> [sq |-> <<>>, kernel |-> {}, cq |-> <<>>]]
  /\ loop = [c \in Ctx |-> [phase |-> "created", num |-> 0, running |-> None,
                            write |-> None, handled |-> FALSE, will_stop |-> FALSE]]
  /\ meta = [create_count |-> Cardinality(setup.ctx), ready_count |-> 0]
  /\ coro = [k \in Coros |->
       [st |-> IF \E c \in setup.ctx : \E i \in DOMAIN setup.entry[c] : setup.entry[c][i] = k
               THEN "live" ELSE "unborn",
        fuel |-> setup.fuel, handle |-> FALSE, prepared |-> FALSE]]
  /\ halted = "no"
  /\ failed = FALSE

\* Thread c is at p, and not inside co_spawn_safe_eventfd.
At(c, p) == loop[c].phase = p /\ loop[c].write = None

Goto(c, p) == loop' = [loop EXCEPT ![c].phase = p]

\* while (!will_stop) { num = number_to_schedule(); ...
NextRound(c) ==
  loop' = IF loop[c].will_stop THEN [loop EXCEPT ![c].phase = "deinit"]
          ELSE [loop EXCEPT ![c].phase = "work",
                            ![c].num = Len(worker'[c].reap_swap)]

-----------------------------------------------------------------------------
\* worker_meta primitives

\* get_free_sqe() once per request; a request that skips its cqe gives its
\* unit of requests_to_reap back at once.
Issue(c, reqs) ==
  /\ worker' = [worker EXCEPT
       ![c].requests_to_submit = @ + Len(reqs),
       ![c].requests_to_reap = @ + Cardinality({i \in DOMAIN reqs : reqs[i].op \in Counted})]
  /\ ring' = [ring EXCEPT ![c].sq = @ \o reqs]

\* reap_swap[cur.tail()] = handle; cur.push(): the slot of the oldest entry is
\* overwritten when the ring of SwapCapacity slots is full.
Forward(q, k) ==
  Append([i \in DOMAIN q |-> IF i = Len(q) + 1 - SwapCapacity THEN k ELSE q[i]], k)

ForwardTask(c, k) == worker' = [worker EXCEPT ![c].reap_swap = Forward(@, k)]

\* co_spawn_auto(k) on the worker of t, called on the thread of c.
CoSpawnAuto(c, t, k) ==
  IF t = c THEN ForwardTask(c, k) /\ UNCHANGED <<ring, inbox>>
  ELSE IF setup.msg_ring THEN Issue(c, <<Req("msg", k, t)>>) /\ UNCHANGED inbox
  ELSE /\ inbox' = [inbox EXCEPT ![t].queue = Append(@, k)]
       /\ UNCHANGED <<worker, ring>>

\* where the thread stands after it: eventfd_write is a step of its own
WriteTo(c, t) == IF t = c \/ setup.msg_ring THEN None ELSE t

-----------------------------------------------------------------------------
\* io_context::start(): the barrier on create_count = ready_count.
Start(c) ==
  /\ At(c, "created")
  /\ Goto(c, "barrier")
  /\ meta' = [meta EXCEPT !.ready_count = @ + 1]
  /\ UNCHANGED <<worker, inbox, ring, coro, halted>>

PassBarrier(c) ==
  /\ At(c, "barrier")
  /\ meta.create_count = meta.ready_count
  /\ Goto(c, "run")
  /\ UNCHANGED <<worker, inbox, ring, meta, coro, halted>>

\* wait_for gave up after a second: std::terminate().
BarrierTimeout(c) ==
  /\ At(c, "barrier")
  /\ meta.create_count # meta.ready_count
  /\ halted' = "start_timeout"
  /\ UNCHANGED <<worker, inbox, ring, loop, meta, coro>>

\* run(): listen for co_spawn events if there are other contexts.
Run(c) ==
  /\ At(c, "run")
  /\ IF ~ setup.msg_ring /\ meta.create_count >= 2
     THEN Issue(c, <<Req("event", None, None)>>)
     ELSE UNCHANGED <<worker, ring>>
  /\ NextRound(c)
  /\ UNCHANGED <<inbox, meta, coro, halted>>

-----------------------------------------------------------------------------
\* do_worker_part: `num' was read once, so what is forwarded meanwhile waits
\* for the next round.
WorkOnce(c) ==
  /\ At(c, "work")
  /\ loop[c].running = None
  /\ loop[c].num > 0
  /\ loop' = [loop EXCEPT ![c].running = Head(worker[c].reap_swap), ![c].num = @ - 1]
  /\ worker' = [worker EXCEPT ![c].reap_swap = Tail(@)]
  /\ UNCHANGED <<inbox, ring, meta, coro, halted>>

\* The coroutine running on c may perform `op'.
May(c, op) == /\ At(c, "work")
              /\ op \in setup.ops
              /\ loop[c].running # None
              /\ coro[loop[c].running].fuel > 0

Suspend(c) == loop' = [loop EXCEPT ![c].running = None]

Spend(k) == coro' = [coro EXCEPT ![k].fuel = @ - 1]

\* co_await lazy::xxx(...): the awaiter takes an sqe, await_suspend stores the handle.
AwaitIo(c) ==
  LET k == loop[c].running IN
  /\ May(c, "io")
  /\ ~ coro[k].prepared
  /\ Issue(c, <<Req("io", k, None)>>)
  /\ Suspend(c)
  /\ coro' = [coro EXCEPT ![k].fuel = @ - 1, ![k].handle = TRUE]
  /\ UNCHANGED <<inbox, meta, halted>>

\* co_await (a && b): the first sqe is marked link_sqe, the last one resumes.
AwaitLink(c) ==
  LET k == loop[c].running IN
  /\ May(c, "link")
  /\ ~ coro[k].prepared
  /\ Issue(c, <<Req("link", k, None), Req("io", k, None)>>)
  /\ Suspend(c)
  /\ coro' = [coro EXCEPT ![k].fuel = @ - 1, ![k].handle = TRUE]
  /\ UNCHANGED <<inbox, meta, halted>>

\* co_await timeout(a, d): a's sqe is linked to a timer that posts no cqe.
AwaitTimeout(c) ==
  LET k == loop[c].running IN
  /\ May(c, "timeout")
  /\ ~ coro[k].prepared
  /\ Issue(c, <<Req("io", k, None), Req("timer", k, None)>>)
  /\ Suspend(c)
  /\ coro' = [coro EXCEPT ![k].fuel = @ - 1, ![k].handle = TRUE]
  /\ UNCHANGED <<inbox, meta, halted>>

\* auto io = lazy::xxx(...): the constructor already takes the sqe ...
PrepareIo(c) ==
  LET k == loop[c].running IN
  /\ May(c, "prepare")
  /\ ~ coro[k].prepared
  /\ Issue(c, <<Req("io", k, None)>>)
  /\ coro' = [coro EXCEPT ![k].fuel = @ - 1, ![k].prepared = TRUE]
  /\ UNCHANGED <<inbox, loop, meta, halted>>

\* Mutant: await_suspend does not store the handle.
AwaitPreparedNoHandle(c) ==
  LET k == loop[c].running IN
  /\ At(c, "work") /\ k # None
  /\ coro[k].prepared
  /\ Suspend(c)
  /\ coro' = [coro EXCEPT ![k].prepared = FALSE]
  /\ UNCHANGED <<worker, inbox, ring, meta, halted>>

\* ... and only co_await io stores the handle.
AwaitPrepared(c) ==
  LET k == loop[c].running IN
  /\ At(c, "work") /\ k # None
  /\ coro[k].prepared
  /\ Suspend(c)
  /\ coro' = [coro EXCEPT ![k].handle = TRUE, ![k].prepared = FALSE]
  /\ UNCHANGED <<worker, inbox, ring, meta, halted>>

\* lazy::xxx(...).detach(): the success cqe is skipped; user_data still names
\* the awaiter's task_info, which dies at the end of the statement.
Detach(c) ==
  LET k == loop[c].running IN
  /\ May(c, "detach")
  /\ Issue(c, <<Req("skip", k, None)>>)
  /\ Spend(k)
  /\ UNCHANGED <<inbox, loop, meta, halted>>

\* co_await lazy::yield()
Yield(c) ==
  LET k == loop[c].running IN
  /\ May(c, "yield")
  /\ ForwardTask(c, k)
  /\ Suspend(c)
  /\ Spend(k)
  /\ UNCHANGED <<inbox, ring, meta, halted>>

\* co_spawn(task) / io_context::co_spawn(task): a new coroutine on t.
CoSpawn(c) ==
  LET k == loop[c].running IN
  /\ May(c, "spawn")
  /\ \E t \in setup.ctx, j \in Coros :
       /\ coro[j].st = "unborn"
       /\ CoSpawnAuto(c, t, j)
       /\ loop' = [loop EXCEPT ![c].write = WriteTo(c, t)]
       /\ coro' = [coro EXCEPT ![k].fuel = @ - 1, ![j].st = "live"]
  /\ UNCHANGED <<meta, halted>>

\* Mutant: the coroutine goes on running here after it was sent away.
ResumeOnNoSuspend(c) ==
  LET k == loop[c].running IN
  /\ May(c, "resume_on")
  /\ \E t \in setup.ctx \ {c} :
       /\ CoSpawnAuto(c, t, k)
       /\ loop' = [loop EXCEPT ![c].write = WriteTo(c, t)]
  /\ Spend(k)
  /\ UNCHANGED <<meta, halted>>

\* co_await lazy::resume_on(t); on its own context it does not suspend.
ResumeOn(c) ==
  LET k == loop[c].running IN
  /\ May(c, "resume_on")
  /\ \E t \in setup.ctx \ {c} :
       /\ CoSpawnAuto(c, t, k)
       /\ loop' = [loop EXCEPT ![c].running = None, ![c].write = WriteTo(c, t)]
  /\ Spend(k)
  /\ UNCHANGED <<meta, halted>>

\* io_context_stop()
StopContext(c) ==
  /\ May(c, "stop")
  /\ loop' = [loop EXCEPT ![c].will_stop = TRUE]
  /\ Spend(loop[c].running)
  /\ UNCHANGED <<worker, inbox, ring, meta, halted>>

\* co_return: the detached task's frame is destroyed at final suspend.
Return(c) ==
  LET k == loop[c].running IN
  /\ At(c, "work") /\ k # None
  /\ ~ coro[k].prepared
  /\ Suspend(c)
  /\ coro' = [coro EXCEPT ![k].st = "done"]
  /\ UNCHANGED <<worker, inbox, ring, meta, halted>>

\* Mutant: the sender writes its own eventfd.
EventWriteOwn(c) ==
  /\ loop[c].write # None
  /\ inbox' = [inbox EXCEPT ![c].event = 1]
  /\ loop' = [loop EXCEPT ![c].write = None]
  /\ UNCHANGED <<worker, ring, meta, coro, halted>>

\* the second half of co_spawn_safe_eventfd
EventWrite(c) ==
  /\ loop[c].write # None
  /\ inbox' = [inbox EXCEPT ![loop[c].write].event = 1]
  /\ loop' = [loop EXCEPT ![c].write = None]
  /\ UNCHANGED <<worker, ring, meta, coro, halted>>

-----------------------------------------------------------------------------
\* The msg_ring requests in q for the ring of d, in order.
Messages(q, d) ==
  LET upTo[i \in 0..Len(q)] ==
        IF i = 0 THEN <<>>
        ELSE IF q[i].op = "msg" /\ q[i].to = d THEN Append(upTo[i - 1], q[i])
        ELSE upTo[i - 1]
  IN  upTo[Len(q)]

\* io_uring_enter takes every sqe.  A msg_ring request is carried out at once:
\* its cqe appears on the target's ring and none on its own.  (External.)
Submit(c) ==
  [d \in Ctx |->
    IF d = c THEN [sq |-> <<>>, cq |-> ring[c].cq, kernel |-> ring[c].kernel \cup
                     {ring[c].sq[i] : i \in {j \in DOMAIN ring[c].sq : ring[c].sq[j].op # "msg"}}]
    ELSE [ring[d] EXCEPT !.cq = @ \o Messages(ring[c].sq, d)]]

\* do_submission_part / poll_submission: submit everything, and wait for one
\* cqe unless a task is ready.
PollSubmission(c) ==
  /\ At(c, "work")
  /\ loop[c].running = None /\ loop[c].num = 0
  /\ IF worker[c].requests_to_submit = 0
     THEN Goto(c, "peek") /\ UNCHANGED <<worker, ring>>
     ELSE /\ Goto(c, IF worker[c].reap_swap = <<>> THEN "submit_wait" ELSE "peek")
          /\ worker' = [worker EXCEPT ![c].requests_to_submit = 0]
          /\ ring' = Submit(c)
  /\ UNCHANGED <<inbox, meta, coro, halted>>

\* io_uring_enter returns: a cqe is there, or a signal interrupted it (EINTR).
WaitReturns(c) ==
  /\ \/ At(c, "submit_wait") /\ Goto(c, "peek")
     \/ At(c, "bad_wait") /\ Goto(c, "bad_poll")
  /\ UNCHANGED <<worker, inbox, ring, meta, coro, halted>>

Wake(c) == ring[c].cq # <<>> /\ WaitReturns(c)

Interrupt(c) == setup.signals /\ ring[c].cq = <<>> /\ WaitReturns(c)

\* do_completion_part up to the bad path
Peek(c) ==
  /\ At(c, "peek")
  /\ UNCHANGED <<worker, inbox, ring, meta, coro, halted>>
  /\ IF ring[c].cq # <<>> THEN Goto(c, "poll")
     ELSE IF worker[c].reap_swap # <<>> THEN NextRound(c)
     ELSE Goto(c, "bad_peek")

\* Mutant: blocks whether or not anything can still arrive.
BadPeekAlwaysWaits(c) ==
  /\ At(c, "bad_peek")
  /\ loop' = [loop EXCEPT ![c].handled = FALSE,
                          ![c].phase = IF ring[c].cq = <<>> THEN "bad_wait" ELSE "bad_poll"]
  /\ UNCHANGED <<worker, inbox, ring, meta, coro, halted>>

\* do_completion_part_bad_path: nothing to run, nothing to submit
BadPeek(c) ==
  /\ At(c, "bad_peek")
  /\ loop' = [loop EXCEPT ![c].handled = FALSE, ![c].phase =
       IF ring[c].cq = <<>> /\ (worker[c].requests_to_reap > 0 \/ meta.ready_count > 1)
       THEN "bad_wait" ELSE "bad_poll"]
  /\ UNCHANGED <<worker, inbox, ring, meta, coro, halted>>

\* poll_completion found the cq empty: next round, or decide that all is over.
PollDone(c) ==
  /\ At(c, "poll") /\ ring[c].cq = <<>>
  /\ UNCHANGED <<worker, inbox, ring, meta, coro, halted>>
  /\ NextRound(c)

BadPollDone(c) ==
  /\ At(c, "bad_poll") /\ ring[c].cq = <<>>
  /\ Goto(c, "over")
  /\ UNCHANGED <<worker, inbox, ring, meta, coro, halted>>

\* Mutant: does not care whether the poll found something.
DecideOverUnhandled(c) ==
  /\ At(c, "over")
  /\ LET is_not_over == meta.ready_count > 1 \/ worker[c].requests_to_reap # 0
     IN  loop' = IF is_not_over /\ ~ loop[c].will_stop
                 THEN [loop EXCEPT ![c].phase = "work", ![c].num = Len(worker[c].reap_swap)]
                 ELSE [loop EXCEPT ![c].phase = "deinit", ![c].will_stop = TRUE]
  /\ UNCHANGED <<worker, inbox, ring, meta, coro, halted>>

\* The stop condition, read after the poll: ready_count may have changed since.
DecideOver(c) ==
  /\ At(c, "over")
  /\ LET is_not_over == \/ loop[c].handled
                        \/ meta.ready_count > 1
                        \/ worker[c].requests_to_reap # 0
     IN  loop' = IF is_not_over /\ ~ loop[c].will_stop
                 THEN [loop EXCEPT ![c].phase = "work", ![c].num = Len(worker[c].reap_swap)]
                 ELSE [loop EXCEPT ![c].phase = "deinit", ![c].will_stop = TRUE]
  /\ UNCHANGED <<worker, inbox, ring, meta, coro, halted>>

\* deinit(), under meta.mtx
Deinit(c) ==
  /\ At(c, "deinit")
  /\ Goto(c, "stopped")
  /\ meta' = [meta EXCEPT !.create_count = @ - 1, !.ready_count = @ - 1]
  /\ UNCHANGED <<worker, inbox, ring, coro, halted>>

-----------------------------------------------------------------------------
\* poll_completion / handle_cq_entry, one cqe at a time

Reaping(c, op) == /\ At(c, "poll") \/ At(c, "bad_poll")
                  /\ ring[c].cq # <<>>
                  /\ Head(ring[c].cq).op = op

Seen(c) == /\ ring' = [ring EXCEPT ![c].cq = Tail(@)]
           /\ loop' = [loop EXCEPT ![c].handled = TRUE]

\* --requests_to_reap, and forward_task(h); an empty h trips its assertion
ReapAndForward(c, h) ==
  /\ worker' = [worker EXCEPT ![c].requests_to_reap = @ - 1,
       ![c].reap_swap = IF h = None THEN @ ELSE Forward(@, h)]
  /\ halted' = IF h = None THEN "empty_task" ELSE halted

\* task_info_ptr: forward whatever handle the awaiter's task_info has by now.
\* That of a detached I/O is gone: what is read there is empty, or (the frame
\* living on) the handle of an awaiter that reused its place.
HandleIo(c) ==
  /\ Reaping(c, "io") \/ Reaping(c, "skip")
  /\ LET r == Head(ring[c].cq)
         k == r.coro
     IN  /\ \E h \in {None, k} :
              /\ r.op = "io" => (h = k <=> coro[k].handle)
              /\ r.op = "skip" => h = None \/ coro[k].st = "live"
              /\ ReapAndForward(c, h)
         /\ coro' = IF r.op = "io" THEN [coro EXCEPT ![k].handle = FALSE] ELSE coro
  /\ Seen(c)
  /\ UNCHANGED <<inbox, meta>>

\* task_info_ptr__link_sqe: only the result is stored.
HandleLink(c) ==
  /\ Reaping(c, "link")
  /\ worker' = [worker EXCEPT ![c].requests_to_reap = @ - 1]
  /\ Seen(c)
  /\ UNCHANGED <<inbox, meta, coro, halted>>

\* Mutant: a message is counted as one of this ring's own requests.
HandleMsgCounted(c) ==
  /\ Reaping(c, "msg")
  /\ worker' = [worker EXCEPT ![c].requests_to_reap = @ - 1,
                              ![c].reap_swap = Forward(@, Head(ring[c].cq).coro)]
  /\ Seen(c)
  /\ UNCHANGED <<inbox, meta, coro, halted>>

\* msg_ring: the message was not a request of this ring, so the count is restored.
HandleMsg(c) ==
  /\ Reaping(c, "msg")
  /\ ForwardTask(c, Head(ring[c].cq).coro)
  /\ Seen(c)
  /\ UNCHANGED <<inbox, meta, coro, halted>>

\* handle_co_spawn_events: take the whole queue, forward it, listen again;
\* std::terminate() if reap_swap has no room for it.
HandleEvent(c) ==
  LET queue == inbox[c].queue
      room == SwapCapacity - Len(worker[c].reap_swap)
  IN
  /\ Reaping(c, "event")
  /\ inbox' = [inbox EXCEPT ![c].queue = <<>>]
  /\ IF Len(queue) > room
     THEN halted' = "reap_swap_full" /\ UNCHANGED <<worker, ring, loop>>
     ELSE /\ worker' = [worker EXCEPT ![c].reap_swap = @ \o queue,
                                      ![c].requests_to_submit = @ + 1]
          /\ ring' = [ring EXCEPT ![c].cq = Tail(@),
                                  ![c].sq = Append(@, Req("event", None, None))]
          /\ loop' = [loop EXCEPT ![c].handled = TRUE]
          /\ UNCHANGED halted
  /\ UNCHANGED <<meta, coro>>

-----------------------------------------------------------------------------
\* The kernel (external).  Completions come in any order, except that a linked
\* request starts when the one before it has completed.
Leaves(c, r) == [ring EXCEPT ![c].kernel = @ \ {r}]

KernelIo(c) ==
  /\ \E r \in ring[c].kernel :
       /\ r.op \in {"io", "link"}
       /\ r.op = "io" => \A q \in ring[c].kernel : q.op = "link" => q.no # r.no \/ q.coro # r.coro
       /\ ring' = [Leaves(c, r) EXCEPT ![c].cq = Append(@, r)]
  /\ UNCHANGED <<worker, inbox, loop, meta, coro, halted>>

\* CQE_SKIP_SUCCESS: no cqe, unless the request failed.  A timer that expires
\* or is disarmed leaves without one.
KernelSkip(c) ==
  /\ \E r \in ring[c].kernel, ok \in BOOLEAN :
       /\ r.op \in {"skip", "timer"}
       /\ ok \/ (setup.skip_fails /\ r.op = "skip")
       /\ ring' = IF ok THEN Leaves(c, r)
                  ELSE [Leaves(c, r) EXCEPT ![c].cq = Append(@, r)]
  /\ UNCHANGED <<worker, inbox, loop, meta, coro, halted>>

\* the read of the eventfd: completes when the counter is not 0, and clears it
KernelEvent(c) ==
  /\ inbox[c].event # 0
  /\ \E r \in ring[c].kernel :
       /\ r.op = "event"
       /\ ring' = [Leaves(c, r) EXCEPT ![c].cq = Append(@, r)]
  /\ inbox' = [inbox EXCEPT ![c].event = 0]
  /\ UNCHANGED <<worker, loop, meta, coro, halted>>

-----------------------------------------------------------------------------
Coroutine(c) == \/ AwaitIo(c) \/ AwaitLink(c) \/ AwaitTimeout(c) \/ PrepareIo(c) \/ AwaitPrepared(c)
                \/ Detach(c) \/ Yield(c) \/ CoSpawn(c) \/ ResumeOn(c)
                \/ StopContext(c) \/ Return(c)

Reap(c) == HandleIo(c) \/ HandleLink(c) \/ HandleMsg(c) \/ HandleEvent(c)

Thread(c) == \/ Start(c) \/ PassBarrier(c) \/ Run(c)
             \/ WorkOnce(c) \/ Coroutine(c) \/ EventWrite(c)
             \/ PollSubmission(c) \/ Wake(c) \/ Peek(c) \/ BadPeek(c)
             \/ Reap(c) \/ PollDone(c) \/ BadPollDone(c) \/ DecideOver(c) \/ Deinit(c)

Kernel(c) == KernelIo(c) \/ KernelSkip(c) \/ KernelEvent(c)

\* A detached request of c fails in this step.
DetachedFails(c) == \E r \in ring[c].kernel :
                      r.op = "skip" /\ ring'[c].cq = Append(ring[c].cq, r)

Step(c, A) == /\ halted = "no" /\ c \in setup.ctx
              /\ A
              /\ UNCHANGED setup
              /\ failed' = (failed \/ DetachedFails(c))

Next == \E c \in Ctx :
          \/ Step(c, Thread(c)) \/ Step(c, Kernel(c))
          \/ Step(c, Interrupt(c)) \/ Step(c, BarrierTimeout(c))

Spec == Init /\ [][Next]_vars

\* Threads run, requests complete.  No signal and no start-up timeout is owed.
FairSpec == Spec /\ \A c \in Ctx : /\ WF_vars(Step(c, Thread(c)))
                                   /\ WF_vars(Step(c, KernelIo(c)))
                                   /\ WF_vars(Step(c, KernelSkip(c)))
                                   /\ WF_vars(Step(c, KernelEvent(c)))

-----------------------------------------------------------------------------
Requests == [op : Resuming \cup Counted \cup {"skip", "timer"}, coro : Coros \cup {None},
             to : Ctx \cup {None}, no : 0..setup.fuel]

TypeOK ==
  /\ worker \in [Ctx -> [reap_swap : Seq(Coros), requests_to_reap : Int,
                         requests_to_submit : Nat]]
  /\ inbox \in [Ctx -> [queue : Seq(Coros), event : {0, 1}]]
  /\ ring \in [Ctx -> [sq : Seq(Requests), kernel : SUBSET Requests, cq : Seq(Requests)]]
  /\ loop \in [Ctx -> [phase : Phases, num : Nat, running : Coros \cup {None},
                       write : Ctx \cup {None}, handled : BOOLEAN, will_stop : BOOLEAN]]
  /\ meta \in [create_count : Nat, ready_count : Nat]
  /\ coro \in [Coros -> [st : {"unborn", "live", "done"}, fuel : 0..setup.fuel,
                         handle : BOOLEAN, prepared : BOOLEAN]]
  /\ halted \in {"no", "start_timeout", "empty_task", "reap_swap_full"}
  /\ setup \in Setups /\ failed \in BOOLEAN

\* The requests of ring c, wherever they are.
Outstanding(c) == {<<"sq", i, ring[c].sq[i]>> : i \in DOMAIN ring[c].sq}
             \cup {<<"kernel", 0, r>> : r \in ring[c].kernel}
             \cup {<<"cq", i, ring[c].cq[i]>> : i \in DOMAIN ring[c].cq}

\* Everything that will resume coroutine k (an I/O that is only prepared has no
\* handle yet).
Handles(k) ==
  UNION { {<<"running", c>> : n \in {m \in {1} : loop[c].running = k}}
     \cup {<<"reap_swap", c, i>> : i \in {j \in DOMAIN worker[c].reap_swap :
                                             worker[c].reap_swap[j] = k}}
     \cup {<<"co_spawn_queue", c, i>> : i \in {j \in DOMAIN inbox[c].queue :
                                                  inbox[c].queue[j] = k}}
     \cup {<<"ring", c, o>> : o \in {p \in Outstanding(c) :
                                       /\ p[3].op \in Resuming /\ p[3].coro = k
                                       /\ p[3].op = "io" => ~ coro[k].prepared}}
   : c \in Ctx }

\* A live coroutine's handle is in exactly one place of one context, and that
\* of a finished one nowhere: no task is lost on its way between contexts, none
\* is resumed twice or after its frame is gone.  (The cqe of a detached request that
\* fails names what is gone, and nothing holds from then on.)
HandleInOnePlace ==
  /\ TypeOK
  /\ halted = "no" /\ ~ failed => \A k \in Coros :
       Cardinality(Handles(k)) = IF coro[k].st = "live" THEN 1 ELSE 0

\* requests_to_reap is the number of cqes this ring still owes its context
\* (worker_meta.hpp: "number of I/O tasks running inside io_uring"): the
\* decision to block and the decision to stop both rest on it.
ReapAccounting ==
  halted = "no" /\ ~ failed => \A c \in Ctx :
    worker[c].requests_to_reap =
      Cardinality({o \in Outstanding(c) : o[3].op \in Counted})

\* Nothing to run on c, nothing c awaits, nothing on its way to c.
Drained(c) ==
  /\ worker[c].reap_swap = <<>>
  /\ inbox[c].queue = <<>>
  /\ \A d \in Ctx : \A o \in Outstanding(d) :
       o[3].op \in Resuming => d # c /\ o[3].to # c

\* do_completion_part_bad_path sets will_stop only when the context is drained:
\* a task that was dispatched to a context nobody asked to stop is still run.  (A
\* detached request that fails takes its cqe off the count of the others.)
StopsOnlyWhenDrained ==
  [][~ failed => \A c \in Ctx : loop[c].phase = "over" /\ loop'[c].will_stop
                                 => loop[c].will_stop \/ Drained(c)]_vars

\* forward_task() is given an empty handle in two cases only: a detached request has
\* failed, or a coroutine that constructed an awaiter suspended on something else
\* before it awaited it, and the request was faster.
EmptyOnlyIfCareless ==
  [][halted' = "empty_task" /\ ~ failed =>
       \E c \in Ctx : /\ Reaping(c, "io") /\ Seen(c)
                      /\ coro[Head(ring[c].cq).coro].prepared]_vars

\* The program went wrong: a context started too late, forward_task()'s assertion
\* on the handle failed, or a detached request did.
Broken == halted \in {"start_timeout", "empty_task"} \/ failed

\* Every task that was spawned runs to its end, if nobody calls io_context_stop().
EveryTaskFinishes ==
  "stop" \in setup.ops \/ \A k \in Coros :
    coro[k].st = "live" ~> coro[k].st = "done" \/ Broken

\* Blocked in submit_and_wait(1) although no request in the ring owes a cqe:
\* what it submitted last were detached requests only.
Stranded(c) == /\ loop[c].phase = "submit_wait"
               /\ \A o \in Outstanding(c) : o[3].op \notin Counted \cup {"msg"}

\* Blocked with nothing left to do: wait_uring() was entered while ready_count
\* was above 1, and nobody wakes it when the other contexts deinit.
LeftWaiting(c) == /\ setup.ctx # {c}
                  /\ loop[c].phase \in {"submit_wait", "bad_wait"}
                  /\ ring[c].cq = <<>>
                  /\ Drained(c)

\* A context alone in its program stops by itself once its work is done:
\* requests_to_reap comes down to 0, and nothing but its own detached requests
\* can strand it.  One of several may also be left waiting, but only with
\* nothing to run and nothing on its way to it: none spins for ever, and none
\* sleeps on work.
ContextStops ==
  \A c \in Ctx :
    c \in setup.ctx => []<>(\/ loop[c].phase = "stopped" \/ Broken
                            \/ Stranded(c) \/ LeftWaiting(c))

=============================================================================
