------------------------------- MODULE CondVar -------------------------------
(***************************************************************************)
(* condition_variable (include/co_context/co/condition_variable.hpp,       *)
(* lib/co_context/co/condition_variable.cpp) together with the mutex it    *)
(* waits on.                                                               *)
(*                                                                         *)
(* wait() pushes its awaiter on `awaiting' and unlocks the mutex; a        *)
(* notifier moves awaiters to the list to_resume_head..to_resume_tail and  *)
(* registers one of them (or all) on the mutex in its name, so that a      *)
(* woken coroutine owns the mutex when it runs.                            *)
(*                                                                         *)
(* The mutex is the FifoLock that CoMutex implements: an owner and a queue *)
(* in order of arrival.  The cv's lists are pointers, because notifiers    *)
(* on different threads splice them.  A section under notifier_mtx is one  *)
(* step.  Coroutines with the same home share a thread.                    *)
(***************************************************************************)
EXTENDS Naturals, Sequences, FiniteSets

CONSTANTS Waiters, Notifiers,
          nullptr,
          Setups  \* what a run chooses from: home[p], the io_context that runs p,
                  \* the active notifiers, and which of "one", "all" they call

CvConstants == /\ IsFiniteSet(Waiters)
               /\ nullptr \notin Waiters \cup Notifiers
               /\ Waiters \cap Notifiers = {}
               /\ \A s \in Setups : /\ s.notifiers \subseteq Notifiers
                                    /\ s.kinds \subseteq {"one", "all"}

ASSUME CvAssumption == CvConstants

VARIABLES owner, queue,    \* the mutex
          awaiting,        \* condition_variable::awaiting
          to_resume_head,  \* condition_variable::to_resume_head
          to_resume_tail,  \* condition_variable::to_resume_tail
          next,            \* next[w]: cv_wait_awaiter::next
          cv_pc,           \* where each coroutine is
          local,           \* local[n]: head, succ, pred and tail of notify_one/all
          setup,           \* a member of Setups, never changed
          stale            \* TRUE once an awaiter was registered that was not waiting

cv_vars == <<owner, queue, awaiting, to_resume_head, to_resume_tail, next, cv_pc, local, setup, stale>>

cvars == <<awaiting, to_resume_head, to_resume_tail, next>>

Actors == Waiters \cup Notifiers

Ptr == Waiters \cup {nullptr}

NoLocals == [head |-> nullptr, succ |-> nullptr, pred |-> nullptr, tail |-> nullptr]

\* idle, critical, suspended (on the cv or the mutex), granted (co_spawned
\* with the lock); unlock_ahead is the second half of await_suspend.
WaiterPc == {"idle", "critical", "unlock_ahead", "suspended", "granted"}

\* inside notify_one (n_) and notify_all (a_)
NotifierPc == {"idle", "n_exchange", "n_reverse", "n_splice", "n_register",
               "a_loop", "a_next", "a_second", "a_loop2", "a_next2"}

Runs(p) == \A q \in Actors \ {p} : setup.home[q] = setup.home[p] =>
             cv_pc[q] \in {"idle", "critical", "suspended", "granted"}

InQueue(w) == \E i \in DOMAIN queue : queue[i] = w

CvTypeOK == /\ owner \in Ptr
            /\ queue \in Seq(Waiters)
            /\ {awaiting, to_resume_head, to_resume_tail} \subseteq Ptr
            /\ next \in [Waiters -> Ptr]
            /\ cv_pc \in [Actors -> WaiterPc \cup NotifierPc]
            /\ local \in [Notifiers -> [head : Ptr, succ : Ptr, pred : Ptr, tail : Ptr]]
            /\ setup \in Setups
            /\ stale \in BOOLEAN

CvInit == /\ owner = nullptr
          /\ queue = <<>>
          /\ awaiting = nullptr
          /\ to_resume_head = nullptr
          /\ to_resume_tail = nullptr
          /\ next = [w \in Waiters |-> nullptr]
          /\ cv_pc = [p \in Actors |-> "idle"]
          /\ local = [n \in Notifiers |-> NoLocals]
          /\ setup \in Setups
          /\ stale = FALSE

Moves(p, from, to) == cv_pc[p] = from /\ cv_pc' = [cv_pc EXCEPT ![p] = to]

-----------------------------------------------------------------------------
\* mutex::unlock by p, who goes to `to' unless the lock comes back to it.
UnlockMutex(p, to) ==
  IF queue = <<>> THEN owner' = nullptr /\ queue' = queue /\ cv_pc' = [cv_pc EXCEPT ![p] = to]
  ELSE /\ owner' = Head(queue)
       /\ queue' = Tail(queue)
       /\ cv_pc' = [cv_pc EXCEPT ![p] = to, ![Head(queue)] = "granted"]

\* co_await mtx.lock()
AwaitLock(w) ==
  /\ Runs(w)
  /\ IF owner = nullptr
     THEN owner' = w /\ queue' = queue /\ Moves(w, "idle", "critical")
     ELSE owner' = owner /\ queue' = Append(queue, w) /\ Moves(w, "idle", "suspended")
  /\ UNCHANGED <<cvars, local, stale>>

Resume(w) ==
  /\ Runs(w)
  /\ Moves(w, "granted", "critical")
  /\ UNCHANGED <<owner, queue, cvars, local, stale>>

GuardUnlock(w) ==
  /\ Runs(w)
  /\ cv_pc[w] = "critical"
  /\ UnlockMutex(w, "idle")
  /\ UNCHANGED <<cvars, local, stale>>

\* co_await cv.wait(mtx): push the awaiter (the CAS loop) ...
AwaitWait(w) ==
  /\ Runs(w)
  /\ Moves(w, "critical", "unlock_ahead")
  /\ next' = [next EXCEPT ![w] = awaiting]
  /\ awaiting' = w
  /\ UNCHANGED <<owner, queue, to_resume_head, to_resume_tail, local, stale>>

\* ... then unlock_ahead(); a notifier may have queued w for the lock by now.
UnlockAhead(w) ==
  /\ cv_pc[w] = "unlock_ahead"
  /\ UnlockMutex(w, "suspended")
  /\ UNCHANGED <<cvars, local, stale>>

-----------------------------------------------------------------------------
\* Mutant: co_spawn whatever register_awaiting returned.
RegisterAlwaysSpawns(n, w, to) ==
  /\ owner' = IF owner = nullptr THEN w ELSE owner
  /\ cv_pc' = [cv_pc EXCEPT ![n] = to, ![w] = "granted"]
  /\ UNCHANGED <<queue, stale>>

\* register_awaiting() on the awaiter of w, called by notifier n, and co_spawn
\* if that took the lock.  The awaiter must be one that waits for the cv.
Register(n, w, to) ==
  IF cv_pc[w] \notin {"suspended", "unlock_ahead"} \/ InQueue(w)
  THEN /\ stale' = TRUE
       /\ cv_pc' = [cv_pc EXCEPT ![n] = to]
       /\ UNCHANGED <<owner, queue>>
  ELSE /\ UNCHANGED stale
       /\ IF owner = nullptr
          THEN owner' = w /\ queue' = queue /\ cv_pc' = [cv_pc EXCEPT ![n] = to, ![w] = "granted"]
          ELSE owner' = owner /\ queue' = Append(queue, w) /\ cv_pc' = [cv_pc EXCEPT ![n] = to]

\* notify_one 1. and 2.: the head of to_resume, or else the awaiting list
NotifyOne(n) ==
  /\ Runs(n)
  /\ "one" \in setup.kinds
  /\ IF to_resume_head # nullptr
     THEN /\ Moves(n, "idle", "n_register")
          /\ to_resume_head' = next[to_resume_head]
          /\ local' = [local EXCEPT ![n].head = to_resume_head]
          /\ UNCHANGED to_resume_tail
     ELSE /\ Moves(n, "idle", "n_exchange")
          /\ to_resume_tail' = nullptr
          /\ UNCHANGED <<to_resume_head, local>>
  /\ UNCHANGED <<owner, queue, awaiting, next, stale>>

ExchangeAwaiting(n) ==
  /\ Moves(n, "n_exchange", IF awaiting = nullptr THEN "idle" ELSE "n_reverse")
  /\ awaiting' = nullptr
  /\ local' = [local EXCEPT ![n] =
       IF awaiting = nullptr THEN NoLocals
       ELSE [head |-> awaiting, succ |-> nullptr, pred |-> next[awaiting], tail |-> awaiting]]
  /\ UNCHANGED <<owner, queue, to_resume_head, to_resume_tail, next, stale>>

\* 3. one round of the reversal, and its end: head->next is not assigned
Reverse(n) ==
  LET l == local[n] IN
  /\ IF l.pred = nullptr THEN Moves(n, "n_reverse", "n_splice") /\ UNCHANGED <<next, local>>
     ELSE /\ Moves(n, "n_reverse", "n_reverse")
          /\ next' = [next EXCEPT ![l.head] = l.succ]
          /\ local' = [local EXCEPT ![n] =
               [l EXCEPT !.succ = l.head, !.head = l.pred, !.pred = next[l.pred]]]
  /\ UNCHANGED <<owner, queue, awaiting, to_resume_head, to_resume_tail, stale>>

\* Mutant: the rest of the list is not kept.
SpliceEmptyForgets(n) ==
  /\ to_resume_head = nullptr
  /\ Moves(n, "n_splice", "n_register")
  /\ to_resume_tail' = local[n].tail
  /\ local' = [local EXCEPT ![n] = [NoLocals EXCEPT !.head = local[n].head]]
  /\ UNCHANGED <<owner, queue, awaiting, to_resume_head, next, stale>>

\* 4. to_resume is empty: it becomes succ..tail, and head is notified
SpliceEmpty(n) ==
  LET l == local[n] IN
  /\ to_resume_head = nullptr
  /\ Moves(n, "n_splice", "n_register")
  /\ to_resume_head' = l.succ
  /\ to_resume_tail' = l.tail
  /\ local' = [local EXCEPT ![n] = [NoLocals EXCEPT !.head = l.head]]
  /\ UNCHANGED <<owner, queue, awaiting, next, stale>>

\* 5. another notifier filled it: to_resume_tail->next = head, and the old
\* to_resume_head is notified
SpliceAppend(n) ==
  LET l == local[n]
      linked == [next EXCEPT ![to_resume_tail] = l.head]
  IN
  /\ to_resume_head # nullptr
  /\ Moves(n, "n_splice", "n_register")
  /\ next' = linked
  /\ to_resume_head' = linked[to_resume_head]
  /\ to_resume_tail' = l.tail
  /\ local' = [local EXCEPT ![n] = [NoLocals EXCEPT !.head = to_resume_head]]
  /\ UNCHANGED <<owner, queue, awaiting, stale>>

TryNotifyOne(n) ==
  /\ cv_pc[n] = "n_register"
  /\ Register(n, local[n].head, "idle")
  /\ local' = [local EXCEPT ![n] = NoLocals]
  /\ UNCHANGED cvars

\* notify_all: the awaiting list ...
NotifyAll(n) ==
  /\ Runs(n)
  /\ "all" \in setup.kinds
  /\ Moves(n, "idle", "a_loop")
  /\ local' = [local EXCEPT ![n].head = awaiting]
  /\ awaiting' = nullptr
  /\ UNCHANGED <<owner, queue, to_resume_head, to_resume_tail, next, stale>>

\* Mutant: to_resume_head is not cleared.
TakeToResumeKeeps(n) ==
  /\ Moves(n, "a_second", "a_loop2")
  /\ local' = [local EXCEPT ![n].head = to_resume_head]
  /\ UNCHANGED <<owner, queue, cvars, stale>>

\* ... then, under notifier_mtx, what is left of to_resume
TakeToResume(n) ==
  /\ Moves(n, "a_second", "a_loop2")
  /\ local' = [local EXCEPT ![n].head = to_resume_head]
  /\ to_resume_head' = nullptr
  /\ UNCHANGED <<owner, queue, awaiting, to_resume_tail, next, stale>>

\* try_notify_all: register head ...
TryNotifyAll(n) ==
  /\ cv_pc[n] \in {"a_loop", "a_loop2"}
  /\ IF local[n].head = nullptr
     THEN /\ cv_pc' = [cv_pc EXCEPT ![n] = IF cv_pc[n] = "a_loop" THEN "a_second" ELSE "idle"]
          /\ UNCHANGED <<owner, queue, stale>>
     ELSE Register(n, local[n].head, IF cv_pc[n] = "a_loop" THEN "a_next" ELSE "a_next2")
  /\ UNCHANGED <<cvars, local>>

\* ... and only then read head->next
AdvanceHead(n) ==
  /\ cv_pc[n] \in {"a_next", "a_next2"}
  /\ cv_pc' = [cv_pc EXCEPT ![n] = IF cv_pc[n] = "a_next" THEN "a_loop" ELSE "a_loop2"]
  /\ local' = [local EXCEPT ![n].head = next[local[n].head]]
  /\ UNCHANGED <<owner, queue, cvars, stale>>

-----------------------------------------------------------------------------
WaiterStep(w) == Resume(w) \/ GuardUnlock(w) \/ UnlockAhead(w)

NotifierStep(n) == \/ ExchangeAwaiting(n) \/ Reverse(n) \/ SpliceEmpty(n) \/ SpliceAppend(n)
                   \/ TryNotifyOne(n) \/ TakeToResume(n) \/ TryNotifyAll(n) \/ AdvanceHead(n)

CvNext == /\ ~ stale
          /\ UNCHANGED setup
          /\ \/ \E w \in Waiters : AwaitLock(w) \/ AwaitWait(w) \/ WaiterStep(w)
             \/ \E n \in setup.notifiers : NotifyOne(n) \/ NotifyAll(n) \/ NotifierStep(n)

CvSpec == CvInit /\ [][CvNext]_cv_vars

-----------------------------------------------------------------------------
\* Everything reachable along `next' from the pointers in S.
Reach(S) ==
  LET step[i \in 0..Cardinality(Waiters)] ==
        IF i = 0 THEN S \ {nullptr}
        ELSE step[i - 1] \cup ({next[w] : w \in step[i - 1]} \ {nullptr})
  IN  step[Cardinality(Waiters)]

Anchors == {awaiting, to_resume_head}
           \cup UNION {{local[n].head, local[n].succ, local[n].pred} : n \in Notifiers}

\* A coroutine suspended in wait() can still be found by a notification: it is
\* on one of the cv's lists or in the hands of a notifier at work ("append
\* head->...->tail to it").
NoWaiterLost ==
  \A w \in Waiters : cv_pc[w] = "suspended" /\ ~ InQueue(w) => w \in Reach(Anchors)

\* One notification at a time: the notifiers share a thread, or there is one.
OneAtATime == \A m, n \in setup.notifiers : setup.home[m] = setup.home[n]

\* However it interleaves with wait(), a single notifier drops nobody.
OneNotifierLosesNone == OneAtATime => NoWaiterLost

\* No notifier registers an awaiter on the mutex that is not waiting for the cv
\* (its coroutine has been woken already, or is queued for the lock).
NoStaleAwaiter == ~ stale

\* "the lock must be held, when io_context resume me", by one coroutine at a
\* time, and never left free while somebody is queued for it.
LockHeldOnResume ==
  /\ CvTypeOK
  /\ \A w \in Waiters : cv_pc[w] \in {"granted", "critical", "unlock_ahead"} <=> owner = w
  /\ owner = nullptr => queue = <<>>

=============================================================================
