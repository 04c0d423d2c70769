------------------------------- MODULE Channel -------------------------------
(***************************************************************************)
(* channel<T, capacity> (include/co_context/co/channel.hpp): the ring      *)
(* buffer, its one-element form, and the unbuffered form in which a sender *)
(* waits for a receiver.                                                   *)
(*                                                                         *)
(* The mutexes are FifoLocks, as CoMutex implements them.  A condition     *)
(* variable is its two lists, oldest waiter first; notify_one() takes them *)
(* apart in the steps of condition_variable.cpp, which several notifiers   *)
(* on different threads may do at once.  (CondVar has the links of the     *)
(* lists; here the reversal, which only touches the notifier's own batch,  *)
(* is part of a step.)  Coroutines with the same home share a thread.      *)
(* Each coroutine performs a number of operations; its pc is where it goes *)
(* on when it is not suspended.                                            *)
(***************************************************************************)
EXTENDS Naturals, Sequences, FiniteSets

CONSTANTS Senders, Receivers,
          Null,
          Capacities,  \* the instances of the template a run covers
          Homes,       \* what a run chooses from: home[p], the io_context that runs p
          Rounds       \* Rounds[p]: bound on the operations of p

Values == [from : Senders, no : Nat]

ASSUME ChannelAssumption == /\ IsFiniteSet(Senders) /\ IsFiniteSet(Receivers)
                            /\ Senders \cap Receivers = {}
                            /\ Null \notin Senders \cup Receivers \cup Values
                            /\ Capacities \subseteq Nat
                            /\ Rounds \in [Senders \cup Receivers -> Nat]

Procs == Senders \cup Receivers

VARIABLES capacity,        \* template parameter, a member of Capacities
          m_buf,           \* m_buf[i]: slot i of the ring (Null: no object there)
          m_first, m_last, \* indices into m_buf
          m_size,
          m_receiver,      \* capacity 0: whose `item' the next sender fills
          m_has_sender,    \* capacity 0
          item,            \* item[r]: local variable of acquire() and drop()
          lock,            \* lock[m]: owner and queue of each mutex
          asleep,          \* suspended in wait() and not registered on a mutex yet
          arrivals,        \* arrivals[v]: condition_variable::awaiting
          to_resume,       \* to_resume[v]: what is reached from to_resume_head
          severed,         \* severed[v]: to_resume_tail is not reached from there
          taken,           \* taken[p]: the awaiters in the hands of notifier p
          home,            \* a member of Homes, never changed
          pc, left,        \* per coroutine: where it is, operations to go
          sent, got        \* history: items constructed, items taken out

data == <<m_buf, m_first, m_last, m_size, m_receiver, m_has_sender, item>>

lists == <<arrivals, to_resume, severed, taken>>

vars == <<capacity, data, lock, asleep, lists, home, pc, left, sent, got>>

\* m_mtx or m_match_mtx, m_acquire_mtx, m_release_mtx
Mutexes == {"mtx", "acquire", "release"}

\* m_match_cv is one variable for both sides
Cvs == {"not_full", "not_empty", "match"}

\* Inside notify_one().
Notify == {"notify", "exchange", "splice", "register"}

TypeOK ==
  /\ capacity \in Capacities
  /\ m_buf \in [0..capacity -> Values \cup {Null}] /\ m_buf[capacity] = Null
  /\ m_size \in 0..capacity
  /\ m_first \in 0..capacity /\ m_last \in 0..capacity
  /\ capacity > 0 => m_first < capacity /\ m_last < capacity
  /\ m_receiver \in Receivers \cup {Null}
  /\ m_has_sender \in BOOLEAN
  /\ item \in [Receivers -> Values \cup {Null}]
  /\ lock \in [Mutexes -> [owner : Procs \cup {Null}, queue : Seq(Procs)]]
  /\ asleep \subseteq Procs
  /\ arrivals \in [Cvs -> Seq(Procs)] /\ to_resume \in [Cvs -> Seq(Procs)]
  /\ severed \in [Cvs -> BOOLEAN]
  /\ taken \in [Procs -> Seq(Procs)]
  /\ home \in Homes
  /\ pc \in [Procs -> {"idle", "outer", "body", "wait", "exit"} \cup Notify]
  /\ left \in [Procs -> Nat]
  /\ sent \in Seq(Values) /\ got \in Seq(Values)

Init ==
  /\ capacity \in Capacities
  /\ m_buf = [i \in 0..capacity |-> Null]
  /\ m_first = 0 /\ m_last = 0 /\ m_size = 0
  /\ m_receiver = Null /\ m_has_sender = FALSE
  /\ item = [r \in Receivers |-> Null]
  /\ lock = [m \in Mutexes |-> [owner |-> Null, queue |-> <<>>]]
  /\ asleep = {}
  /\ arrivals = [v \in Cvs |-> <<>>] /\ to_resume = [v \in Cvs |-> <<>>]
  /\ severed = [v \in Cvs |-> FALSE]
  /\ taken = [p \in Procs |-> <<>>]
  /\ home \in Homes
  /\ pc = [p \in Procs |-> "idle"]
  /\ left = Rounds
  /\ sent = <<>> /\ got = <<>>

-----------------------------------------------------------------------------
\* The primitives: what each does to the mutexes L.

InSeq(p, q) == \E i \in DOMAIN q : q[i] = p

Suspended(p) == p \in asleep \/ \E m \in Mutexes : InSeq(p, lock[m].queue)

At(p, from) == pc[p] = from /\ ~ Suspended(p)

Goto(p, to) == pc' = [pc EXCEPT ![p] = to]

Lock(L, m, p) ==
  [L EXCEPT ![m] = IF @.owner = Null THEN [owner |-> p, queue |-> <<>>]
                   ELSE [owner |-> @.owner, queue |-> Append(@.queue, p)]]

Unlock(L, m) ==
  [L EXCEPT ![m] = IF @.queue = <<>> THEN [owner |-> Null, queue |-> <<>>]
                   ELSE [owner |-> Head(@.queue), queue |-> Tail(@.queue)]]

\* co_await v.wait(m_mtx): push on `awaiting', then unlock_ahead().  A notifier
\* that takes p between the two queues it on m_mtx behind whoever is to have it,
\* as it does after them, so they are one step.
Wait(v, p) == /\ asleep' = asleep \cup {p}
              /\ arrivals' = [arrivals EXCEPT ![v] = Append(@, p)]
              /\ lock' = Unlock(lock, "mtx")
              /\ UNCHANGED <<to_resume, severed, taken>>

\* An operation ends.
Done(p) == Goto(p, "idle") /\ left' = [left EXCEPT ![p] = @ - 1]

\* A coroutine runs from unlock() to the end of notify_one() without a suspension:
\* nobody else does on its thread.
Alone(p) == \A q \in Procs \ {p} : home[q] = home[p] => pc[q] \notin Notify

\* The item s makes next.
Item(s) == [from |-> s, no |-> left[s]]

-----------------------------------------------------------------------------
\* notify_one(), the last statement of an operation, after the unlock; under
\* m_match_mtx when a receiver calls it.

\* Mutant: each side notifies its own condition.
NotifiedOwnSide(p) == IF capacity = 0 THEN "match"
                      ELSE IF p \in Senders THEN "not_full" ELSE "not_empty"

\* What p notifies.
Notified(p) == IF capacity = 0 THEN "match"
               ELSE IF p \in Senders THEN "not_empty" ELSE "not_full"

\* It returns.
Return(p) == \/ capacity > 0 /\ Done(p)
             \/ /\ capacity = 0
                /\ Goto(p, IF p \in Senders THEN "exit" ELSE "wait")
                /\ UNCHANGED left

\* 1. take the head of to_resume, 2. or go on to `awaiting'
TakeHead(p) ==
  LET v == Notified(p) IN
  /\ At(p, "notify")
  /\ IF to_resume[v] = <<>> THEN Goto(p, "exchange") /\ UNCHANGED <<to_resume, taken>>
     ELSE /\ taken' = [taken EXCEPT ![p] = <<Head(to_resume[v])>>]
          /\ to_resume' = [to_resume EXCEPT ![v] = Tail(@)]
          /\ Goto(p, "register")
  /\ UNCHANGED <<capacity, data, lock, asleep, arrivals, severed, left, sent, got>>

\* awaiting.exchange(nullptr); if it was empty, to_resume is not looked at again
Exchange(p) ==
  LET v == Notified(p) IN
  /\ At(p, "exchange")
  /\ IF arrivals[v] = <<>> THEN Return(p) /\ UNCHANGED <<arrivals, taken>>
     ELSE /\ taken' = [taken EXCEPT ![p] = arrivals[v]]
          /\ arrivals' = [arrivals EXCEPT ![v] = <<>>]
          /\ Goto(p, "splice")
          /\ UNCHANGED left
  /\ UNCHANGED <<capacity, data, lock, asleep, to_resume, severed, sent, got>>

\* 4. the rest of the batch becomes to_resume
Splice(p) ==
  LET v == Notified(p) IN
  /\ At(p, "splice") /\ to_resume[v] = <<>>
  /\ to_resume' = [to_resume EXCEPT ![v] = Tail(taken[p])]
  /\ severed' = [severed EXCEPT ![v] = FALSE]
  /\ taken' = [taken EXCEPT ![p] = <<Head(@)>>]
  /\ Goto(p, "register")
  /\ UNCHANGED <<capacity, data, lock, asleep, arrivals, left, sent, got>>

\* 5. another notifier filled to_resume: to_resume_tail->next = head, where head is
\* not linked to the rest of the batch
SpliceBehind(p) ==
  LET v == Notified(p) IN
  /\ At(p, "splice") /\ to_resume[v] # <<>>
  /\ to_resume' = [to_resume EXCEPT ![v] = IF severed[v] THEN Tail(@)
                                           ELSE Append(Tail(@), Head(taken[p]))]
  /\ severed' = [severed EXCEPT ![v] = @ \/ Len(taken[p]) > 1]
  /\ taken' = [taken EXCEPT ![p] = <<Head(to_resume[v])>>]
  /\ Goto(p, "register")
  /\ UNCHANGED <<capacity, data, lock, asleep, arrivals, left, sent, got>>

\* try_notify_one: register the awaiter on m_mtx, in its coroutine's name
RegisterHead(p) ==
  /\ At(p, "register")
  /\ asleep' = asleep \ {Head(taken[p])}
  /\ lock' = Lock(lock, "mtx", Head(taken[p]))
  /\ taken' = [taken EXCEPT ![p] = <<>>]
  /\ Return(p)
  /\ UNCHANGED <<capacity, data, arrivals, to_resume, severed, sent, got>>

-----------------------------------------------------------------------------
\* capacity >= 1 (channel<T, 1> holds its only slot in an optional)

Begin(p) ==
  /\ capacity > 0
  /\ At(p, "idle") /\ left[p] > 0
  /\ lock' = Lock(lock, "mtx", p)
  /\ Goto(p, "body")
  /\ UNCHANGED <<capacity, data, asleep, lists, left, sent, got>>

PushOne == /\ m_last' = IF m_last + 1 = capacity THEN 0 ELSE m_last + 1
           /\ m_size' = m_size + 1

PopOne == /\ m_first' = IF m_first + 1 = capacity THEN 0 ELSE m_first + 1
          /\ m_size' = m_size - 1

\* release(): until there is room, wait on not_full ...
ReleaseFull(s) ==
  /\ capacity > 0
  /\ At(s, "body") /\ m_size = capacity
  /\ Wait("not_full", s)
  /\ UNCHANGED <<capacity, data, pc, left, sent, got>>

\* ... then construct the item, push_one() and unlock
Release(s) ==
  /\ capacity > 0
  /\ At(s, "body") /\ m_size # capacity
  /\ m_buf' = [m_buf EXCEPT ![m_last] = Item(s)]
  /\ sent' = Append(sent, Item(s))
  /\ PushOne
  /\ lock' = Unlock(lock, "mtx")
  /\ Goto(s, "notify")
  /\ UNCHANGED <<capacity, m_first, m_receiver, m_has_sender, item, asleep, lists, left, got>>

\* acquire(), drop(): until there is an item, wait on not_empty ...
AcquireEmpty(r) ==
  /\ capacity > 0
  /\ At(r, "body") /\ m_size = 0
  /\ Wait("not_empty", r)
  /\ UNCHANGED <<capacity, data, pc, left, sent, got>>

\* ... then move it out (drop() destroys it), pop_one() and unlock
Acquire(r) ==
  /\ capacity > 0
  /\ At(r, "body") /\ m_size # 0
  /\ got' = Append(got, m_buf[m_first])
  /\ m_buf' = [m_buf EXCEPT ![m_first] = Null]
  /\ PopOne
  /\ lock' = Unlock(lock, "mtx")
  /\ Goto(r, "notify")
  /\ UNCHANGED <<capacity, m_last, m_receiver, m_has_sender, item, asleep, lists, left, sent>>

-----------------------------------------------------------------------------
\* capacity = 0

\* m_acquire_mtx lets one receiver in, m_release_mtx one sender ...
Outer(p) == IF p \in Senders THEN "release" ELSE "acquire"

LockOuter(p) ==
  /\ capacity = 0
  /\ At(p, "idle") /\ left[p] > 0
  /\ lock' = Lock(lock, Outer(p), p)
  /\ Goto(p, "outer")
  /\ UNCHANGED <<capacity, data, asleep, lists, left, sent, got>>

\* ... and m_match_mtx one of the two
LockMatch(p) ==
  /\ At(p, "outer")
  /\ lock' = Lock(lock, "mtx", p)
  /\ Goto(p, "body")
  /\ UNCHANGED <<capacity, data, asleep, lists, left, sent, got>>

\* acquire(), drop(): offer `item', wake a sender that waits
Offer(r) ==
  /\ capacity = 0
  /\ At(r, "body")
  /\ m_receiver' = r
  /\ Goto(r, IF m_has_sender THEN "notify" ELSE "wait")
  /\ UNCHANGED <<capacity, m_buf, m_first, m_last, m_size, m_has_sender, item, lock, asleep,
                 lists, left, sent, got>>

\* the loop of wait(m_match_mtx, predicate): a receiver waits for its item, a
\* sender for a receiver
AwaitMatch(p) ==
  /\ At(p, "wait")
  /\ IF p \in Senders THEN m_receiver = Null ELSE item[p] = Null
  /\ Wait("match", p)
  /\ UNCHANGED <<capacity, data, pc, left, sent, got>>

Take(r) ==
  /\ r \in Receivers
  /\ At(r, "wait") /\ item[r] # Null
  /\ got' = Append(got, item[r])
  /\ item' = [item EXCEPT ![r] = Null]
  /\ m_has_sender' = FALSE
  /\ lock' = Unlock(lock, "mtx")
  /\ Goto(r, "exit")
  /\ UNCHANGED <<capacity, m_buf, m_first, m_last, m_size, m_receiver, asleep, lists, left, sent>>

\* Mutant: nobody learns of the sender.
AnnounceNothing(s) ==
  /\ capacity = 0
  /\ At(s, "body") /\ m_receiver = Null
  /\ Wait("match", s)
  /\ Goto(s, "wait")
  /\ UNCHANGED <<capacity, data, left, sent, got>>

\* release(): without a receiver, announce a sender once and wait
Announce(s) ==
  /\ capacity = 0
  /\ At(s, "body") /\ m_receiver = Null
  /\ m_has_sender' = TRUE
  /\ Wait("match", s)
  /\ Goto(s, "wait")
  /\ UNCHANGED <<capacity, m_buf, m_first, m_last, m_size, m_receiver, item, left, sent, got>>

\* Mutant: the receiver stays on offer.
FillKeepsReceiver(s) ==
  /\ capacity = 0 /\ s \in Senders
  /\ At(s, "body") \/ At(s, "wait")
  /\ m_receiver # Null
  /\ item' = [item EXCEPT ![m_receiver] = Item(s)]
  /\ sent' = Append(sent, Item(s))
  /\ lock' = Unlock(lock, "mtx")
  /\ Goto(s, "notify")
  /\ UNCHANGED <<capacity, m_buf, m_first, m_last, m_size, m_receiver, m_has_sender, asleep, lists,
                 left, got>>

\* m_receiver->emplace(...), then unlock, then notify
Fill(s) ==
  /\ capacity = 0 /\ s \in Senders
  /\ At(s, "body") \/ At(s, "wait")
  /\ m_receiver # Null
  /\ item' = [item EXCEPT ![m_receiver] = Item(s)]
  /\ sent' = Append(sent, Item(s))
  /\ m_receiver' = Null
  /\ lock' = Unlock(lock, "mtx")
  /\ Goto(s, "notify")
  /\ UNCHANGED <<capacity, m_buf, m_first, m_last, m_size, m_has_sender, asleep, lists, left, got>>

UnlockOuter(p) ==
  /\ At(p, "exit")
  /\ lock' = Unlock(lock, Outer(p))
  /\ Done(p)
  /\ UNCHANGED <<capacity, data, asleep, lists, sent, got>>

-----------------------------------------------------------------------------
Sender(s) == ReleaseFull(s) \/ Release(s) \/ Announce(s) \/ Fill(s)

Receiver(r) == AcquireEmpty(r) \/ Acquire(r) \/ Offer(r) \/ Take(r)

Notification(p) == TakeHead(p) \/ Exchange(p) \/ Splice(p) \/ SpliceBehind(p) \/ RegisterHead(p)

Step(p) == /\ Alone(p)
           /\ UNCHANGED home
           /\ \/ p \in Senders /\ Sender(p)
              \/ p \in Receivers /\ Receiver(p)
              \/ Begin(p) \/ Notification(p)
              \/ LockOuter(p) \/ LockMatch(p) \/ AwaitMatch(p) \/ UnlockOuter(p)

Next == \E p \in Procs : Step(p)

Spec == Init /\ [][Next]_vars

FairSpec == Spec /\ \A p \in Procs : WF_vars(Step(p))

-----------------------------------------------------------------------------
\* What is in the channel, oldest first: the m_size slots from m_first on, or
\* the item a receiver has been given and has not returned yet.
Content ==
  IF capacity > 0 THEN [i \in 1..m_size |-> m_buf[(m_first + i - 1) % capacity]]
  ELSE LET full == {r \in Receivers : item[r] # Null}
       IN  IF full = {} THEN <<>> ELSE <<item[CHOOSE r \in full : TRUE]>>

\* Items come out in the order in which they went in, none is lost,
\* duplicated or overwritten, and an unbuffered channel holds at most one.
ItemsInOrder == /\ TypeOK
                /\ sent = got \o Content
                /\ Cardinality({r \in Receivers : item[r] # Null}) <= 1

Engaged(P) == {p \in P : pc[p] = "body" /\ p \notin asleep}

Notifying(P) == {p \in P : pc[p] \in Notify}

OneThread(P) == \A p, q \in P : home[p] = home[q]

\* notify_one after the unlock is enough although others may slip in between, if
\* all who notify share a thread: while a receiver sleeps on not_empty, every item
\* in the buffer is matched by a notification still to come or by a receiver at the
\* mutex; likewise for senders, not_full and the free slots.  (Notifiers on several
\* threads may find both lists empty while one of them is taking them apart, lines
\* 49-52 of condition_variable.cpp, or drop waiters in line 76.)
NoLostWakeup ==
  capacity > 0 =>
    /\ OneThread(Senders) /\ asleep \cap Receivers # {} =>
         m_size <= Cardinality(Notifying(Senders)) + Cardinality(Engaged(Receivers))
    /\ OneThread(Receivers) /\ asleep \cap Senders # {} =>
         capacity - m_size <= Cardinality(Notifying(Receivers)) + Cardinality(Engaged(Senders))

\* As many items are received as sent: every release(), acquire() and drop()
\* returns; no sender and receiver sleep on each other.
EveryOperationReturns == <>(\A p \in Procs : left[p] = 0 /\ pc[p] = "idle")

\* So it is with an unbuffered channel, which lets one coroutine notify at a time,
\* on any contexts, and with the others if their senders share a thread and their
\* receivers do.
EveryOperationCompletes ==
  capacity = 0 \/ (OneThread(Senders) /\ OneThread(Receivers)) => EveryOperationReturns

=============================================================================
